----------------------------- MODULE MCEnvelope -----------------------------
(***************************************************************************)
(* Alice writes to Bob over up to two mediators, and the mediator replies  *)
(* to Bob.  Alice has replaced an earlier DID.  Both have keys of two      *)
(* curves, Bob has lost one of his, and each may publish a second document *)
(* at any moment.                                                          *)
(***************************************************************************)
EXTENDS Envelope, TLC

CONSTANTS alice, former, bob, med, relay,
          aX, aP, aS, fS, bX, bP, bZ, mX, mS, rE, rX,
          kaX, kaX2, kaP, kaS, kfS, kbX, kbX2, kbP, kbZ, kmX, kmS, krE, krX,
          medUrl, s0, s1, s2, s3, s4, s5

MCDids == {alice, former, bob, med, relay}
MCKids == {aX, aP, aS, fS, bX, bP, bZ, mX, mS, rE, rX}
MCKeys == {kaX, kaX2, kaP, kaS, kfS, kbX, kbX2, kbP, kbZ, kmX, kmS, krE, krX}
MCDidOf == aX :> alice @@ aP :> alice @@ aS :> alice @@ fS :> former @@
           bX :> bob @@ bP :> bob @@ bZ :> bob @@ mX :> med @@ mS :> med @@ rE :> relay @@ rX :> relay
MCAlgOf ==
  [k \in MCKeys |-> IF k \in {kaP, kbP} THEN "P256"
                    ELSE IF k \in {kaS, kfS, kmS} THEN "Ed25519"
                    ELSE IF k = krE THEN "unsupported" ELSE "X25519"]
MCWallet ==
  alice :> (aX :> kaX @@ aP :> kaP @@ aS :> kaS @@ fS :> kfS) @@
  former :> (fS :> kfS) @@
  bob :> (bX :> kbX @@ bP :> kbP) @@
  med :> (mX :> kmX @@ mS :> kmS) @@
  relay :> (rE :> krE @@ rX :> krX)

ToBobOver(id, v2, uri, routing) == [id |-> id, v2 |-> v2, uri |-> uri, routing |-> routing]
BobServices ==
  <<ToBobOver(s0, FALSE, medUrl, <<>>), ToBobOver(s1, TRUE, med, <<relay>>),
    ToBobOver(s2, TRUE, medUrl, <<med>>), ToBobOver(s3, TRUE, medUrl, <<>>),
    ToBobOver(s4, TRUE, medUrl, <<med, bob>>), ToBobOver(s5, TRUE, med, <<med, rX>>)>>

MCVersions ==
  \* Alice puts a new key behind the id of her first one.
  alice :> <<[agree |-> <<aX, aP>>, auth |-> <<aS>>, services |-> <<>>,
              key |-> aX :> kaX @@ aP :> kaP @@ aS :> kaS],
             [agree |-> <<aX, aP>>, auth |-> <<aS>>, services |-> <<>>,
              key |-> aX :> kaX2 @@ aP :> kaP @@ aS :> kaS]>> @@
  \* The former DID is deactivated.
  former :> <<[agree |-> <<>>, auth |-> <<fS>>, services |-> <<>>, key |-> fS :> kfS],
              NoDoc>> @@
  \* Bob puts a new key behind the same id, and leaves the mediator.
  bob :> <<[agree |-> <<bZ, bX, bP>>, auth |-> <<>>, services |-> BobServices,
            key |-> bZ :> kbZ @@ bX :> kbX @@ bP :> kbP],
           [agree |-> <<bX>>, auth |-> <<>>, services |-> <<>>, key |-> bX :> kbX2]>> @@
  med :> <<[agree |-> <<mX>>, auth |-> <<mS>>,
            services |-> <<ToBobOver(s1, TRUE, medUrl, <<>>)>>,
            key |-> mX :> kmX @@ mS :> kmS]>> @@
  relay :> <<[agree |-> <<rE, rX>>, auth |-> <<>>, services |-> <<>>,
              key |-> rE :> krE @@ rX :> krX]>>

MCOwnerOf == medUrl :> med
MCWatch == {<<alice, alice>>, <<alice, bob>>, <<alice, former>>,
            <<bob, alice>>, <<bob, former>>}

Plainest ==
  [sender |-> alice, to |-> bob, from |-> None, signBy |-> None, protect |-> FALSE,
   forward |-> TRUE, service |-> None, prior |-> None, sub |-> alice, msgFrom |-> alice,
   msgTo |-> {}, expectAll |-> FALSE, unwrap |-> TRUE]

\* Every way to seal the message, over every service.
Sealed ==
  {[Plainest EXCEPT !.from = f, !.signBy = s, !.protect = p, !.service = w, !.forward = fw] :
     f \in {None, alice, aP}, s \in {None, alice}, p \in BOOLEAN,
     w \in {None, s0, s2, s3, s4}, fw \in BOOLEAN}
\* A key of the recipient is chosen, the options of the reader vary.
Chosen ==
  {[Plainest EXCEPT !.to = t, !.forward = FALSE, !.from = alice, !.expectAll = e] :
     t \in {bob, bX, bP, bZ}, e \in BOOLEAN}
Kept == {[Plainest EXCEPT !.service = s4, !.unwrap = FALSE]}
\* The route leads to a key id: the resolver takes it or not, or a routing key is one.
ToKeys ==
  {[Plainest EXCEPT !.to = t, !.from = f, !.service = s2] : t \in {bX, bP}, f \in {None, alice}}
  \cup {[Plainest EXCEPT !.service = s5, !.from = f] : f \in {None, alice}}
\* The sender introduces its new DID, or gets the headers wrong.
Introduced ==
  {[Plainest EXCEPT !.from = alice, !.prior = former, !.msgFrom = m, !.msgTo = t,
                    !.service = s2] :
     m \in {None, alice, former}, t \in {{}, {bob}, {med}}}
SelfIssued == {[Plainest EXCEPT !.prior = alice]}
\* The mediator replies: the service of Bob that is no route.
Replies ==
  {[Plainest EXCEPT !.sender = med, !.from = med, !.signBy = med, !.msgFrom = med,
                    !.msgTo = {bob}, !.service = w] : w \in {None, s3}}

MCRequests == Sealed \cup Chosen \cup ToKeys \cup Kept \cup Introduced \cup SelfIssued \cup Replies

\* The theorems that suppose something of the keys hold of these agents.
ASSUME KeysAssumption == PrivateKeys /\ SecretsFit
=============================================================================
