-------------------------- MODULE AuthSessionProofs --------------------------
(***************************************************************************)
(* A challenge is answered once, the tokens are for the DID that asked for *)
(* it, and the counters cover them, for any number of DIDs, ids and        *)
(* requests.                                                               *)
(***************************************************************************)
EXTENDS AuthSession, FiniteSetTheorems, TLAPS

Open(r) == req[r].pc = "checked"

\* An id that was not drawn yet names nothing.
FreshIds == \A i \in Ids \ used : store[i] = NoSession /\ owner[i] = NoDid

\* Between the two calls of a request its challenge is still there, or gone,
\* and its new id names nothing.
OpenRequests ==
  \A r \in Requests : Open(r) =>
    /\ req[r] \in Checked
    /\ req[r].old \in used /\ req[r].new \in used
    /\ req[r].from \in {req[r].did, NoDid}
    /\ owner[req[r].old] = req[r].did
    /\ store[req[r].old] \in {NoSession, [state |-> "ChallengeSent", did |-> req[r].did]}
    /\ owner[req[r].new] = NoDid
    /\ store[req[r].new] = NoSession

\* No two requests drew one id.
OneNew ==
  \A r, s \in Requests : Open(r) /\ Open(s) /\ r # s => req[r].new # req[s].new

Challenges ==
  \A i \in Ids : store[i].state = "ChallengeSent" => store[i].did = owner[i]

\* A challenge that gave tokens is gone for good.
Given(t) ==
  /\ t.challenge \in used /\ t.sid \in used
  /\ owner[t.challenge] = t.did
  /\ t.from \in {t.did, NoDid}
  /\ store[t.challenge] = NoSession
  /\ owner[t.sid] = NoDid
  /\ store[t.sid] \in {NoSession, [state |-> "Authenticated", did |-> t.did]}
  /\ \A r \in Requests : Open(r) => req[r].new # t.sid

AuthInv ==
  /\ AuthTypeOK
  /\ FreshIds
  /\ OpenRequests
  /\ OneNew
  /\ Challenges
  /\ \A t \in tokens : Given(t)
  /\ ChallengeUsedOnce

LEMMA AuthInvInit == AuthInit => AuthInv
  BY NoDidAssumption DEF AuthInit, AuthInv, AuthTypeOK, FreshIds, OpenRequests, OneNew,
     Challenges, ChallengeUsedOnce, Open, NoSession, Stored, Asked

\* The five parts of the invariant besides the types and the uniqueness, which
\* every action is checked against.
LEMMA AuthTypeStep ==
  ASSUME AuthInv, [AuthNext]_authVars
  PROVE  AuthTypeOK'
<1> USE NoDidAssumption DEF AuthInv
<1>1. CASE UNCHANGED authVars
  BY <1>1 DEF AuthTypeOK, authVars
<1>2. ASSUME NEW d \in Dids, NEW i \in Ids, Challenge(d, i) PROVE AuthTypeOK'
  BY <1>2 DEF Challenge, CreateSession, AuthTypeOK, Stored
<1>3. ASSUME NEW r \in Requests, NEW from \in Dids \cup {NoDid}, NEW i \in Ids,
             ReadSession(r, from, i)
      PROVE  AuthTypeOK'
  BY <1>3 DEF ReadSession, Check, Complete, AuthTypeOK, Asked, Checked, Stored
<1>4. ASSUME NEW r \in Requests, UpdateSession(r) PROVE AuthTypeOK'
  <2>1. req[r] \in Checked
    BY <1>4 DEF UpdateSession, Claims, AuthTypeOK, Asked, Checked
  <2>2. store' \in [Ids -> Stored]
    <3>1. req[r].old \in Ids /\ req[r].new \in Ids
      BY <2>1 DEF Checked
    <3>2. NoSession \in Stored
      BY DEF Stored, NoSession
    <3>3. Renamed(req[r].old, req[r].new) \in [Ids -> Stored]
      BY <3>1, <3>2 DEF Renamed, AuthTypeOK
    <3> QED
      BY <1>4, <3>1, <3>3 DEF UpdateSession, Claims, AuthTypeOK, Stored
  <2>3. tokens' \subseteq Tokens
    BY <1>4, <2>1 DEF UpdateSession, Claims, AuthTypeOK, Checked, Tokens
  <2> QED
    BY <1>4, <2>2, <2>3 DEF UpdateSession, Claims, AuthTypeOK, Asked
<1>5. ASSUME NEW r \in Requests, GiveUp(r) PROVE AuthTypeOK'
  BY <1>5 DEF GiveUp, AuthTypeOK, Asked
<1>6. ASSUME NEW i \in Ids, Expire(i) PROVE AuthTypeOK'
  BY <1>6 DEF Expire, AuthTypeOK, Stored, NoSession
<1> QED
  BY <1>1, <1>2, <1>3, <1>4, <1>5, <1>6 DEF AuthNext

LEMMA AuthInvStep == AuthInv /\ [AuthNext]_authVars => AuthInv'
<1> SUFFICES ASSUME AuthInv, [AuthNext]_authVars
             PROVE  AuthInv'
  OBVIOUS
<1>t. AuthTypeOK /\ AuthTypeOK'
  BY AuthTypeStep DEF AuthInv
<1> USE NoDidAssumption
<1>1. CASE UNCHANGED authVars
  BY <1>1, <1>t DEF AuthInv, authVars, FreshIds, OpenRequests, OneNew, Challenges, Given,
     ChallengeUsedOnce, Open
<1>2. ASSUME NEW d \in Dids, NEW i \in Ids, Challenge(d, i) PROVE AuthInv'
  <2>1. /\ req' = req /\ tokens' = tokens /\ used' = used \cup {i} /\ i \notin used
        /\ \A j \in Ids : j # i => store'[j] = store[j] /\ owner'[j] = owner[j]
        /\ store'[i] = [state |-> "ChallengeSent", did |-> d] /\ owner'[i] = d
    BY <1>2, <1>t DEF Challenge, CreateSession, AuthTypeOK
  <2>2. FreshIds'
    BY <2>1 DEF AuthInv, FreshIds
  <2>3. OpenRequests' /\ OneNew'
    BY <2>1, <1>t DEF AuthInv, OpenRequests, OneNew, Open, Checked
  <2>4. Challenges'
    BY <2>1 DEF AuthInv, Challenges
  <2>5. \A t \in tokens' : Given(t)'
    <3> SUFFICES ASSUME NEW t \in tokens PROVE Given(t)'
      BY <2>1
    <3>1. Given(t) /\ t \in Tokens
      BY <1>t DEF AuthInv, AuthTypeOK
    <3>2. t.challenge # i /\ t.sid # i
      BY <2>1, <3>1 DEF Given
    <3> QED
      BY <2>1, <3>1, <3>2 DEF Given, Open, Tokens
  <2>6. ChallengeUsedOnce'
    BY <2>1 DEF AuthInv, ChallengeUsedOnce
  <2> QED
    BY <1>t, <2>2, <2>3, <2>4, <2>5, <2>6 DEF AuthInv
<1>3. ASSUME NEW r \in Requests, NEW from \in Dids \cup {NoDid}, NEW i \in Ids,
             ReadSession(r, from, i)
      PROVE  AuthInv'
  <2>1. store' = store /\ owner' = owner /\ tokens' = tokens
    BY <1>3 DEF ReadSession
  <2>2. CASE Check(i, from) /\ \E new \in Ids \ used :
               /\ used' = used \cup {new}
               /\ req' = [req EXCEPT ![r] =
                    [pc |-> "checked", from |-> from, did |-> store[i].did,
                     old |-> i, new |-> new]]
    <3>1. PICK new \in Ids \ used :
            /\ used' = used \cup {new}
            /\ req' = [req EXCEPT ![r] =
                 [pc |-> "checked", from |-> from, did |-> store[i].did,
                     old |-> i, new |-> new]]
      BY <2>2
    <3>2. /\ req'[r] = [pc |-> "checked", from |-> from, did |-> store[i].did,
                     old |-> i, new |-> new]
          /\ \A s \in Requests : s # r => req'[s] = req[s]
      BY <3>1, <1>t DEF AuthTypeOK
    <3>d. PICK d \in Dids : d = store[i].did
      BY <2>2, <1>t DEF Check, Complete, AuthTypeOK, Stored
    <3>3. /\ store[i] = [state |-> "ChallengeSent", did |-> d]
          /\ owner[i] = d /\ i \in used /\ from \in {d, NoDid}
      <4>1. /\ store[i] \in Stored /\ store[i].state = "ChallengeSent"
            /\ from \in {d, NoDid}
        BY <2>2, <3>d, <1>t DEF Check, AuthTypeOK
      <4>2. owner[i] = d
        BY <3>d, <4>1 DEF AuthInv, Challenges
      <4>3. i \in used
        BY <4>2 DEF AuthInv, FreshIds
      <4> QED
        BY <3>d, <4>1, <4>2, <4>3 DEF Stored
    <3>4. store[new] = NoSession /\ owner[new] = NoDid /\ new \notin used
      BY <3>1 DEF AuthInv, FreshIds
    <3>5. FreshIds' /\ Challenges' /\ ChallengeUsedOnce'
      BY <2>1, <3>1 DEF AuthInv, FreshIds, Challenges, ChallengeUsedOnce
    <3>6. OpenRequests'
      <4> SUFFICES ASSUME NEW s \in Requests, Open(s)'
                   PROVE  /\ req'[s] \in Checked
                          /\ req'[s].old \in used' /\ req'[s].new \in used'
                          /\ req'[s].from \in {req'[s].did, NoDid}
                          /\ owner[req'[s].old] = req'[s].did
                          /\ store[req'[s].old] \in
                               {NoSession, [state |-> "ChallengeSent", did |-> req'[s].did]}
                          /\ owner[req'[s].new] = NoDid
                          /\ store[req'[s].new] = NoSession
        BY <2>1 DEF OpenRequests
      <4>1. CASE s = r
        <5>1. req'[r] \in Checked
          BY <3>2, <3>d DEF Checked
        <5>2. /\ req'[r].from = from /\ req'[r].did = d
              /\ req'[r].old = i /\ req'[r].new = new
          BY <3>2, <3>d
        <5>3. used' = used \cup {new}
          BY <3>1
        <5> QED
          BY <3>3, <3>4, <4>1, <5>1, <5>2, <5>3
      <4>2. CASE s # r
        BY <3>1, <3>2, <4>2 DEF AuthInv, OpenRequests, Open
      <4> QED
        BY <4>1, <4>2
    <3>a. \A s \in Requests : Open(s) => req[s].new # new
      BY <3>4 DEF AuthInv, OpenRequests
    <3>7. OneNew'
      BY <3>2, <3>a DEF AuthInv, OneNew, Open
    <3>8. \A t \in tokens' : Given(t)'
      <4> SUFFICES ASSUME NEW t \in tokens PROVE Given(t)'
        BY <2>1
      <4>1. Given(t) /\ t.sid # new
        BY <3>4 DEF AuthInv, Given
      <4>2. \A s \in Requests : Open(s)' => req'[s].new # t.sid
        BY <3>2, <4>1 DEF Given, Open
      <4> QED
        BY <2>1, <3>1, <4>1, <4>2 DEF Given
    <3> QED
      BY <1>t, <3>5, <3>6, <3>7, <3>8 DEF AuthInv
  <2>3. CASE used' = used /\ req' = [req EXCEPT ![r] = [pc |-> "done"]]
    <3>1. req'[r] = [pc |-> "done"] /\ \A s \in Requests : s # r => req'[s] = req[s]
      BY <2>3, <1>t DEF AuthTypeOK
    <3> QED
      BY <1>t, <2>1, <2>3, <3>1 DEF AuthInv, FreshIds, OpenRequests, OneNew, Challenges,
         Given, ChallengeUsedOnce, Open
  <2> QED
    BY <1>3, <2>2, <2>3 DEF ReadSession
<1>4. ASSUME NEW r \in Requests, UpdateSession(r) PROVE AuthInv'
  <2> DEFINE old == req[r].old
             new == req[r].new
             did == req[r].did
  <2>1. /\ Open(r) /\ req[r] \in Checked /\ old \in used /\ new \in used
        /\ old \in Ids /\ new \in Ids /\ did \in Dids
        /\ owner[old] = did /\ req[r].from \in {did, NoDid} /\ owner[new] = NoDid /\ old # new
        /\ store[old] \in {NoSession, [state |-> "ChallengeSent", did |-> did]}
        /\ store[new] = NoSession
    BY <1>4 DEF UpdateSession, Claims, AuthInv, OpenRequests, Open, Checked
  <2>2. /\ used' = used /\ owner' = owner
        /\ req'[r] = [pc |-> "done"]
        /\ \A s \in Requests : s # r => req'[s] = req[s]
    BY <1>4, <1>t DEF UpdateSession, Claims, AuthTypeOK
  <2>3. /\ \A j \in Ids : j # old /\ j # new => store'[j] = store[j]
        /\ store'[old] = NoSession
        /\ store'[new] = [state |-> "Authenticated",
                          did |-> IF store[old] = NoSession THEN NoDid ELSE did]
    BY <1>4, <1>t, <2>1 DEF UpdateSession, Claims, AuthTypeOK, Renamed, RenameOk, NoSession
  <2>4. FreshIds'
    BY <2>1, <2>2, <2>3 DEF AuthInv, FreshIds
  <2>5. OpenRequests'
    BY <2>1, <2>2, <2>3 DEF AuthInv, OpenRequests, OneNew, Open, Checked
  <2>6. OneNew'
    BY <2>2 DEF AuthInv, OneNew, Open
  <2>7. Challenges'
    BY <2>1, <2>2, <2>3 DEF AuthInv, Challenges, NoSession
  <2>8. \A t \in tokens : Given(t)'
    <3> SUFFICES ASSUME NEW t \in tokens PROVE Given(t)'
      OBVIOUS
    <3>1. Given(t) /\ t \in Tokens
      BY <1>t DEF AuthInv, AuthTypeOK
    <3>2. t.challenge # new /\ t.sid # new /\ t.sid # old
      BY <2>1, <3>1 DEF Given, Tokens
    <3> QED
      BY <2>1, <2>2, <2>3, <3>1, <3>2 DEF Given, Open, Tokens
  <2>9. CASE store[old] = NoSession
    <3>1. tokens' = tokens
      BY <1>4, <2>9 DEF UpdateSession, Claims, RenameOk
    <3> QED
      BY <1>t, <2>4, <2>5, <2>6, <2>7, <2>8, <3>1 DEF AuthInv, ChallengeUsedOnce
  <2>10. CASE store[old] # NoSession
    <3>0. PICK token : token = [did |-> did, from |-> req[r].from, challenge |-> old, sid |-> new]
      OBVIOUS
    <3>1. tokens' = tokens \cup {token}
      BY <1>4, <2>10, <3>0 DEF UpdateSession, Claims, RenameOk
    <3>2. Given(token)'
      <4>1. \A s \in Requests : Open(s)' => req'[s].new # token.sid
        BY <2>1, <2>2, <3>0 DEF AuthInv, OneNew, Open
      <4> QED
        BY <2>1, <2>2, <2>3, <2>10, <3>0, <4>1 DEF Given
    <3>3. \A t \in tokens : t.challenge # old
      BY <2>10 DEF AuthInv, Given
    <3>4. ChallengeUsedOnce'
      BY <3>0, <3>1, <3>3 DEF AuthInv, ChallengeUsedOnce
    <3>5. \A t \in tokens' : Given(t)'
      BY <2>8, <3>1, <3>2
    <3> QED
      BY <1>t, <2>4, <2>5, <2>6, <2>7, <3>4, <3>5 DEF AuthInv
  <2> QED
    BY <2>9, <2>10
<1>5. ASSUME NEW r \in Requests, GiveUp(r) PROVE AuthInv'
  <2>1. /\ req'[r] = [pc |-> "done"] /\ \A s \in Requests : s # r => req'[s] = req[s]
        /\ UNCHANGED <<store, used, owner, tokens>>
    BY <1>5, <1>t DEF GiveUp, AuthTypeOK
  <2> QED
    BY <1>t, <2>1 DEF AuthInv, FreshIds, OpenRequests, OneNew, Challenges, Given,
       ChallengeUsedOnce, Open
<1>6. ASSUME NEW i \in Ids, Expire(i) PROVE AuthInv'
  <2>1. /\ UNCHANGED <<req, used, owner, tokens>>
        /\ store'[i] = NoSession /\ \A j \in Ids : j # i => store'[j] = store[j]
    BY <1>6, <1>t DEF Expire, AuthTypeOK
  <2>2. FreshIds' /\ OneNew' /\ ChallengeUsedOnce'
    BY <2>1 DEF AuthInv, FreshIds, OneNew, ChallengeUsedOnce, Open
  <2>3. OpenRequests'
    BY <2>1 DEF AuthInv, OpenRequests, Open, Checked
  <2>4. Challenges'
    BY <2>1 DEF AuthInv, Challenges, NoSession
  <2>5. \A t \in tokens' : Given(t)'
    BY <2>1, <1>t DEF AuthInv, Given, Open, AuthTypeOK, Tokens
  <2> QED
    BY <1>t, <2>2, <2>3, <2>4, <2>5 DEF AuthInv
<1> QED
  BY <1>1, <1>2, <1>3, <1>4, <1>5, <1>6 DEF AuthNext

LEMMA AuthInvariant == AuthSpec => []AuthInv
  BY AuthInvInit, AuthInvStep, PTL DEF AuthSpec

(***************************************************************************)
(* However many requests race with one challenge, at most one is answered  *)
(* with tokens (authentication_response, update_session_authenticated).    *)
(***************************************************************************)
THEOREM ChallengesAreUsedOnce == AuthSpec => []ChallengeUsedOnce
<1>1. AuthInv => ChallengeUsedOnce
  BY DEF AuthInv
<1> QED
  BY <1>1, AuthInvariant, PTL

(***************************************************************************)
(* Tokens are for the DID that the challenge was created for, and their    *)
(* session never belongs to another DID.                                   *)
(***************************************************************************)
THEOREM TokensAreForTheChallenged == AuthSpec => []TokensMatchChallenge
<1>1. AuthInv => TokensMatchChallenge
  BY DEF AuthInv, Given, TokensMatchChallenge
<1> QED
  BY <1>1, AuthInvariant, PTL

(***************************************************************************)
(* Sessions, requests and tokens are well formed, the counters are         *)
(* numbers (Session, TokenPayload).                                        *)
(***************************************************************************)
THEOREM SessionsAreWellFormed == AuthSpec => []AuthTypeOK
<1>1. AuthInv => AuthTypeOK
  BY DEF AuthInv
<1> QED
  BY <1>1, AuthInvariant, PTL

-----------------------------------------------------------------------------
(* The counters *)

\* The ids of the challenges that were made.
Made == {i \in Ids : owner[i] # NoDid}

Counted ==
  /\ IsFiniteSet(Made) /\ Cardinality(Made) = created
  /\ IsFiniteSet(tokens) /\ Cardinality(tokens) <= success

LEMMA CountedInit == AuthInit => Counted
<1> SUFFICES ASSUME AuthInit PROVE Counted
  OBVIOUS
<1>1. Made = {} /\ tokens = {} /\ created = 0 /\ success = 0
  BY DEF AuthInit, Made
<1> QED
  BY <1>1, FS_EmptySet DEF Counted

\* What is left alone keeps its count.
LEMMA CountedFrame ==
  ASSUME Counted, owner' = owner, created' = created, tokens' = tokens, success' = success
  PROVE  Counted'
<1>1. Made' = Made
  BY DEF Made
<1> QED
  BY <1>1 DEF Counted

LEMMA CountedStep == AuthInv /\ Counted /\ [AuthNext]_authVars => Counted'
<1> SUFFICES ASSUME AuthInv, Counted, [AuthNext]_authVars
             PROVE  Counted'
  OBVIOUS
<1>t. AuthTypeOK
  BY DEF AuthInv
<1>1. CASE UNCHANGED authVars
  BY <1>1, CountedFrame DEF authVars
<1>2. ASSUME NEW d \in Dids, NEW i \in Ids, Challenge(d, i) PROVE Counted'
  <2>1. i \notin used /\ owner' = [owner EXCEPT ![i] = d]
    BY <1>2 DEF Challenge
  <2>2. created' = created + 1 /\ tokens' = tokens /\ success' = success
    BY <1>2 DEF Challenge, CreateSession
  <2>3. i \notin Made
    BY <2>1 DEF AuthInv, FreshIds, Made
  <2>4. Made' = Made \cup {i}
    BY <2>1, <1>t, NoDidAssumption DEF Made, AuthTypeOK
  <2>5. IsFiniteSet(Made') /\ Cardinality(Made') = Cardinality(Made) + 1
    BY <2>3, <2>4, FS_AddElement DEF Counted
  <2> QED
    BY <2>2, <2>5 DEF Counted
<1>3. ASSUME NEW r \in Requests, UpdateSession(r) PROVE Counted'
  <2>1. owner' = owner /\ created' = created /\ success' = success + 1
    BY <1>3 DEF UpdateSession, Claims
  <2>2. PICK t : tokens' = tokens \/ tokens' = tokens \cup {t}
    BY <1>3 DEF UpdateSession, Claims
  <2>3. IsFiniteSet(tokens \cup {t}) /\ Cardinality(tokens \cup {t}) <= Cardinality(tokens) + 1
    <3>1. IsFiniteSet(tokens) /\ Cardinality(tokens) \in Nat
      BY FS_CardinalityType DEF Counted
    <3>2. IsFiniteSet(tokens \cup {t})
      BY <3>1, FS_AddElement
    <3>3. Cardinality(tokens \cup {t}) =
            IF t \in tokens THEN Cardinality(tokens) ELSE Cardinality(tokens) + 1
      BY <3>1, FS_AddElement
    <3> QED
      BY <3>1, <3>2, <3>3
  <2>4. IsFiniteSet(tokens') /\ Cardinality(tokens') <= success + 1
    <3>1. Cardinality(tokens) \in Nat /\ success \in Nat
      BY <1>t, FS_CardinalityType DEF Counted, AuthTypeOK
    <3>2. Cardinality(tokens \cup {t}) \in Nat
      BY <2>3, FS_CardinalityType
    <3> QED
      BY <2>2, <2>3, <3>1, <3>2 DEF Counted
  <2>5. Made' = Made
    BY <2>1 DEF Made
  <2> QED
    BY <2>1, <2>4, <2>5 DEF Counted
<1>4. ASSUME NEW r \in Requests, NEW from \in Dids \cup {NoDid}, NEW i \in Ids,
             ReadSession(r, from, i)
      PROVE  Counted'
  BY <1>4, CountedFrame DEF ReadSession
<1>5. ASSUME NEW r \in Requests, GiveUp(r) PROVE Counted'
  BY <1>5, CountedFrame DEF GiveUp
<1>6. ASSUME NEW i \in Ids, Expire(i) PROVE Counted'
  BY <1>6, CountedFrame DEF Expire
<1> QED
  BY <1>1, <1>2, <1>3, <1>4, <1>5, <1>6 DEF AuthNext

\* Different tokens are for different challenges.
LEMMA TokensCovered == AuthInv /\ Counted => TokensAreCounted
<1> SUFFICES ASSUME AuthInv, Counted PROVE TokensAreCounted
  OBVIOUS
<1> DEFINE f == [t \in tokens |-> t.challenge]
<1>1. ASSUME NEW t \in tokens PROVE t.challenge \in Made
  <2>1. t.challenge \in Ids /\ t.did \in Dids
    BY DEF AuthInv, AuthTypeOK, Tokens
  <2>2. owner[t.challenge] = t.did
    BY DEF AuthInv, Given
  <2> QED
    BY <2>1, <2>2, NoDidAssumption DEF Made
<1>2. f \in Injection(tokens, Made)
  BY <1>1 DEF AuthInv, ChallengeUsedOnce, Injection, IsInjective
<1>3. Cardinality(tokens) <= Cardinality(Made)
  BY <1>2, FS_Injection DEF Counted
<1> QED
  BY <1>3 DEF Counted, TokensAreCounted

(***************************************************************************)
(* GLOBAL SESSIONS_CREATED and SESSIONS_SUCCESS never fall below the       *)
(* tokens that were given out, although a response that loses the race     *)
(* for its challenge is counted too (create_session,                       *)
(* update_session_authenticated).                                          *)
(***************************************************************************)
THEOREM CountersCoverTokens == AuthSpec => []TokensAreCounted
<1>1. AuthSpec => []Counted
  BY CountedInit, CountedStep, AuthInvariant, PTL DEF AuthSpec
<1> QED
  BY <1>1, TokensCovered, AuthInvariant, PTL
=============================================================================
