-------------------------- MODULE SdkSessionProofs --------------------------
(***************************************************************************)
(* The clients of the SDK keep tokens of their own, whichever logins fail  *)
(* on the way, however often the mediator crashes or the database is away, *)
(* for any number of ATMs, DIDs, ids and requests.                         *)
(*                                                                         *)
(* What AuthSessionProofs shows of the mediator's sessions holds here too, *)
(* because every step of a client is one of AuthSession or leaves the      *)
(* sessions alone; a crash ends the open requests and nothing else.        *)
(***************************************************************************)
EXTENDS SdkSession, AuthSessionProofs

\* From the configuration on, the process has a key from it.
ProcessInv ==
  /\ phase \in Running \cup {"exited"}
  /\ config \in Configs
  /\ phase \notin {"config", "exited"} => key \in Source

\* The mediator gave out a token with that session to a response of a.
OwnIn(given, a, sid) ==
  \E t \in given : t.sid = sid /\ t.did = MyDid[a] /\ t.from = MyDid[a]

Answered(a) == atm[a].pc = "answered" /\ atm[a].answer # NoToken

\* The request an ATM waits for is open, in its own name, and its alone.
WaitingInv ==
  /\ \A a \in Atms : atm[a].pc = "waiting" =>
       /\ atm[a].request \in Requests /\ Open(atm[a].request)
       /\ req[atm[a].request].did = MyDid[a]
       /\ req[atm[a].request].from = MyDid[a]
  /\ \A a, b \in Atms : atm[a].pc = "waiting" /\ atm[b].pc = "waiting"
                        /\ atm[a].request = atm[b].request => a = b
  /\ \A a \in Atms : atm[a].pc = "challenged" => atm[a].sid \in Ids
  /\ \A a \in Atms : atm[a].pc \notin {"answered", "ready"} => atm[a].answer = NoToken

\* An answer that was not taken yet was given to the ATM that will take it.
AnswersInv ==
  \A a \in Atms : Answered(a) => OwnIn(tokens, a, atm[a].answer.sid)

KeptInv ==
  \A a \in Atms : atm[a].authenticated =>
    atm[a].token # NoToken /\ OwnIn(tokens, a, atm[a].token.sid)

LoginInv == WaitingInv /\ AnswersInv /\ KeptInv

SessionInv ==
  /\ AuthInv
  /\ ProcessInv
  /\ expired \subseteq {t.sid : t \in tokens}
  /\ atm \in [Atms -> AtmType]
  /\ LoginInv

-----------------------------------------------------------------------------
(* The mediator *)

LEMMA ProcessInvInit == ProcessInit => ProcessInv
BY DEF ProcessInit, ProcessInv, Running

LEMMA ProcessInvStep ==
  ASSUME ProcessInv, StartStep \/ Crash \/ Restart \/ Outage \/ Recover
  PROVE  ProcessInv'
<1> USE DEF ProcessInv, Running, Goto
<1>1. config.jwt \in Source
  BY ConfigsAssumption
<1>2. ASSUME NEW aws \in BOOLEAN, InitConfig(aws) PROVE ProcessInv'
  <2>1. phase' \in {"connect", "exited"} /\ config' = config
    BY <1>2 DEF InitConfig
  <2>2. phase' = "connect" => key' = config.jwt
    BY <1>2 DEF InitConfig, JwtKey
  <2> QED BY <1>1, <2>1, <2>2
<1>3. CASE Connect
  <2>1. phase = "connect" /\ phase' \in {"exited", "scripts", "retry"}
    BY <1>3 DEF Connect
  <2> QED BY <1>3, <2>1 DEF Connect
<1>4. CASE Retry
  BY <1>4 DEF Retry
<1>5. CASE LoadScripts
  BY <1>5 DEF LoadScripts
<1>6. CASE ReadMetadata
  BY <1>6 DEF ReadMetadata
<1>7. ASSUME NEW free \in BOOLEAN, Bind(free) PROVE ProcessInv'
  BY <1>7 DEF Bind
<1>8. CASE Crash
  BY <1>8 DEF Crash
<1>9. CASE Restart
  BY <1>9 DEF Restart
<1>10. CASE Outage \/ Recover
  BY <1>10 DEF Outage, Recover
<1> QED BY <1>2, <1>3, <1>4, <1>5, <1>6, <1>7, <1>8, <1>9, <1>10 DEF StartStep

LEMMA ProcessInvKept ==
  ASSUME ProcessInv, UNCHANGED processVars PROVE ProcessInv'
BY DEF ProcessInv, processVars

\* A crash ends the open requests; the sessions and tokens stay.
LEMMA CrashAuthInv == ASSUME AuthInv, MediatorCrash PROVE AuthInv'
<1>1. UNCHANGED <<store, used, owner, tokens, created, success>>
  BY DEF MediatorCrash
<1>2. \A r \in Requests : IF Open(r) THEN req'[r] = [pc |-> "done"] ELSE req'[r] = req[r]
  BY DEF MediatorCrash, Open
<1>3. AuthTypeOK'
  <2>1. req' \in [Requests -> Asked \cup Checked]
    BY DEF MediatorCrash, AuthInv, AuthTypeOK, Asked
  <2> QED BY <1>1, <2>1 DEF AuthInv, AuthTypeOK
<1>4. \A r \in Requests : ~Open(r)'
  BY <1>2 DEF Open
<1> QED BY <1>1, <1>3, <1>4 DEF AuthInv, FreshIds, OpenRequests, OneNew, Challenges, Given,
  ChallengeUsedOnce

\* What a client does to the sessions is a step of AuthSession.
LEMMA SessionIsAuth ==
  ASSUME SessionInv, [SessionNext]_sessionVars
  PROVE  [AuthNext]_authVars \/ MediatorCrash
<1> USE AtmsAssumption
<1>1. ASSUME NEW a \in Atms, AtmCall(a) PROVE UNCHANGED authVars
  BY <1>1 DEF AtmCall, Authenticate, ListMessages, GetMessages, FetchMessages, DeleteMessages,
     SendRkyvMessage, SendDidcommMessage, StartWebsocketTask, Begin, RefuseAtOnce
<1>2. ASSUME NEW a \in Atms, AtmStep(a) PROVE [AuthNext]_authVars
  <2>1. ASSUME NEW i \in Ids, AskChallenge(a, i) PROVE AuthNext
    BY <2>1 DEF AskChallenge, AuthNext
  <2>2. ASSUME NEW r \in Requests, PostResponse(a, r) PROVE AuthNext
    <3>1. atm[a].sid \in Ids /\ ReadSession(r, MyDid[a], atm[a].sid)
      BY <2>2 DEF PostResponse, ChallengeResponse, SessionInv, LoginInv, WaitingInv
    <3>2. MyDid[a] \in Dids \cup {NoDid}
      OBVIOUS
    <3> QED BY <3>1, <3>2 DEF AuthNext
  <2>3. CASE TakeAnswer(a) \/ Fail(a) \/ Request(a)
    BY <2>3 DEF TakeAnswer, Fail, Request
  <2> QED BY <1>2, <2>1, <2>2, <2>3 DEF AtmStep
<1>3. ASSUME NEW r \in Requests, Finish(r) \/ Abandon(r) PROVE AuthNext
  BY <1>3 DEF Finish, Abandon, AuthNext
<1>4. ASSUME NEW i \in Ids, ExpireToken(i) PROVE UNCHANGED authVars
  BY <1>4 DEF ExpireToken
<1>5. CASE OtherClient
  BY <1>5 DEF OtherClient, AuthNext
<1>6. CASE RedisExpiry
  BY <1>6 DEF RedisExpiry, AuthNext
<1>7. CASE MediatorStep
  BY <1>7 DEF MediatorStep
<1>8. CASE UNCHANGED sessionVars
  BY <1>8 DEF sessionVars
<1> QED BY <1>1, <1>2, <1>3, <1>4, <1>5, <1>6, <1>7, <1>8 DEF SessionNext

\* Tokens that were given out stay given out.
LEMMA TokensOnlyGrow ==
  ASSUME [AuthNext]_authVars \/ MediatorCrash PROVE tokens \subseteq tokens'
BY DEF AuthNext, authVars, Challenge, ReadSession, UpdateSession, Claims, GiveUp, Expire, MediatorCrash

-----------------------------------------------------------------------------
(* The ATMs *)

\* Whoever leaves the ATMs, and the open requests, as they are keeps the logins.
LEMMA LoginKept ==
  ASSUME LoginInv, UNCHANGED atm, tokens \subseteq tokens',
         \A r \in Requests : Open(r) => req'[r] = req[r]
  PROVE  LoginInv'
<1>0. \A a \in Atms : \A sid : OwnIn(tokens, a, sid) => OwnIn(tokens', a, sid)
  BY DEF OwnIn
<1>1. WaitingInv'
  BY DEF LoginInv, WaitingInv, Open
<1>2. AnswersInv'
  BY <1>0 DEF LoginInv, AnswersInv, Answered
<1>3. KeptInv'
  BY <1>0 DEF LoginInv, KeptInv
<1> QED BY <1>1, <1>2, <1>3 DEF LoginInv

\* One ATM moves, and does so without an answer or a token that it did not
\* have: if it waits for an answer it has none yet.
LEMMA OneMoves ==
  ASSUME LoginInv, NEW a \in Atms, tokens \subseteq tokens', UNCHANGED req,
         NEW x \in AtmType, atm \in [Atms -> AtmType], atm' = [atm EXCEPT ![a] = x],
         x.pc \notin {"waiting", "answered"},
         x.pc = "challenged" => x.sid \in Ids,
         x.pc \notin {"answered", "ready"} => x.answer = NoToken,
         x.authenticated = atm[a].authenticated,
         x.token = atm[a].token
  PROVE  LoginInv' /\ atm' \in [Atms -> AtmType]
<1>0. \A b \in Atms : \A sid : OwnIn(tokens, b, sid) => OwnIn(tokens', b, sid)
  BY DEF OwnIn
<1>1. atm'[a] = x /\ \A b \in Atms \ {a} : atm'[b] = atm[b]
  OBVIOUS
<1>2. WaitingInv'
  BY <1>1 DEF LoginInv, WaitingInv, Open
<1>3. AnswersInv'
  BY <1>0, <1>1 DEF LoginInv, AnswersInv, Answered
<1>4. KeptInv'
  BY <1>0, <1>1 DEF LoginInv, KeptInv
<1> QED BY <1>2, <1>3, <1>4 DEF LoginInv

LEMMA CallLogin ==
  ASSUME SessionInv, NEW a \in Atms, NEW goal \in {"login", "protected", "refused"},
         Begin(a, goal)
  PROVE  LoginInv' /\ atm' \in [Atms -> AtmType]
<1> DEFINE x == Authenticated(atm[a], goal)
<1>1. atm[a] \in AtmType /\ atm[a].pc = "idle"
  BY DEF SessionInv, Begin
<1>2. /\ x.pc \in {"ready", "asking"} /\ x.answer = atm[a].answer
      /\ x.authenticated = atm[a].authenticated /\ x.token = atm[a].token
  BY <1>1 DEF Authenticated, AtmType
<1>3. x \in AtmType
  BY <1>1 DEF Authenticated, AtmType
<1>4. atm[a].answer = NoToken
  BY <1>1 DEF SessionInv, LoginInv, WaitingInv
<1>5. atm' = [atm EXCEPT ![a] = x] /\ UNCHANGED <<req, tokens>>
  BY DEF Begin, authVars
<1> HIDE DEF x
<1> QED BY <1>2, <1>3, <1>4, <1>5, OneMoves DEF SessionInv

\* Fail and Request end a call.
LEMMA EndedLogin ==
  ASSUME SessionInv, NEW a \in Atms, NEW how \in {"served", "failed"},
         atm' = [atm EXCEPT ![a] = Ended(@, how)], UNCHANGED authVars
  PROVE  LoginInv' /\ atm' \in [Atms -> AtmType]
<1> DEFINE x == Ended(atm[a], how)
<1>1. atm[a] \in AtmType
  BY DEF SessionInv
<1>2. /\ x.pc = "idle" /\ x.answer = NoToken
      /\ x.authenticated = atm[a].authenticated /\ x.token = atm[a].token
  BY <1>1 DEF Ended, AtmType
<1>3. x \in AtmType
  BY <1>1 DEF Ended, AtmType, Token
<1>4. atm' = [atm EXCEPT ![a] = x] /\ UNCHANGED <<req, tokens>>
  BY DEF authVars
<1> HIDE DEF x
<1> QED BY <1>2, <1>3, <1>4, OneMoves DEF SessionInv

LEMMA AskLogin ==
  ASSUME SessionInv, NEW a \in Atms, NEW i \in Ids, AskChallenge(a, i)
  PROVE  LoginInv' /\ atm' \in [Atms -> AtmType]
<1> DEFINE x == [atm[a] EXCEPT !.pc = "challenged", !.sid = i]
<1>1. atm[a] \in AtmType /\ atm[a].pc = "asking"
  BY DEF SessionInv, AskChallenge
<1>2. /\ x.pc = "challenged" /\ x.answer = atm[a].answer /\ x.sid = i
      /\ x.authenticated = atm[a].authenticated /\ x.token = atm[a].token
  BY <1>1 DEF AtmType
<1>3. x \in AtmType
  BY <1>1 DEF AtmType
<1>4. atm[a].answer = NoToken
  BY <1>1 DEF SessionInv, LoginInv, WaitingInv
<1>5. atm' = [atm EXCEPT ![a] = x] /\ UNCHANGED <<req, tokens>>
  <2>1. atm' = [atm EXCEPT ![a].pc = "challenged", ![a].sid = i]
    BY DEF AskChallenge
  <2> QED BY <1>1, <2>1 DEF AskChallenge, Challenge, SessionInv
<1> HIDE DEF x
<1> QED BY <1>2, <1>3, <1>4, <1>5, OneMoves DEF SessionInv

\* The response names the DID of the ATM, so the session it passed for is its.
LEMMA PostLogin ==
  ASSUME SessionInv, NEW a \in Atms, NEW r \in Requests, PostResponse(a, r)
  PROVE  LoginInv' /\ atm' \in [Atms -> AtmType]
<1> DEFINE i == atm[a].sid
           ok == Check(i, MyDid[a])
           x == [atm[a] EXCEPT !.pc = IF ok THEN "waiting" ELSE "answered", !.request = r]
<1>1. atm[a] \in AtmType /\ atm[a].pc = "challenged" /\ i \in Ids /\ atm[a].answer = NoToken
  BY DEF SessionInv, PostResponse, LoginInv, WaitingInv
<1>2. /\ x \in AtmType /\ x.pc = (IF ok THEN "waiting" ELSE "answered") /\ x.request = r
      /\ x.answer = NoToken
      /\ x.authenticated = atm[a].authenticated /\ x.token = atm[a].token
  BY <1>1 DEF AtmType
<1>3. tokens' = tokens /\ req[r].pc = "new"
  BY DEF PostResponse, ChallengeResponse, ReadSession
<1>4. \A q \in Requests : q # r => req'[q] = req[q]
  BY DEF PostResponse, ChallengeResponse, ReadSession, SessionInv, AuthInv, AuthTypeOK
<1>5. atm'[a] = x /\ \A b \in Atms \ {a} : atm'[b] = atm[b]
  <2>1. atm' = [atm EXCEPT ![a].pc = IF ok THEN "waiting" ELSE "answered", ![a].request = r]
    BY DEF PostResponse, ChallengeResponse
  <2> QED BY <1>1, <2>1 DEF SessionInv
<1>6. ASSUME ok
      PROVE  Open(r)' /\ req'[r].did = MyDid[a] /\ req'[r].from = MyDid[a]
  <2>1. MyDid[a] = store[i].did
    BY <1>6, NoDidAssumption, AtmsAssumption DEF Check
  <2>2. PICK new \in Ids :
          req' = [req EXCEPT ![r] =
                  [pc |-> "checked", from |-> MyDid[a], did |-> store[i].did,
                   old |-> i, new |-> new]]
    BY <1>6 DEF PostResponse, ChallengeResponse, ReadSession
  <2>3. req'[r] = [pc |-> "checked", from |-> MyDid[a], did |-> store[i].did,
                   old |-> i, new |-> new]
    BY <2>2 DEF SessionInv, AuthInv, AuthTypeOK
  <2> QED BY <2>1, <2>3 DEF Open
<1> HIDE DEF x, ok, i
<1>7. WaitingInv'
  <2>1. \A b \in Atms \ {a} : atm[b].pc = "waiting" => atm[b].request \in Requests \ {r}
    BY <1>3 DEF SessionInv, LoginInv, WaitingInv, Open
  <2> QED BY <1>2, <1>4, <1>5, <1>6, <2>1 DEF SessionInv, LoginInv, WaitingInv, Open
<1>8. AnswersInv'
  BY <1>2, <1>3, <1>5 DEF SessionInv, LoginInv, AnswersInv, Answered
<1>9. KeptInv'
  BY <1>2, <1>3, <1>5 DEF SessionInv, LoginInv, KeptInv
<1>10. atm' \in [Atms -> AtmType]
  <2>1. atm' = [atm EXCEPT ![a].pc = IF ok THEN "waiting" ELSE "answered", ![a].request = r]
    BY DEF PostResponse, ChallengeResponse, ok, i
  <2> QED BY <1>2, <1>5, <2>1 DEF SessionInv
<1> QED BY <1>7, <1>8, <1>9, <1>10 DEF LoginInv

\* The tokens of a request are for the DID of the ATM that waits for it.
LEMMA FinishLogin ==
  ASSUME SessionInv, NEW r \in Requests, NEW token,
         UpdateSession(r) \/ GiveUp(r), Answer(r, token),
         token \in Token,
         token # NoToken =>
           /\ token.sid = req[r].new
           /\ UpdateSession(r) /\ RenameOk(req[r].old)
  PROVE  LoginInv' /\ atm' \in [Atms -> AtmType]
<1>1. /\ Open(r) /\ req[r] \in Checked /\ tokens \subseteq tokens'
      /\ \A q \in Requests : q # r => req'[q] = req[q]
  BY DEF UpdateSession, Claims, GiveUp, Open, SessionInv, AuthInv, OpenRequests, AuthTypeOK
<1> DEFINE Mine(a) == atm[a].pc = "waiting" /\ atm[a].request = r
<1>2. ASSUME NEW a \in Atms
      PROVE  /\ ~Mine(a) => atm'[a] = atm[a]
             /\ Mine(a) => /\ atm'[a] \in AtmType
                           /\ atm'[a].pc = "answered" /\ atm'[a].answer = token
                           /\ atm'[a].authenticated = atm[a].authenticated
                           /\ atm'[a].token = atm[a].token
                           /\ atm[a].pc = "waiting"
  <2>1. atm[a] \in AtmType
    BY DEF SessionInv
  <2>2. atm'[a] = IF Mine(a) THEN [atm[a] EXCEPT !.pc = "answered", !.answer = token] ELSE atm[a]
    BY DEF Answer
  <2> QED BY <2>1, <2>2 DEF AtmType
<1>3. \A a, b \in Atms : Mine(a) /\ Mine(b) => a = b
  BY DEF SessionInv, LoginInv, WaitingInv
<1>4. \A a \in Atms : Mine(a) => req[r].did = MyDid[a] /\ req[r].from = MyDid[a]
  BY DEF SessionInv, LoginInv, WaitingInv
<1>5. \A a \in Atms : atm[a].pc = "waiting" /\ ~Mine(a) =>
        atm[a].request \in Requests \ {r}
  BY DEF SessionInv, LoginInv, WaitingInv
<1>6. \A a \in Atms : \A sid : OwnIn(tokens, a, sid) => OwnIn(tokens', a, sid)
  BY <1>1 DEF OwnIn
<1>7. ASSUME NEW a \in Atms, Mine(a), token # NoToken PROVE OwnIn(tokens', a, token.sid)
  <2>1. PICK t : t = [did |-> req[r].did, from |-> req[r].from,
                      challenge |-> req[r].old, sid |-> req[r].new]
    OBVIOUS
  <2>2. t \in tokens'
    BY <1>7, <2>1 DEF UpdateSession, Claims
  <2>3. t.sid = token.sid /\ t.did = MyDid[a] /\ t.from = MyDid[a]
    BY <1>4, <1>7, <2>1
  <2> QED BY <2>2, <2>3 DEF OwnIn
<1> HIDE DEF Mine
<1>8. WaitingInv'
  BY <1>1, <1>2, <1>5 DEF SessionInv, LoginInv, WaitingInv, Open
<1>9. AnswersInv'
  <2> SUFFICES ASSUME NEW a \in Atms, Answered(a)' PROVE OwnIn(tokens', a, atm'[a].answer.sid)
    BY DEF AnswersInv
  <2>1. CASE Mine(a)
    <3>1. atm'[a].answer = token /\ token # NoToken /\ token.sid = req[r].new
      BY <1>2, <2>1 DEF Answered
    <3> QED BY <1>7, <2>1, <3>1
  <2>2. CASE ~Mine(a)
    BY <1>2, <1>6, <2>2 DEF SessionInv, LoginInv, AnswersInv, Answered
  <2> QED BY <2>1, <2>2
<1>10. KeptInv'
  <2>1. \A b \in Atms : atm'[b].authenticated = atm[b].authenticated /\ atm'[b].token = atm[b].token
    BY <1>2
  <2>2. \A b \in Atms : atm[b].authenticated => OwnIn(tokens', b, atm'[b].token.sid)
    BY <1>6, <2>1 DEF SessionInv, LoginInv, KeptInv
  <2> QED BY <2>1, <2>2 DEF SessionInv, LoginInv, KeptInv
<1>11. atm' \in [Atms -> AtmType]
  BY <1>2 DEF Answer, SessionInv
<1> QED BY <1>8, <1>9, <1>10, <1>11 DEF LoginInv

\* An answer with tokens becomes the tokens of the ATM.
LEMMA TakeLogin ==
  ASSUME SessionInv, NEW a \in Atms, TakeAnswer(a)
  PROVE  LoginInv' /\ atm' \in [Atms -> AtmType]
<1>1. CASE atm[a].answer = NoToken
  <2>1. atm' = [atm EXCEPT ![a] = Ended(@, "failed")] /\ UNCHANGED authVars
    BY <1>1 DEF TakeAnswer
  <2> QED BY <2>1, EndedLogin
<1>2. CASE atm[a].answer # NoToken
  <2> DEFINE x == [atm[a] EXCEPT !.pc = "ready", !.authenticated = TRUE, !.token = atm[a].answer]
  <2>1. atm[a] \in AtmType /\ Answered(a)
    BY <1>2 DEF SessionInv, TakeAnswer, Answered
  <2>2. /\ x \in AtmType /\ x.pc = "ready" /\ x.authenticated /\ x.token = atm[a].answer
    BY <2>1 DEF AtmType
  <2>3. atm' = [atm EXCEPT ![a] = x] /\ UNCHANGED <<req, tokens>>
    BY <1>2 DEF TakeAnswer, authVars
  <2> HIDE DEF x
  <2>4. atm'[a] = x /\ \A b \in Atms \ {a} : atm'[b] = atm[b]
    BY <2>3 DEF SessionInv
  <2>5. WaitingInv'
    BY <2>2, <2>3, <2>4 DEF SessionInv, LoginInv, WaitingInv, Open
  <2>6. OwnIn(tokens, a, x.token.sid) /\ x.token # NoToken
    BY <1>2, <2>1, <2>2 DEF SessionInv, LoginInv, AnswersInv
  <2>7. AnswersInv'
    BY <2>2, <2>3, <2>4, <2>6 DEF SessionInv, LoginInv, AnswersInv, Answered
  <2>8. KeptInv'
    BY <2>2, <2>3, <2>4, <2>6 DEF SessionInv, LoginInv, KeptInv
  <2>9. atm' \in [Atms -> AtmType]
    BY <2>2, <2>3 DEF SessionInv
  <2> QED BY <2>5, <2>7, <2>8, <2>9 DEF LoginInv
<1> QED BY <1>1, <1>2

\* The WebSocket task has the tokens of the ATM it was copied from, whose DID
\* is its own.
LEMMA TaskLogin ==
  ASSUME SessionInv, NEW a \in Atms, StartWebsocketTask(a)
  PROVE  LoginInv' /\ atm' \in [Atms -> AtmType]
<1> DEFINE y == [NewAtm("idle") EXCEPT !.authenticated = atm[a].authenticated, !.token = atm[a].token]
           x == Authenticated(y, "protected")
<1>1. PICK t \in Atms : t = TaskOf[a]
  BY AtmsAssumption DEF StartWebsocketTask
<1>2. MyDid[t] = MyDid[a]
  BY <1>1, AtmsAssumption DEF StartWebsocketTask
<1>3. atm[a] \in AtmType /\ atm' = [atm EXCEPT ![t] = x] /\ UNCHANGED <<req, tokens>>
  BY <1>1 DEF SessionInv, StartWebsocketTask, authVars
<1>4. /\ y.authenticated = atm[a].authenticated /\ y.token = atm[a].token /\ y.answer = NoToken
      /\ y \in AtmType
  BY <1>3 DEF NewAtm, AtmType, Token
<1> HIDE DEF y
<1>5. /\ x \in AtmType /\ x.pc \in {"ready", "asking"} /\ x.answer = NoToken
      /\ x.authenticated = atm[a].authenticated /\ x.token = atm[a].token
  BY <1>4 DEF Authenticated, AtmType
<1> HIDE DEF x
<1>6. atm'[t] = x /\ \A b \in Atms \ {t} : atm'[b] = atm[b]
  BY <1>3 DEF SessionInv
<1>7. WaitingInv'
  BY <1>3, <1>5, <1>6 DEF SessionInv, LoginInv, WaitingInv, Open
<1>8. AnswersInv'
  BY <1>3, <1>5, <1>6 DEF SessionInv, LoginInv, AnswersInv, Answered
<1>9. KeptInv'
  <2>1. \A sid : OwnIn(tokens, a, sid) => OwnIn(tokens, t, sid)
    BY <1>2 DEF OwnIn
  <2> QED BY <1>3, <1>5, <1>6, <2>1 DEF SessionInv, LoginInv, KeptInv
<1>10. atm' \in [Atms -> AtmType]
  BY <1>3, <1>5 DEF SessionInv
<1> QED BY <1>7, <1>8, <1>9, <1>10 DEF LoginInv

\* Who waits when the mediator crashes gets no tokens.
LEMMA CrashLogin ==
  ASSUME SessionInv, MediatorCrash
  PROVE  LoginInv' /\ atm' \in [Atms -> AtmType]
<1>1. ASSUME NEW a \in Atms
      PROVE  /\ atm'[a] \in AtmType
             /\ atm'[a].authenticated = atm[a].authenticated /\ atm'[a].token = atm[a].token
             /\ atm[a].pc = "waiting" => atm'[a].pc = "answered" /\ atm'[a].answer = NoToken
             /\ atm[a].pc # "waiting" => atm'[a] = atm[a]
  <2>1. atm[a] \in AtmType /\ (atm[a].pc = "waiting" => atm[a].answer = NoToken)
    BY DEF SessionInv, LoginInv, WaitingInv
  <2>2. atm'[a] = IF atm[a].pc = "waiting" THEN [atm[a] EXCEPT !.pc = "answered"] ELSE atm[a]
    BY DEF MediatorCrash
  <2> QED BY <2>1, <2>2 DEF AtmType
<1>2. UNCHANGED tokens
  BY DEF MediatorCrash
<1>3. WaitingInv'
  BY <1>1 DEF SessionInv, LoginInv, WaitingInv
<1>4. AnswersInv'
  <2>1. \A a \in Atms : Answered(a)' => Answered(a) /\ atm'[a] = atm[a]
    BY <1>1 DEF Answered
  <2> QED BY <1>1, <1>2, <2>1 DEF SessionInv, LoginInv, AnswersInv
<1>5. KeptInv'
  BY <1>1, <1>2 DEF SessionInv, LoginInv, KeptInv
<1>6. atm' \in [Atms -> AtmType]
  BY <1>1 DEF MediatorCrash
<1> QED BY <1>3, <1>4, <1>5, <1>6 DEF LoginInv

-----------------------------------------------------------------------------

LEMMA SessionInvInit == SessionInit => SessionInv
<1> SUFFICES ASSUME SessionInit PROVE SessionInv
  OBVIOUS
<1>1. AuthInv /\ ProcessInv /\ expired = {}
  BY AuthInvInit, ProcessInvInit DEF SessionInit
<1>2. ASSUME NEW a \in Atms
      PROVE  /\ atm[a] \in AtmType /\ atm[a].pc \in {"none", "idle"}
             /\ atm[a].answer = NoToken /\ ~atm[a].authenticated
  BY DEF SessionInit, NewAtm, AtmType, Token
<1>3. LoginInv
  BY <1>2 DEF LoginInv, WaitingInv, AnswersInv, KeptInv, Answered
<1>4. atm \in [Atms -> AtmType]
  BY <1>2 DEF SessionInit
<1> QED BY <1>1, <1>3, <1>4 DEF SessionInv

\* The ATMs of every step.
LEMMA LoginStep ==
  ASSUME SessionInv, [SessionNext]_sessionVars
  PROVE  LoginInv' /\ atm' \in [Atms -> AtmType]
<1>0. tokens \subseteq tokens'
  BY SessionIsAuth, TokensOnlyGrow
<1>1. ASSUME NEW a \in Atms, AtmCall(a) PROVE LoginInv' /\ atm' \in [Atms -> AtmType]
  <2>1. CASE StartWebsocketTask(a)
    BY <2>1, TaskLogin
  <2>2. ASSUME NEW goal \in {"login", "protected", "refused"}, Begin(a, goal)
        PROVE  LoginInv' /\ atm' \in [Atms -> AtmType]
    BY <2>2, CallLogin
  <2>3. CASE RefuseAtOnce(a)
    <3>1. atm' = [atm EXCEPT ![a] = Ended(@, "failed")] /\ UNCHANGED authVars
      BY <2>3 DEF RefuseAtOnce
    <3> QED BY <3>1, EndedLogin
  <2> QED BY <1>1, <2>1, <2>2, <2>3 DEF AtmCall, Authenticate, ListMessages, GetMessages,
        FetchMessages, DeleteMessages, SendRkyvMessage, SendDidcommMessage
<1>2. ASSUME NEW a \in Atms, AtmStep(a) PROVE LoginInv' /\ atm' \in [Atms -> AtmType]
  <2>1. CASE Fail(a)
    <3>1. atm' = [atm EXCEPT ![a] = Ended(@, "failed")] /\ UNCHANGED authVars
      BY <2>1 DEF Fail
    <3> QED BY <3>1, EndedLogin
  <2>2. CASE Request(a)
    <3>1. PICK how \in {"served", "failed"} :
            atm' = [atm EXCEPT ![a] = Ended(@, how)] /\ UNCHANGED authVars
      BY <2>2 DEF Request
    <3> QED BY <3>1, EndedLogin
  <2> QED BY <1>2, <2>1, <2>2, AskLogin, PostLogin, TakeLogin DEF AtmStep
<1>3. ASSUME NEW r \in Requests, Finish(r) \/ Abandon(r)
      PROVE  LoginInv' /\ atm' \in [Atms -> AtmType]
  <2>1. CASE Finish(r)
    <3> DEFINE token == IF RenameOk(req[r].old) THEN [sid |-> req[r].new, key |-> key] ELSE NoToken
    <3>1. UpdateSession(r) /\ Answer(r, token) /\ Serving
      BY <2>1 DEF Finish, Reachable
    <3>2. key \in Source
      BY <3>1 DEF SessionInv, ProcessInv, Serving
    <3>3. req[r] \in Checked
      BY <3>1 DEF UpdateSession, Claims, Open, SessionInv, AuthInv, OpenRequests
    <3>4. token \in Token
      BY <3>2, <3>3 DEF Token, Checked
    <3>5. token # NoToken => token.sid = req[r].new /\ RenameOk(req[r].old)
      OBVIOUS
    <3> HIDE DEF token
    <3> QED BY <3>1, <3>4, <3>5, FinishLogin
  <2>2. CASE Abandon(r)
    <3>1. GiveUp(r) /\ Answer(r, NoToken) /\ NoToken \in Token
      BY <2>2 DEF Abandon, Token
    <3> QED BY <3>1, FinishLogin
  <2> QED BY <1>3, <2>1, <2>2
<1>4. ASSUME UNCHANGED atm, \A r \in Requests : Open(r) => req'[r] = req[r]
      PROVE  LoginInv' /\ atm' \in [Atms -> AtmType]
  BY <1>0, <1>4, LoginKept DEF SessionInv
<1>5. CASE (\E i \in Ids : ExpireToken(i)) \/ MediatorStep \/ UNCHANGED sessionVars
  BY <1>4, <1>5 DEF ExpireToken, MediatorStep, sessionVars, authVars
<1>6. CASE RedisExpiry
  BY <1>4, <1>6 DEF RedisExpiry, Expire
<1>7. CASE OtherClient
  <2>1. ASSUME NEW d \in Dids, NEW i \in OtherIds, Challenge(d, i) PROVE UNCHANGED req
    BY <2>1 DEF Challenge
  <2>2. ASSUME NEW q \in Requests, NEW from \in Dids \cup {NoDid}, NEW i \in Ids,
               ReadSession(q, from, i)
        PROVE  \A r \in Requests : Open(r) => req'[r] = req[r]
    BY <2>2 DEF ReadSession, Open, SessionInv, AuthInv, AuthTypeOK
  <2> QED BY <1>4, <1>7, <2>1, <2>2 DEF OtherClient
<1>8. CASE MediatorCrash
  BY <1>8, CrashLogin
<1> QED BY <1>1, <1>2, <1>3, <1>5, <1>6, <1>7, <1>8 DEF SessionNext

LEMMA SessionInvStep == SessionInv /\ [SessionNext]_sessionVars => SessionInv'
<1> SUFFICES ASSUME SessionInv, [SessionNext]_sessionVars PROVE SessionInv'
  OBVIOUS
<1>1. AuthInv'
  BY SessionIsAuth, AuthInvStep, CrashAuthInv DEF SessionInv
<1>2. LoginInv' /\ atm' \in [Atms -> AtmType]
  BY LoginStep
<1>3. ProcessInv'
  <2>1. CASE MediatorStep \/ MediatorCrash
    BY <2>1, ProcessInvStep DEF SessionInv, MediatorStep, MediatorCrash
  <2>2. ASSUME UNCHANGED processVars PROVE ProcessInv'
    BY <2>2, ProcessInvKept DEF SessionInv
  <2>3. ASSUME NEW a \in Atms, AtmCall(a) PROVE UNCHANGED processVars
    BY <2>3 DEF AtmCall, Authenticate, ListMessages, GetMessages, FetchMessages,
       DeleteMessages, SendRkyvMessage, SendDidcommMessage, StartWebsocketTask, Begin, RefuseAtOnce
  <2>4. ASSUME NEW a \in Atms, AtmStep(a) PROVE UNCHANGED processVars
    BY <2>4 DEF AtmStep, AskChallenge, PostResponse, ChallengeResponse, TakeAnswer, Fail, Request
  <2>5. ASSUME NEW r \in Requests, Finish(r) \/ Abandon(r) PROVE UNCHANGED processVars
    BY <2>5 DEF Finish, Abandon
  <2>6. CASE OtherClient \/ RedisExpiry \/ (\E i \in Ids : ExpireToken(i)) \/ UNCHANGED sessionVars
    BY <2>2, <2>6 DEF OtherClient, RedisExpiry, ExpireToken, sessionVars
  <2> QED BY <2>1, <2>2, <2>3, <2>4, <2>5, <2>6 DEF SessionNext
<1>4. expired' \subseteq {t.sid : t \in tokens'}
  <2>1. tokens \subseteq tokens'
    BY SessionIsAuth, TokensOnlyGrow
  <2>2. expired' = expired \/ \E i \in {t.sid : t \in tokens} : expired' = expired \cup {i}
    <3>1. ASSUME NEW a \in Atms, AtmCall(a) PROVE expired' = expired
      BY <3>1 DEF AtmCall, Authenticate, ListMessages, GetMessages, FetchMessages,
         DeleteMessages, SendRkyvMessage, SendDidcommMessage, StartWebsocketTask, Begin, RefuseAtOnce
    <3>2. ASSUME NEW a \in Atms, AtmStep(a) PROVE expired' = expired
      BY <3>2 DEF AtmStep, AskChallenge, PostResponse, ChallengeResponse, TakeAnswer, Fail, Request
    <3>3. ASSUME NEW i \in Ids, ExpireToken(i)
          PROVE  i \in {t.sid : t \in tokens} /\ expired' = expired \cup {i}
      BY <3>3 DEF ExpireToken
    <3>4. CASE \/ \E r \in Requests : Finish(r) \/ Abandon(r)
               \/ OtherClient \/ RedisExpiry \/ MediatorStep \/ MediatorCrash
               \/ UNCHANGED sessionVars
      BY <3>4 DEF Finish, Abandon, OtherClient, RedisExpiry, MediatorStep, MediatorCrash,
         sessionVars
    <3> QED BY <3>1, <3>2, <3>3, <3>4 DEF SessionNext
  <2> QED BY <2>1, <2>2 DEF SessionInv
<1> QED BY <1>1, <1>2, <1>3, <1>4 DEF SessionInv

(***************************************************************************)
(* Calls, logins, tokens and sessions are well formed through crashes and  *)
(* outages (ATM::authenticate, SendWebSocketMessage, MediatorConfig).      *)
(***************************************************************************)
THEOREM SessionTypesCorrect == SessionSpec => []SessionTypeOK
<1>1. SessionInv => SessionTypeOK
  BY DEF SessionInv, AuthInv, ProcessInv, SessionTypeOK
<1> QED BY SessionInvInit, SessionInvStep, <1>1, PTL DEF SessionSpec

(***************************************************************************)
(* An ATM that says it is authenticated has a token that the mediator gave *)
(* to a response in the name of its own DID.                               *)
(***************************************************************************)
THEOREM TokensAreKeptByTheirOwner == SessionSpec => []KeptTokensAreOwn
<1>1. SessionInv => KeptTokensAreOwn
  BY DEF SessionInv, LoginInv, KeptInv, OwnIn, KeptTokensAreOwn
<1> QED BY SessionInvInit, SessionInvStep, <1>1, PTL DEF SessionSpec

(***************************************************************************)
(* Challenges are answered once, and tokens are for the DID that asked,    *)
(* also when the mediator crashes between the read of a session and its    *)
(* update, and clients of the SDK race with others.                        *)
(***************************************************************************)
THEOREM SessionsSurviveCrashes ==
  SessionSpec => [](ChallengeUsedOnce /\ TokensMatchChallenge)
<1>1. SessionInv => ChallengeUsedOnce /\ TokensMatchChallenge
  BY DEF SessionInv, AuthInv, Given, TokensMatchChallenge
<1> QED BY SessionInvInit, SessionInvStep, <1>1, PTL DEF SessionSpec
=============================================================================
