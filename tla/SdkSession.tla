----------------------------- MODULE SdkSession -----------------------------
(***************************************************************************)
(* SDK clients against a mediator that can crash and a database that can   *)
(* be out of reach.  An ATM of the SDK logs in when a call needs it: it    *)
(* asks for a challenge, posts the response, and keeps the tokens.  Every  *)
(* later call goes out with the access token it kept, which the mediator   *)
(* checks against its JWT key and nothing else (jwt_auth.rs): it does not  *)
(* look at the session in Redis.                                           *)
(*                                                                         *)
(* The WebSocket task works with a copy of the ATM that started it, and    *)
(* logs in on its own if there were no tokens to copy.  Other clients of   *)
(* the mediator take the steps of AuthSession.                             *)
(***************************************************************************)
EXTENDS AuthSession, MediatorProcess

CONSTANTS
  Atms,      \* the ATM values of the SDK
  MyDid,     \* my_did in their configuration
  TaskOf,    \* the copy for the WebSocket task, of those that start one
  OtherIds,  \* bound: the session ids that clients without the SDK can draw
  NoToken

Tasks == {TaskOf[a] : a \in DOMAIN TaskOf}

ASSUME AtmsAssumption ==
  /\ MyDid \in [Atms -> Dids]
  /\ DOMAIN TaskOf \subseteq Atms
  /\ \A a \in DOMAIN TaskOf : TaskOf[a] \in Atms \ DOMAIN TaskOf /\ MyDid[TaskOf[a]] = MyDid[a]
  /\ OtherIds \subseteq Ids

VARIABLES
  atm,      \* the ATM values, and the call each is in
  expired   \* session ids whose access token is past its 900 seconds

sessionVars == <<authVars, processVars, atm, expired>>

\* pc is where a call is, goal what it does once there are tokens; sid and
\* request belong to its login, answer is what came back, last is how the
\* last call ended.
NewAtm(pc) ==
  [pc |-> pc, goal |-> "none", sid |-> NoToken, request |-> NoToken, answer |-> NoToken,
   authenticated |-> FALSE, token |-> NoToken, last |-> "none"]

SessionInit ==
  /\ AuthInit
  /\ ProcessInit
  /\ atm = [a \in Atms |-> NewAtm(IF a \in Tasks THEN "none" ELSE "idle")]
  /\ expired = {}

-----------------------------------------------------------------------------
(* Calls of the SDK *)

Ended(a, how) ==
  [a EXCEPT !.pc = "idle", !.goal = "none", !.sid = NoToken, !.request = NoToken,
            !.answer = NoToken, !.last = how]

\* authenticate() takes the kept tokens when it has logged in before.
Authenticated(a, goal) ==
  [a EXCEPT !.goal = goal, !.pc = IF a.authenticated THEN "ready" ELSE "asking"]

Begin(a, goal) ==
  /\ atm[a].pc = "idle"
  /\ a \notin Tasks
  /\ atm' = [atm EXCEPT ![a] = Authenticated(@, goal)]
  /\ UNCHANGED <<authVars, processVars, expired>>

\* A call that refuses its arguments does so before it logs in.
RefuseAtOnce(a) ==
  /\ atm[a].pc = "idle"
  /\ a \notin Tasks
  /\ atm' = [atm EXCEPT ![a] = Ended(@, "failed")]
  /\ UNCHANGED <<authVars, processVars, expired>>

\* The calls, by what they do after authenticate().  Too many ids are refused
\* by the SDK then; a ping or another message without a WebSocket is posted to
\* /authenticate, which refuses it.
Authenticate(a) == Begin(a, "login")
ListMessages(a) == Begin(a, "protected")
GetMessages(a) == Begin(a, "protected")
FetchMessages(a, limit) ==
  IF limit \in 1..100 THEN Begin(a, "protected") ELSE RefuseAtOnce(a)
DeleteMessages(a, ids) == Begin(a, IF ids <= 100 THEN "protected" ELSE "refused")
SendRkyvMessage(a) == Begin(a, "protected")
SendDidcommMessage(a) == Begin(a, "refused")

\* start_websocket_task: the task starts with what the ATM has by now.
StartWebsocketTask(a) ==
  /\ a \in DOMAIN TaskOf
  /\ atm[a].pc = "idle"
  /\ atm[TaskOf[a]].pc \in {"none", "idle"}
  /\ atm' = [atm EXCEPT ![TaskOf[a]] =
       Authenticated([NewAtm("idle") EXCEPT !.authenticated = atm[a].authenticated,
                                            !.token = atm[a].token], "protected")]
  /\ UNCHANGED <<authVars, processVars, expired>>

-----------------------------------------------------------------------------
(* The login *)

Reachable == Serving /\ redis = "up"

\* Step 1: POST /authenticate/challenge.
AskChallenge(a, i) ==
  /\ atm[a].pc = "asking"
  /\ Reachable
  /\ Challenge(MyDid[a], i)
  /\ atm' = [atm EXCEPT ![a].pc = "challenged", ![a].sid = i]
  /\ UNCHANGED <<processVars, expired>>

\* Step 2: the response names the session and is from my_did; it is posted.
ChallengeResponse(a) == [from |-> MyDid[a], session |-> atm[a].sid]

PostResponse(a, r) ==
  /\ atm[a].pc = "challenged"
  /\ Reachable
  /\ ReadSession(r, ChallengeResponse(a).from, ChallengeResponse(a).session)
  /\ atm' = [atm EXCEPT ![a].pc = IF Check(atm[a].sid, MyDid[a]) THEN "waiting" ELSE "answered",
                        ![a].request = r]
  /\ UNCHANGED <<processVars, expired>>

\* The ATM that waits for the answer to r gets it.
Answer(r, token) ==
  atm' = [a \in Atms |->
    IF atm[a].pc = "waiting" /\ atm[a].request = r
    THEN [atm[a] EXCEPT !.pc = "answered", !.answer = token] ELSE atm[a]]

Finish(r) ==
  /\ Reachable
  /\ UpdateSession(r)
  /\ Answer(r, IF RenameOk(req[r].old) THEN [sid |-> req[r].new, key |-> key] ELSE NoToken)
  /\ UNCHANGED <<processVars, expired>>

\* The request gets an error instead, for instance because Redis is down.
Abandon(r) ==
  /\ GiveUp(r)
  /\ Answer(r, NoToken)
  /\ UNCHANGED <<processVars, expired>>

TakeAnswerAlways(a) ==
  /\ atm[a].pc = "answered"
  /\ atm' = [atm EXCEPT ![a] =
       [@ EXCEPT !.pc = "ready", !.authenticated = TRUE, !.token = atm[a].answer]]
  /\ UNCHANGED <<authVars, processVars, expired>>

\* Tokens are kept only when the answer was a success with tokens in it.
TakeAnswer(a) ==
  /\ atm[a].pc = "answered"
  /\ atm' = [atm EXCEPT ![a] =
       IF @.answer = NoToken THEN Ended(@, "failed")
       ELSE [@ EXCEPT !.pc = "ready", !.authenticated = TRUE, !.token = atm[a].answer]]
  /\ UNCHANGED <<authVars, processVars, expired>>

\* The login fails: no connection, an error of the mediator, a response that
\* could not be packed or was older than its 60 seconds, an answer that was
\* lost or the caller that gave up.  A request of the login goes on without it.
Fail(a) ==
  /\ atm[a].pc \in {"asking", "challenged", "waiting", "answered"}
  /\ atm' = [atm EXCEPT ![a] = Ended(@, "failed")]
  /\ UNCHANGED <<authVars, processVars, expired>>

-----------------------------------------------------------------------------
(* The request of a call *)

\* The extractor for Session: signature, audience and expiry of the token.
Accepts(token) == token.key = key /\ token.sid \notin expired

Request(a) ==
  LET served == Reachable /\ Accepts(atm[a].token) IN
  /\ atm[a].pc = "ready"
  /\ atm' = [atm EXCEPT ![a] = Ended(@,
       CASE @.goal = "login" -> "served"
         [] @.goal = "protected" -> IF served THEN "served" ELSE "failed"
         [] OTHER -> "failed")]
  /\ UNCHANGED <<authVars, processVars, expired>>

ExpireToken(i) ==
  /\ i \in {t.sid : t \in tokens} \ expired
  /\ expired' = expired \cup {i}
  /\ UNCHANGED <<authVars, processVars, atm>>

-----------------------------------------------------------------------------
(* The mediator and other clients *)

\* A crash takes the requests with it; their clients see the connection close.
MediatorCrash ==
  /\ Crash
  /\ req' = [r \in Requests |-> IF req[r].pc = "checked" THEN [pc |-> "done"] ELSE req[r]]
  /\ atm' = [a \in Atms |-> IF atm[a].pc = "waiting"
                            THEN [atm[a] EXCEPT !.pc = "answered"] ELSE atm[a]]
  /\ UNCHANGED <<store, used, owner, tokens, created, success, expired>>

MediatorStep ==
  /\ StartStep \/ Restart \/ Outage \/ Recover
  /\ UNCHANGED <<authVars, atm, expired>>

OtherClient ==
  /\ Reachable
  /\ \/ \E d \in Dids, i \in OtherIds : Challenge(d, i)
     \/ \E r \in Requests, from \in Dids \cup {NoDid}, i \in Ids : ReadSession(r, from, i)
  /\ UNCHANGED <<processVars, atm, expired>>

RedisExpiry ==
  /\ \E i \in Ids : Expire(i)
  /\ UNCHANGED <<processVars, atm, expired>>

AtmCall(a) ==
  \/ Authenticate(a)
  \/ ListMessages(a)
  \/ GetMessages(a)
  \/ \E limit \in {0, 10} : FetchMessages(a, limit)
  \/ \E n \in {1, 101} : DeleteMessages(a, n)
  \/ SendRkyvMessage(a)
  \/ SendDidcommMessage(a)
  \/ StartWebsocketTask(a)

AtmStep(a) ==
  \/ \E i \in Ids : AskChallenge(a, i)
  \/ \E r \in Requests : PostResponse(a, r)
  \/ TakeAnswer(a)
  \/ Fail(a)
  \/ Request(a)

SessionNext ==
  \/ \E a \in Atms : AtmCall(a) \/ AtmStep(a)
  \/ \E r \in Requests : Finish(r) \/ Abandon(r)
  \/ \E i \in Ids : ExpireToken(i)
  \/ OtherClient
  \/ RedisExpiry
  \/ MediatorStep
  \/ MediatorCrash

SessionSpec == SessionInit /\ [][SessionNext]_sessionVars

(***************************************************************************)
(* Calls and requests go on, an application that lists messages does it    *)
(* again and again, the process is restarted and the database comes back.  *)
(* A start that fails over and over on what is outside of the mediator     *)
(* (AWS, the address, the configuration file) is set right some time.      *)
(***************************************************************************)
FairSessionSpec ==
  /\ SessionSpec
  /\ \A a \in Atms : WF_sessionVars(AtmStep(a))
  /\ \A a \in Atms \ Tasks : SF_sessionVars(ListMessages(a))
  /\ \A r \in Requests : WF_sessionVars(Finish(r) \/ Abandon(r))
  /\ WF_sessionVars(MediatorStep /\ (StartStep \/ Restart))
  /\ WF_sessionVars(MediatorStep /\ Recover)
  /\ SF_sessionVars(MediatorStep /\ phase' = "config" /\ ReadConfigFile(config'))
  /\ SF_sessionVars(MediatorStep /\ phase' = "connect")
  /\ SF_sessionVars(MediatorStep /\ phase' = "serving")

-----------------------------------------------------------------------------
(* Properties *)

\* What an ATM keeps of an answer, and what it is.
Token == [sid : Ids, key : Source] \cup {NoToken}
AtmType ==
  [pc : {"none", "idle", "asking", "challenged", "waiting", "answered", "ready"},
   goal : {"none", "login", "protected", "refused"},
   sid : Ids \cup {NoToken}, request : Requests \cup {NoToken}, answer : Token,
   authenticated : BOOLEAN, token : Token,
   last : {"none", "served", "failed"}]

\* Calls are well formed.
SessionTypeOK ==
  /\ AuthTypeOK
  /\ phase \in Running \cup {"exited"}
  /\ expired \subseteq {t.sid : t \in tokens}
  /\ atm \in [Atms -> AtmType]

(***************************************************************************)
(* An ATM that says it is authenticated keeps a token that the mediator    *)
(* gave out, for its own DID and to a response that named it, however its  *)
(* logins failed before: a response that loses the session to another one, *)
(* an answer that is lost or the request of a login that was given up      *)
(* never leave it with something else.                                     *)
(***************************************************************************)
KeptTokensAreOwn ==
  \A a \in Atms : atm[a].authenticated =>
    \E t \in tokens :
      atm[a].token # NoToken /\ t.sid = atm[a].token.sid /\ t.did = MyDid[a] /\ t.from = MyDid[a]

Holds(a) == atm[a].authenticated /\ atm[a].token.sid \notin expired

(***************************************************************************)
(* Crashes of the mediator and outages of the database do not log a client *)
(* out: as long as its access token is valid, its calls are served again   *)
(* some time, without a new login.  The token is checked with a key from   *)
(* the configuration, and start() waits for a database that is away.       *)
(***************************************************************************)
ServedAgain ==
  \A a \in Atms \ Tasks : <>[]Holds(a) => []<>(atm[a].last = "served")
=============================================================================
