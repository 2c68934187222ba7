----------------------------- MODULE AuthSession -----------------------------
(***************************************************************************)
(* Authentication: POST /authenticate/challenge creates a session in       *)
(* Redis, POST /authenticate reads it, checks it, and in a second call     *)
(* turns it into an authenticated session with a new id.  Requests of      *)
(* several clients, or the retries of one, interleave between the two      *)
(* calls, and a session can expire there.                                  *)
(*                                                                         *)
(* The tokens of the answer name the new session.  Protected requests are  *)
(* served on the token alone, which is why the promises here are about     *)
(* the tokens given out.                                                   *)
(***************************************************************************)
EXTENDS Integers, FiniteSets

CONSTANTS
  Dids,
  Ids,        \* the random session ids
  Requests,   \* POST /authenticate requests, each used once
  NoDid       \* a session hash without the field did, a message without from

ASSUME NoDidAssumption == NoDid \notin Dids

VARIABLES
  store,      \* SESSION:<id>
  used,       \* history: ids that were ever drawn (they do not repeat)
  owner,      \* history: the DID a challenge was created for, by session id
  req,        \* POST /authenticate requests
  tokens,     \* history: the tokens in successful answers
  created,    \* GLOBAL SESSIONS_CREATED
  success     \* GLOBAL SESSIONS_SUCCESS

authVars == <<store, used, owner, req, tokens, created, success>>

NoSession == [state |-> "none", did |-> NoDid]

AuthInit ==
  /\ store = [i \in Ids |-> NoSession]
  /\ used = {}
  /\ owner = [i \in Ids |-> NoDid]
  /\ req = [r \in Requests |-> [pc |-> "new"]]
  /\ tokens = {}
  /\ created = 0
  /\ success = 0

\* create_session: one MULTI.
CreateSession(d, i) ==
  /\ store' = [store EXCEPT ![i] = [state |-> "ChallengeSent", did |-> d]]
  /\ created' = created + 1

Challenge(d, i) ==
  /\ i \notin used
  /\ used' = used \cup {i}
  /\ owner' = [owner EXCEPT ![i] = d]
  /\ CreateSession(d, i)
  /\ UNCHANGED <<req, tokens, success>>

\* get_session fails on a hash that lacks a field.
Complete(i) == store[i].did # NoDid

\* The DID of the message is compared when the message names one.
CheckAnyState(i, from) == Complete(i) /\ from \in {store[i].did, NoDid}
CheckAbsent(i, from) == from \in {store[i].did, NoDid} /\ store[i].state # "Authenticated"
CheckAnyDid(i, from) == Complete(i) /\ store[i].state = "ChallengeSent"
Check(i, from) ==
  /\ Complete(i)
  /\ from \in {store[i].did, NoDid}
  /\ store[i].state = "ChallengeSent"

(***************************************************************************)
(* The first half of authentication_response: the session that the body    *)
(* names is read and checked, and the new id is drawn.  The tokens will be *)
(* for the DID of the session.                                             *)
(***************************************************************************)
ReadSession(r, from, i) ==
  /\ req[r].pc = "new"
  /\ \/ /\ Check(i, from)
        /\ \E new \in Ids \ used :
             /\ used' = used \cup {new}
             /\ req' = [req EXCEPT ![r] =
                  [pc |-> "checked", from |-> from, did |-> store[i].did,
                   old |-> i, new |-> new]]
     \/ /\ ~Check(i, from)
        /\ req' = [req EXCEPT ![r] = [pc |-> "done"]]
        /\ UNCHANGED used
  /\ UNCHANGED <<store, owner, tokens, created, success>>

RenamedKeepingOld(old, new) == [store EXCEPT ![new] = store[old]]
Renamed(old, new) == [store EXCEPT ![new] = store[old], ![old] = NoSession]

(***************************************************************************)
(* update_session_authenticated: a MULTI of RENAME, HSET state, HINCRBY    *)
(* SESSIONS_SUCCESS and EXPIRE.  RENAME fails when the old key is gone,    *)
(* which does not stop the others: they leave a session without a DID, and *)
(* the request gets an error.                                              *)
(***************************************************************************)
RenameOk(old) == store[old] # NoSession

\* The tokens of a request are for the DID and the new id of its session.
Claims(q) == [did |-> q.did, from |-> q.from, challenge |-> q.old, sid |-> q.new]

UpdateSession(r) ==
  LET old == req[r].old
      new == req[r].new
      base == IF RenameOk(old) THEN Renamed(old, new) ELSE store
  IN  /\ req[r].pc = "checked"
      /\ store' = [base EXCEPT ![new].state = "Authenticated"]
      /\ success' = success + 1
      /\ tokens' = IF RenameOk(old) THEN tokens \cup {Claims(req[r])} ELSE tokens
      /\ req' = [req EXCEPT ![r] = [pc |-> "done"]]
      /\ UNCHANGED <<used, owner, created>>

\* The client of the request is gone, or Redis cannot be reached.
GiveUp(r) ==
  /\ req[r].pc = "checked"
  /\ req' = [req EXCEPT ![r] = [pc |-> "done"]]
  /\ UNCHANGED <<store, used, owner, tokens, created, success>>

\* The key of a session expires.
Expire(i) ==
  /\ store[i] # NoSession
  /\ store' = [store EXCEPT ![i] = NoSession]
  /\ UNCHANGED <<used, owner, req, tokens, created, success>>

AuthNext ==
  \/ \E d \in Dids, i \in Ids : Challenge(d, i)
  \/ \E r \in Requests, from \in Dids \cup {NoDid}, i \in Ids : ReadSession(r, from, i)
  \/ \E r \in Requests : UpdateSession(r) \/ GiveUp(r)
  \/ \E i \in Ids : Expire(i)

AuthSpec == AuthInit /\ [][AuthNext]_authVars

-----------------------------------------------------------------------------
(* Properties *)

Stored == [state : {"none", "ChallengeSent", "Authenticated"}, did : Dids \cup {NoDid}]
Tokens == [did : Dids, from : Dids \cup {NoDid}, challenge : Ids, sid : Ids]
Asked == [pc : {"new", "done"}]
Checked == [pc : {"checked"}, from : Dids \cup {NoDid}, did : Dids, old : Ids, new : Ids]

AuthTypeOK ==
  /\ store \in [Ids -> Stored]
  /\ used \subseteq Ids
  /\ owner \in [Ids -> Dids \cup {NoDid}]
  /\ req \in [Requests -> Asked \cup Checked]
  /\ tokens \subseteq Tokens
  /\ created \in Nat
  /\ success \in Nat

(***************************************************************************)
(* A challenge is answered once: of all requests that passed the checks    *)
(* with it, at most one gets tokens, because only one RENAME finds the     *)
(* session ("Check that this isn't a replay attack").                      *)
(***************************************************************************)
ChallengeUsedOnce ==
  \A t, u \in tokens : t.challenge = u.challenge => t = u

(***************************************************************************)
(* The tokens are for the DID the challenge was created for, which is the  *)
(* one the response named if it named any, and the session they name never *)
(* becomes the session of another DID.                                     *)
(***************************************************************************)
TokensMatchChallenge ==
  \A t \in tokens :
    /\ t.did = owner[t.challenge]
    /\ t.from \in {t.did, NoDid}
    /\ store[t.sid] \in {NoSession, [state |-> "Authenticated", did |-> t.did]}

\* The statistics never show more tokens than challenges, nor miss one.
TokensAreCounted ==
  /\ Cardinality(tokens) <= created
  /\ Cardinality(tokens) <= success
=============================================================================
