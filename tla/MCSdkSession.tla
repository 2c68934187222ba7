---------------------------- MODULE MCSdkSession ----------------------------
(***************************************************************************)
(* Instances of SdkSession: an application of alice with its WebSocket     *)
(* task, or applications of two DIDs, and other clients whose requests     *)
(* name the sessions of all of them.                                       *)
(***************************************************************************)
EXTENDS SdkSession, TLC

CONSTANTS alice, bob, main, task, other

AliceDid == [a \in Atms |-> alice]
OneTask == main :> task

TwoDids == [a \in Atms |-> IF a = other THEN bob ELSE alice]
NoTask == <<>>

Good(method) == [method |-> method, wellFormed |-> TRUE]

\* The JWT key is kept in AWS, which need not answer.
AwsConfig ==
  [readable |-> TRUE, cors |-> TRUE, url |-> TRUE, tls |-> TRUE, streaming |-> "true",
   did |-> Good("did"), secrets |-> Good("file"), jwt |-> Good("aws"),
   uuid |-> Good("hostname")]

Working == {AwsConfig}
WithBroken == {AwsConfig, [AwsConfig EXCEPT !.readable = FALSE]}

\* Ids and requests are interchangeable when any client can draw any id.
Alike == Permutations(Ids) \cup Permutations(Requests)
=============================================================================
