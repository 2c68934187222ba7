------------------------------- MODULE Mailbox -------------------------------
(***************************************************************************)
(* What the message database promises its users, whatever keys it keeps:   *)
(* every DID has an inbox of waiting messages in the order of arrival, a   *)
(* message arrives at the end of one inbox, and the receiver can take out  *)
(* any message that waits there, which disturbs nothing else.              *)
(***************************************************************************)
EXTENDS Sequences, SequencesExt

CONSTANTS Dids, Hashes

VARIABLE inbox

Waiting(d) == ToSet(inbox[d])

Init == inbox = [d \in Dids |-> <<>>]

Arrive(d, h) ==
  /\ \A c \in Dids : h \notin Waiting(c)
  /\ inbox' = [inbox EXCEPT ![d] = Append(@, h)]

TakeOut(d, h) ==
  \E i \in DOMAIN inbox[d] :
    /\ inbox[d][i] = h
    /\ inbox' = [inbox EXCEPT ![d] = RemoveAt(@, i)]

Next == \E d \in Dids, h \in Hashes : Arrive(d, h) \/ TakeOut(d, h)

Spec == Init /\ [][Next]_inbox
==============================================================================
