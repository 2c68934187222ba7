---------------------------- MODULE MCLiveStream ----------------------------
(***************************************************************************)
(* Instances of LiveStream: the answer to a request, a message that is     *)
(* looked for by its id, and one that answers the request too but cannot   *)
(* be unpacked.                                                            *)
(***************************************************************************)
EXTENDS LiveStream

CONSTANTS answer, mail, garbled, request, mailId

Key == [m \in Messages |->
          IF m = mail THEN mailId ELSE request]
=============================================================================
