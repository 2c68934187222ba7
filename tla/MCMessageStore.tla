--------------------------- MODULE MCMessageStore ---------------------------
(***************************************************************************)
(* An instance of MessageStore with three-digit milliseconds, so that no   *)
(* append is refused.                                                      *)
(***************************************************************************)
EXTENDS MessageStore

ThreeDigitClocks == {[sec |-> 1, ms |-> 100], [sec |-> 1, ms |-> 999], [sec |-> 2, ms |-> 100]}
=============================================================================
