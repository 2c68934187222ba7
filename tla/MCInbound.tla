------------------------------ MODULE MCInbound ------------------------------
(***************************************************************************)
(* An instance of Inbound: one text, posted and posted again for alice and *)
(* for bob by two callers, and alice's client, which pages and deletes.    *)
(* The clock goes from 1.999 to 2.005, so that the second id is below the  *)
(* first and stores are refused.                                           *)
(***************************************************************************)
EXTENDS Inbound

CONSTANTS alice, bob, s1, h1

OfAlice == [s \in Sessions |-> alice]

BackwardClocks == {[sec |-> 1, ms |-> 999], [sec |-> 2, ms |-> 5]}

NamedId == {<<h1>>}
=============================================================================
