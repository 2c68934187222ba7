------------------------------ MODULE MCPickup ------------------------------
(***************************************************************************)
(* An instance of Pickup: two sessions of alice, so that requests of one   *)
(* DID race, over the turn of a second.                                    *)
(***************************************************************************)
EXTENDS Pickup

CONSTANTS alice, h1

SameDid == [s \in Sessions |-> alice]

ThreeDigitClocks == {[sec |-> 1, ms |-> 999], [sec |-> 2, ms |-> 100]}

\* Requests name h1 only: h2 is deleted by fetches with Optimistic.
NamedId == {<<h1>>}

\* Of one DID, no session differs from another.
AnySession == Permutations(Sessions)
=============================================================================
