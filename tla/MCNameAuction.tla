---------------------------- MODULE MCNameAuction ----------------------------
(***************************************************************************)
(* NameAuction on a small instance: two bidders, two names, bids of a few  *)
(* tokens.                                                                 *)
(***************************************************************************)
EXTENDS NameAuction

CONSTANTS alice, bob

FourEach == [b \in Bidders |-> 4]

UpToFour == [n \in Newnames |-> IF n = 1 THEN 1..4 ELSE 1..2]
=============================================================================
