---------------------------- MODULE MCRamMarket ----------------------------
(***************************************************************************)
(* The RAM market on a small instance: the airdrop account and an account  *)
(* that is to be created.                                                  *)
(***************************************************************************)
EXTENDS RamMarket

CONSTANTS resad, new

Parties == {resad, new}

Spending == [a \in Parties |-> 9]
=============================================================================
