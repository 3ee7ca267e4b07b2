------------------------------- MODULE MCMsig --------------------------------
(***************************************************************************)
(* Msig on a small instance: alice proposes, alice and bob each sign with  *)
(* one level.  One transaction needs both, the other, which expires a      *)
(* second earlier, bob alone.                                              *)
(***************************************************************************)
EXTENDS Msig

CONSTANTS alice, bob, aliceActive, bobActive, both, single

LevelActors    == [l \in Levels |-> IF l = aliceActive THEN alice ELSE bob]
TrxExpirations == [t \in Trxs |-> IF t = both THEN 1 ELSE 0]
TrxQuorums     == [t \in Trxs |-> IF t = both THEN {{aliceActive, bobActive}} ELSE {{bobActive}}]
=============================================================================
