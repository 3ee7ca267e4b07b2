------------------------------- MODULE MCVoting -------------------------------
(***************************************************************************)
(* Voting on small instances; the weight of a vote doubles with the last   *)
(* tick.                                                                   *)
(***************************************************************************)
EXTENDS Voting, TLC

Symmetric == Permutations(Voters)

OneEach == [v \in Voters |-> 1]

LateDouble == [t \in Time |-> IF t = MaxTime THEN 2 ELSE 1]
=============================================================================
