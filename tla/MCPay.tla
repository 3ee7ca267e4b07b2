-------------------------------- MODULE MCPay --------------------------------
(***************************************************************************)
(* Pay on small instances; votes keep their weight.                        *)
(***************************************************************************)
EXTENDS Pay, TLC

Symmetric == Permutations(Voters)

OneEach == [v \in Voters |-> 1]

Steady == [t \in Time |-> 1]
=============================================================================
