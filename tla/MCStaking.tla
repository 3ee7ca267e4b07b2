------------------------------ MODULE MCStaking ------------------------------
(***************************************************************************)
(* Staking on small instances: two accounts with two or three tokens, all  *)
(* amounts up to two, a refund delay of one or two ticks.                  *)
(***************************************************************************)
EXTENDS Staking

CONSTANTS alice, bob

OneEach   == [a \in Accounts |-> 1]
AllAlices == [a \in Accounts |-> IF a = alice THEN 3 ELSE 0]
TwoAndOne == [a \in Accounts |-> IF a = alice THEN 2 ELSE 1]

Unlimited == {-1}

TwoNetOneCpu == {[net |-> 2, cpu |-> 1]}
=============================================================================
