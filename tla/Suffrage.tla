------------------------------- MODULE Suffrage -------------------------------
(***************************************************************************)
(* The one purse that staking and voting share, without their tables: what *)
(* a citizen has staked comes and goes, the going only while enough of all *)
(* stakes are in votes; voting moves it into votes and back and neither    *)
(* makes nor loses any.  Nobody touches the stake of two.                  *)
(***************************************************************************)
EXTENDS Integers, Totals

CONSTANTS
  Citizens,
  Threshold     \* how much of all stakes must be in votes before any can leave

VARIABLES
  free,      \* free[c]: what c has staked and not in votes
  cast       \* cast[c]: what c has in votes

vars == <<free, cast>>

Init ==
  /\ free = [c \in Citizens |-> 0]
  /\ cast = [c \in Citizens |-> 0]

Stake(c) ==
  /\ free'[c] > free[c]
  /\ free' = [free EXCEPT ![c] = free'[c]]
  /\ UNCHANGED cast

Unstake(c) ==
  /\ Total(cast, Citizens) >= Threshold
  /\ free'[c] >= 0
  /\ free'[c] < free[c]
  /\ free' = [free EXCEPT ![c] = free'[c]]
  /\ UNCHANGED cast

Vote(c) ==
  /\ free'[c] >= 0 /\ cast'[c] >= 0
  /\ free'[c] + cast'[c] = free[c] + cast[c]
  /\ free' = [free EXCEPT ![c] = free'[c]]
  /\ cast' = [cast EXCEPT ![c] = cast'[c]]

Next == \E c \in Citizens : Stake(c) \/ Unstake(c) \/ Vote(c)

Spec == Init /\ [][Next]_vars
=============================================================================
