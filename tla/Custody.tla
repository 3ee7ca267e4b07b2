------------------------------- MODULE Custody -------------------------------
(***************************************************************************)
(* What a contract that keeps the tokens of others promises each of them:  *)
(* the vault takes in what somebody pays, and from then on owes it to one  *)
(* owner; it gives out only what it owes, to whom it owes it.  A claim on  *)
(* the vault never passes to somebody else, and nobody's claim shrinks but *)
(* by being paid, or by being spent by one of those who may spend it.      *)
(***************************************************************************)
EXTENDS Integers

CONSTANTS
  Owners,
  Spenders    \* the owners that may give up a claim for something else than tokens

VARIABLES
  hand,     \* hand[o]: the tokens o has
  owed,     \* owed[o]: the tokens the vault holds for o
  vault     \* the tokens in the vault

vars == <<hand, owed, vault>>

Init ==
  /\ hand \in [Owners -> Nat]
  /\ owed = [o \in Owners |-> 0]
  /\ vault = 0

Deposit(payer, owner) ==
  LET k == vault' - vault
  IN  /\ k > 0
      /\ hand[payer] >= k
      /\ hand' = [hand EXCEPT ![payer] = hand[payer] - k]
      /\ owed' = [owed EXCEPT ![owner] = owed[owner] + k]

Withdraw(owner) ==
  LET k == vault - vault'
  IN  /\ k > 0
      /\ owed[owner] >= k
      /\ vault >= k
      /\ hand' = [hand EXCEPT ![owner] = hand[owner] + k]
      /\ owed' = [owed EXCEPT ![owner] = owed[owner] - k]

Spend(owner) ==
  LET k == owed[owner] - owed'[owner]
  IN  /\ k > 0
      /\ owed[owner] >= k
      /\ owed' = [owed EXCEPT ![owner] = owed[owner] - k]
      /\ UNCHANGED <<hand, vault>>

Next ==
  \/ \E payer, owner \in Owners : Deposit(payer, owner)
  \/ \E owner \in Owners : Withdraw(owner)
  \/ \E owner \in Spenders : Spend(owner)

Spec == Init /\ [][Next]_vars
=============================================================================
