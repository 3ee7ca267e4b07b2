------------------------------- MODULE MCToken -------------------------------
(***************************************************************************)
(* The token contract on small instances: every amount up to MaxAmount and *)
(* one beyond, every holder, and a name that is no account.  TokenLedger   *)
(* has two currencies, two precisions and two accounts.                    *)
(***************************************************************************)
EXTENDS Token
=============================================================================
