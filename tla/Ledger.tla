------------------------------- MODULE Ledger -------------------------------
(***************************************************************************)
(* What a currency contract promises its holders, without its tables: the  *)
(* units of a currency come into being only by minting within the limit    *)
(* set when the currency was launched, disappear only by burning, both by  *)
(* the signature of its issuer, and otherwise pass from the holder that    *)
(* signs to one other.  Limit and issuer of a currency are for ever.       *)
(***************************************************************************)
EXTENDS Integers

CONSTANTS Holders, Currencies, Nobody

VARIABLES
  held,     \* held[c][h]: the units of c that h holds
  supply,   \* supply[c]: the units of c in circulation
  limit,    \* limit[c]: how many there may ever be; 0 before the launch
  issuer,   \* issuer[c]: who launched it
  signer    \* who signed the last step

vars == <<held, supply, limit, issuer>>

Init ==
  /\ held = [c \in Currencies |-> [h \in Holders |-> 0]]
  /\ supply = [c \in Currencies |-> 0]
  /\ limit = [c \in Currencies |-> 0]
  /\ issuer = [c \in Currencies |-> Nobody]

Launch(c) ==
  /\ limit[c] = 0
  /\ limit'[c] > 0
  /\ limit' = [limit EXCEPT ![c] = limit'[c]]
  /\ issuer' = [issuer EXCEPT ![c] = issuer'[c]]
  /\ UNCHANGED <<held, supply>>

Mint(c, h) ==
  LET k == supply'[c] - supply[c]
  IN  /\ k > 0
      /\ signer' = issuer[c]
      /\ supply[c] + k <= limit[c]
      /\ supply' = [supply EXCEPT ![c] = supply[c] + k]
      /\ held' = [held EXCEPT ![c] = [held[c] EXCEPT ![h] = held[c][h] + k]]
      /\ UNCHANGED <<limit, issuer>>

Burn(c, h) ==
  LET k == supply[c] - supply'[c]
  IN  /\ k > 0
      /\ signer' = issuer[c] /\ h = issuer[c]
      /\ held[c][h] >= k
      /\ supply' = [supply EXCEPT ![c] = supply[c] - k]
      /\ held' = [held EXCEPT ![c] = [held[c] EXCEPT ![h] = held[c][h] - k]]
      /\ UNCHANGED <<limit, issuer>>

Move(c, from, to) ==
  LET k == held[c][from] - held'[c][from]
  IN  /\ from # to
      /\ k > 0
      /\ signer' = from
      /\ held[c][from] >= k
      /\ held' = [held EXCEPT ![c] = [held[c] EXCEPT ![from] = held[c][from] - k,
                                                      ![to] = held[c][to] + k]]
      /\ UNCHANGED <<supply, limit, issuer>>

Next ==
  \E c \in Currencies :
    \/ Launch(c)
    \/ \E h \in Holders : Mint(c, h) \/ Burn(c, h)
    \/ \E from, to \in Holders : Move(c, from, to)

Spec == Init /\ [][Next]_vars
=============================================================================
