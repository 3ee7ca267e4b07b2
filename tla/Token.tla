-------------------------------- MODULE Token --------------------------------
(***************************************************************************)
(* The fscio.token contract: currencies with a supply, a maximum supply    *)
(* and an issuer, and the balance rows of their holders.                   *)
(*                                                                         *)
(* An action of the contract is one transaction: every failing assertion,  *)
(* and every failing inline action, undoes it, so a handler is one step    *)
(* guarded by everything it asserts.  signer is the account whose          *)
(* permission the last transaction carried.                                *)
(*                                                                         *)
(* A definition whose name ends in _Something, next to the one it is a     *)
(* slip of, is a mutant: with it in the place of the original some run     *)
(* must fail (PROJECT.json says which).                                    *)
(***************************************************************************)
EXTENDS Integers, FiniteSets, Totals

CONSTANTS
  Names,        \* values of type name
  Accounts,     \* the names that are accounts of the chain (is_account)
  Self,         \* the account the contract is deployed on
  Codes,        \* symbol codes
  Precisions,   \* symbol precisions
  MaxAmount,    \* asset::max_amount
  NoStat,       \* no row in the stat table
  NoRow         \* no row in the accounts table

ASSUME NamesAssumption    == IsFiniteSet(Names) /\ Accounts \subseteq Names /\ Self \in Accounts
ASSUME AmountAssumption   == MaxAmount \in Nat

VARIABLES
  stat,         \* stat[code]: the currency_stats row of the currency
  accounts,     \* accounts[owner][code]: the owner's row of the currency
  signer        \* who authorised the last transaction

vars == <<stat, accounts, signer>>

Symbol == [code : Codes, precision : Precisions]
Asset  == [amount : Int, symbol : Symbol]
Stat   == [supply : 0..MaxAmount, max_supply : 1..MaxAmount, symbol : Symbol, issuer : Names]
Row    == [amount : 0..MaxAmount, symbol : Symbol]

ASSUME SentinelAssumption == NoStat \notin Stat /\ NoRow \notin Row

(***************************************************************************)
(* asset::is_valid.  The symbols of the model are all well formed.         *)
(***************************************************************************)
IsValid(q) == -MaxAmount <= q.amount /\ q.amount <= MaxAmount

Created(c) == stat[c] # NoStat

(***************************************************************************)
(* The currency exists and has this very symbol, precision included.       *)
(***************************************************************************)
KnownSymbol_ByCode(symbol) == Created(symbol.code)

KnownSymbol(symbol) ==
  Created(symbol.code) /\ stat[symbol.code].symbol = symbol

WithSupply(st, n) ==
  [supply |-> n, max_supply |-> st.max_supply, symbol |-> st.symbol, issuer |-> st.issuer]

FitsSupply(st, q) == q.amount <= st.max_supply - st.supply

Init ==
  /\ stat = [c \in Codes |-> NoStat]
  /\ accounts = [n \in Names |-> [c \in Codes |-> NoRow]]
  /\ signer = Self

-----------------------------------------------------------------------------
(***************************************************************************)
(* The assertions of issue, retire and transfer on their quantity.         *)
(***************************************************************************)
GoodQuantity(q) == IsValid(q) /\ q.amount > 0 /\ KnownSymbol(q.symbol)

(***************************************************************************)
(* The balance in a table acc, nothing without a row (get_balance).        *)
(***************************************************************************)
BalanceIn(acc, owner, code) == IF acc[owner][code] = NoRow THEN 0 ELSE acc[owner][code].amount

(***************************************************************************)
(* sub_balance and add_balance: whether their assertions hold in the table *)
(* acc, and the table they leave.  Assets add and subtract only in equal   *)
(* symbols, and only within MaxAmount.                                     *)
(***************************************************************************)
CanSub_NoOverdraft(acc, owner, q) == acc[owner][q.symbol.code] # NoRow

CanSub(acc, owner, q) ==
  LET row == acc[owner][q.symbol.code]
  IN  row # NoRow /\ row.symbol = q.symbol /\ row.amount >= q.amount

SubBalance_Forgets(acc, owner, q) == acc

SubBalance(acc, owner, q) ==
  [acc EXCEPT ![owner][q.symbol.code] =
     [amount |-> BalanceIn(acc, owner, q.symbol.code) - q.amount, symbol |-> q.symbol]]

CanAdd(acc, owner, q) ==
  LET row == acc[owner][q.symbol.code]
  IN  row # NoRow => row.symbol = q.symbol /\ row.amount + q.amount <= MaxAmount

AddBalance_Overwrites(acc, owner, q) ==
  [acc EXCEPT ![owner][q.symbol.code] = [amount |-> q.amount, symbol |-> q.symbol]]

AddBalance(acc, owner, q) ==
  [acc EXCEPT ![owner][q.symbol.code] =
     [amount |-> BalanceIn(acc, owner, q.symbol.code) + q.amount, symbol |-> q.symbol]]

(***************************************************************************)
(* What transfer asserts of its arguments and of the table acc it starts   *)
(* from, and the table it leaves.  issue runs it inline on the table its   *)
(* own add_balance has left.                                               *)
(***************************************************************************)
CanTransfer(acc, from, to, q) ==
  /\ from # to
  /\ to \in Accounts
  /\ GoodQuantity(q)
  /\ CanSub(acc, from, q)
  /\ CanAdd(SubBalance(acc, from, q), to, q)

Moved(acc, from, to, q) == AddBalance(SubBalance(acc, from, q), to, q)

-----------------------------------------------------------------------------
Create(issuer, max) ==
  /\ signer' = Self
  /\ IsValid(max) /\ max.amount > 0
  /\ ~Created(max.symbol.code)
  /\ stat' = [stat EXCEPT ![max.symbol.code] =
                [supply |-> 0, max_supply |-> max.amount, symbol |-> max.symbol, issuer |-> issuer]]
  /\ UNCHANGED accounts

Issue(to, q) ==
  LET st    == stat[q.symbol.code]
      added == AddBalance(accounts, st.issuer, q)
  IN  /\ GoodQuantity(q)
      /\ st.issuer \in Accounts
      /\ signer' = st.issuer
      /\ FitsSupply(st, q)
      /\ stat' = [stat EXCEPT ![q.symbol.code] = WithSupply(st, st.supply + q.amount)]
      /\ CanAdd(accounts, st.issuer, q)
      /\ to # st.issuer => CanTransfer(added, st.issuer, to, q)
      /\ accounts' = IF to = st.issuer THEN added ELSE Moved(added, st.issuer, to, q)

Retire(q) ==
  LET st == stat[q.symbol.code]
  IN  /\ GoodQuantity(q)
      /\ st.issuer \in Accounts
      /\ signer' = st.issuer
      /\ stat' = [stat EXCEPT ![q.symbol.code] = WithSupply(st, st.supply - q.amount)]
      /\ CanSub(accounts, st.issuer, q)
      /\ accounts' = SubBalance(accounts, st.issuer, q)

Transfer(from, to, q) ==
  /\ signer' = from
  /\ CanTransfer(accounts, from, to, q)
  /\ accounts' = Moved(accounts, from, to, q)
  /\ UNCHANGED stat

(***************************************************************************)
(* open does not ask whether owner is an account; only the one who pays    *)
(* for the row signs.                                                      *)
(***************************************************************************)
Open(owner, symbol, payer) ==
  /\ signer' = payer
  /\ KnownSymbol(symbol)
  /\ accounts' = IF accounts[owner][symbol.code] = NoRow
                 THEN [accounts EXCEPT ![owner][symbol.code] = [amount |-> 0, symbol |-> symbol]]
                 ELSE accounts
  /\ UNCHANGED stat

(***************************************************************************)
(* close looks the row up by code alone.                                   *)
(***************************************************************************)
Close(owner, code) ==
  /\ signer' = owner
  /\ accounts[owner][code] # NoRow
  /\ accounts[owner][code].amount = 0
  /\ accounts' = [accounts EXCEPT ![owner][code] = NoRow]
  /\ UNCHANGED stat

(***************************************************************************)
(* The arguments an action may be called with: amounts out of range and    *)
(* assets of another precision than the currency's among them.             *)
(***************************************************************************)
Quantities == [amount : -1..(MaxAmount + 1), symbol : Symbol]

Next ==
  \/ \E n \in Names, q \in Quantities : Create(n, q)
  \/ \E n \in Names, q \in Quantities : Issue(n, q)
  \/ \E q \in Quantities : Retire(q)
  \/ \E from \in Accounts, to \in Names, q \in Quantities : Transfer(from, to, q)
  \/ \E owner \in Names, s \in Symbol, payer \in Accounts : Open(owner, s, payer)
  \/ \E owner \in Accounts, c \in Codes : Close(owner, c)

Spec == Init /\ [][Next]_vars

-----------------------------------------------------------------------------
(***************************************************************************)
(* What an owner holds of a currency.                                      *)
(***************************************************************************)
Held(n, c) == BalanceIn(accounts, n, c)

HeldBy == [c \in Codes |-> [n \in Names |-> Held(n, c)]]

Supply == [c \in Codes |-> IF Created(c) THEN stat[c].supply ELSE 0]

MaxSupply == [c \in Codes |-> IF Created(c) THEN stat[c].max_supply ELSE 0]

Issuer == [c \in Codes |-> IF Created(c) THEN stat[c].issuer ELSE NoStat]

(***************************************************************************)
(* The tables hold what their types say: supplies and balances are never   *)
(* negative and never leave the range of an asset.                         *)
(***************************************************************************)
TypeOK ==
  /\ stat \in [Codes -> Stat \cup {NoStat}]
  /\ accounts \in [Names -> [Codes -> Row \cup {NoRow}]]
  /\ signer \in Names

(***************************************************************************)
(* Conservation: the supply that issue and retire keep in the stat row is  *)
(* the sum of all balances, whatever was issued to others by the inline    *)
(* transfer, moved, retired, opened or closed in between.                  *)
(***************************************************************************)
SupplyIsSumOfBalances == \A c \in Codes : Supply[c] = Total(HeldBy[c], Names)

(***************************************************************************)
(* No currency ever has more in circulation than its maximum supply.       *)
(***************************************************************************)
SupplyWithinMax == \A c \in Codes : Created(c) => stat[c].supply <= stat[c].max_supply

(***************************************************************************)
(* A row is in the precision of its currency, and there is none of a       *)
(* currency that was not created: otherwise the symbol assertion of an     *)
(* asset would lock the balance for good.                                  *)
(***************************************************************************)
RowsMatchCurrency ==
  \A n \in Names, c \in Codes :
    accounts[n][c] # NoRow => Created(c) /\ accounts[n][c].symbol = stat[c].symbol

(***************************************************************************)
(* The contract is a ledger: every transaction launches a currency, mints  *)
(* for one holder, burns or moves units, by the signature of the issuer or *)
(* of the holder that loses them, or changes nothing a holder can see.  An *)
(* issue to somebody else, with its inline transfer, is one mint.          *)
(***************************************************************************)
LedgerView ==
  INSTANCE Ledger WITH Holders <- Names, Currencies <- Codes, Nobody <- NoStat,
    held <- HeldBy,
    supply <- Supply,
    limit <- MaxSupply,
    issuer <- Issuer

IsALedger == LedgerView!Spec
=============================================================================
