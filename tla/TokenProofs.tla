----------------------------- MODULE TokenProofs -----------------------------
(***************************************************************************)
(* The token contract keeps its books for every set of names, currencies   *)
(* and precisions and every MaxAmount.                                     *)
(***************************************************************************)
EXTENDS Token, TotalProofs

(***************************************************************************)
(* The invariant that is inductive.  None of its parts is so alone: that a *)
(* supply stays a natural number when its issuer retires needs the balance *)
(* to be part of the supply, and that a sum can be compared with a supply  *)
(* at all needs the types.                                                 *)
(***************************************************************************)
Inv ==
  /\ TypeOK
  /\ RowsMatchCurrency
  /\ SupplyWithinMax
  /\ SupplyIsSumOfBalances

USE NamesAssumption, AmountAssumption, SentinelAssumption

(***************************************************************************)
(* Under the type invariant balances are natural numbers, and each is part *)
(* of the total.                                                           *)
(***************************************************************************)
LEMMA HeldType ==
  ASSUME TypeOK, NEW c \in Codes
  PROVE  /\ \A n \in Names : HeldBy[c][n] = Held(n, c) /\ HeldBy[c][n] \in 0..MaxAmount
         /\ Total(HeldBy[c], Names) \in Nat
         /\ \A n \in Names : Held(n, c) <= Total(HeldBy[c], Names)
<1>1. \A n \in Names : HeldBy[c][n] = Held(n, c) /\ HeldBy[c][n] \in 0..MaxAmount
  BY DEF HeldBy, Held, BalanceIn, TypeOK, Row
<1>2. \A n \in Names : HeldBy[c][n] \in Nat
  BY <1>1
<1> HIDE DEF HeldBy
<1> QED
  BY <1>1, <1>2, TotalType, TotalBounds

(***************************************************************************)
(* What sub_balance and add_balance do to a well-typed table, in terms of  *)
(* balances: one entry changes by the quantity, and stays in range.        *)
(***************************************************************************)
Table == [Names -> [Codes -> Row \cup {NoRow}]]

LEMMA SubEffect ==
  ASSUME NEW acc \in Table, NEW n \in Names,
         NEW q, q.symbol \in Symbol, q.amount \in Nat, CanSub(acc, n, q)
  PROVE  LET c == q.symbol.code
             sub == SubBalance(acc, n, q)
         IN  /\ sub \in Table
             /\ c \in Codes
             /\ sub[n][c] = [amount |-> BalanceIn(acc, n, c) - q.amount, symbol |-> q.symbol]
             /\ \A m \in Names, d \in Codes : <<m, d>> # <<n, c>> => sub[m][d] = acc[m][d]
             /\ acc[n][c] # NoRow
             /\ BalanceIn(acc, n, c) - q.amount \in 0..MaxAmount
<1> DEFINE c == q.symbol.code
           new == [amount |-> BalanceIn(acc, n, c) - q.amount, symbol |-> q.symbol]
<1>1. c \in Codes
  BY DEF Symbol
<1>2. acc[n][c] \in Row /\ acc[n][c] # NoRow /\ acc[n][c].amount >= q.amount
  BY <1>1 DEF Table, CanSub
<1>3. BalanceIn(acc, n, c) - q.amount \in 0..MaxAmount
  BY <1>2 DEF Row, BalanceIn
<1>4. new \in Row
  BY <1>3 DEF Row
<1> QED
  BY <1>1, <1>2, <1>3, <1>4 DEF Table, SubBalance

LEMMA AddEffect ==
  ASSUME NEW acc \in Table, NEW n \in Names,
         NEW q, q.symbol \in Symbol, q.amount \in 0..MaxAmount, CanAdd(acc, n, q)
  PROVE  LET c == q.symbol.code
             add == AddBalance(acc, n, q)
         IN  /\ add \in Table
             /\ c \in Codes
             /\ add[n][c] = [amount |-> BalanceIn(acc, n, c) + q.amount, symbol |-> q.symbol]
             /\ \A m \in Names, d \in Codes : <<m, d>> # <<n, c>> => add[m][d] = acc[m][d]
             /\ BalanceIn(acc, n, c) + q.amount \in 0..MaxAmount
<1> DEFINE c == q.symbol.code
           new == [amount |-> BalanceIn(acc, n, c) + q.amount, symbol |-> q.symbol]
<1>1. c \in Codes
  BY DEF Symbol
<1>2. acc[n][c] # NoRow => acc[n][c] \in Row /\ acc[n][c].amount + q.amount <= MaxAmount
  BY <1>1 DEF Table, CanAdd
<1>3. BalanceIn(acc, n, c) + q.amount \in 0..MaxAmount
  BY <1>2 DEF Row, BalanceIn
<1>4. new \in Row
  BY <1>3 DEF Row
<1> QED
  BY <1>1, <1>3, <1>4 DEF Table, AddBalance

(***************************************************************************)
(* What transfer does to the table it starts from.                         *)
(***************************************************************************)
LEMMA MovedEffect ==
  ASSUME NEW acc \in Table, NEW from \in Names, NEW to \in Names, NEW q \in Quantities,
         CanTransfer(acc, from, to, q)
  PROVE  LET c == q.symbol.code
             new == Moved(acc, from, to, q)
         IN  /\ new \in Table
             /\ c \in Codes
             /\ BalanceIn(new, from, c) = BalanceIn(acc, from, c) - q.amount
             /\ BalanceIn(new, to, c) = BalanceIn(acc, to, c) + q.amount
             /\ \A m \in Names, d \in Codes :
                  <<m, d>> \notin {<<from, c>>, <<to, c>>} => new[m][d] = acc[m][d]
             /\ new[from][c].symbol = q.symbol
             /\ new[to][c].symbol = q.symbol
<1> DEFINE c == q.symbol.code
           sub == SubBalance(acc, from, q)
           new == AddBalance(sub, to, q)
<1>1. /\ q.symbol \in Symbol /\ q.amount \in Nat /\ q.amount \in 0..MaxAmount
      /\ from # to
      /\ CanSub(acc, from, q) /\ CanAdd(sub, to, q)
  BY DEF CanTransfer, GoodQuantity, IsValid, Quantities
<1>2. /\ sub \in Table
      /\ c \in Codes
      /\ sub[from][c] = [amount |-> BalanceIn(acc, from, c) - q.amount, symbol |-> q.symbol]
      /\ \A m \in Names, d \in Codes : <<m, d>> # <<from, c>> => sub[m][d] = acc[m][d]
      /\ BalanceIn(acc, from, c) - q.amount \in 0..MaxAmount
  BY <1>1, SubEffect
<1>3. /\ new \in Table
      /\ new[to][c] = [amount |-> BalanceIn(sub, to, c) + q.amount, symbol |-> q.symbol]
      /\ \A m \in Names, d \in Codes : <<m, d>> # <<to, c>> => new[m][d] = sub[m][d]
      /\ BalanceIn(sub, to, c) + q.amount \in 0..MaxAmount
  <2> HIDE DEF sub
  <2> QED  BY <1>1, <1>2, AddEffect
<1>4. BalanceIn(sub, to, c) = BalanceIn(acc, to, c)
  BY <1>1, <1>2 DEF BalanceIn
<1>5. new[from][c] = sub[from][c]
  BY <1>1, <1>2, <1>3
<1>6. new[from][c] \in Row /\ new[to][c] \in Row
  BY <1>1, <1>2, <1>3, <1>5 DEF Row
<1>7. new = Moved(acc, from, to, q)
  BY DEF Moved
<1> HIDE DEF sub, new
<1>8. /\ BalanceIn(new, from, c) = BalanceIn(acc, from, c) - q.amount
      /\ BalanceIn(new, to, c) = BalanceIn(acc, to, c) + q.amount
  BY <1>2, <1>3, <1>4, <1>5, <1>6 DEF BalanceIn
<1>9. \A m \in Names, d \in Codes :
        <<m, d>> \notin {<<from, c>>, <<to, c>>} => new[m][d] = acc[m][d]
  BY <1>2, <1>3
<1> QED
  BY <1>2, <1>3, <1>5, <1>7, <1>8, <1>9

(***************************************************************************)
(* What issue does: whoever it is for, one balance grows; the issuer, when *)
(* it issues to somebody else, is left with the balance it had.            *)
(***************************************************************************)
LEMMA IssueEffect ==
  ASSUME Inv, NEW to \in Names, NEW q \in Quantities, Issue(to, q)
  PROVE  LET c == q.symbol.code
             st == stat[c]
         IN  /\ accounts' \in Table
             /\ c \in Codes /\ st \in Stat /\ st.symbol = q.symbol
             /\ q.amount \in 1..MaxAmount
             /\ BalanceIn(accounts', to, c) = BalanceIn(accounts, to, c) + q.amount
             /\ \A m \in Names \ {to} : BalanceIn(accounts', m, c) = BalanceIn(accounts, m, c)
             /\ \A m \in Names, d \in Codes : d # c => accounts'[m][d] = accounts[m][d]
             /\ \A m \in Names : accounts'[m][c] # NoRow => accounts'[m][c].symbol = q.symbol
<1> DEFINE c == q.symbol.code
           st == stat[c]
           added == AddBalance(accounts, st.issuer, q)
<1>1. q.symbol \in Symbol /\ q.amount \in 1..MaxAmount /\ Created(c) /\ st.symbol = q.symbol
  BY DEF Issue, GoodQuantity, KnownSymbol, IsValid, Quantities
<1>2. c \in Codes /\ st \in Stat /\ st.issuer \in Names
  BY <1>1 DEF Inv, TypeOK, Created, Symbol, Stat
<1>3. accounts \in Table
  BY DEF Inv, TypeOK, Table
<1>4. CanAdd(accounts, st.issuer, q)
  BY DEF Issue
<1>5. /\ added \in Table
      /\ added[st.issuer][c] = [amount |-> BalanceIn(accounts, st.issuer, c) + q.amount,
                                symbol |-> q.symbol]
      /\ \A m \in Names, d \in Codes : <<m, d>> # <<st.issuer, c>> => added[m][d] = accounts[m][d]
      /\ BalanceIn(accounts, st.issuer, c) + q.amount \in 0..MaxAmount
  BY <1>1, <1>2, <1>3, <1>4, AddEffect
<1>6. added[st.issuer][c] \in Row
  BY <1>1, <1>5 DEF Row
<1>7. /\ BalanceIn(added, st.issuer, c) = BalanceIn(accounts, st.issuer, c) + q.amount
      /\ added[st.issuer][c].symbol = q.symbol
      /\ \A m \in Names \ {st.issuer} : BalanceIn(added, m, c) = BalanceIn(accounts, m, c)
  <2>1. added[st.issuer][c] # NoRow
    BY <1>6
  <2>2. \A m \in Names \ {st.issuer} : added[m][c] = accounts[m][c]
    BY <1>2, <1>5
  <2> HIDE DEF added
  <2>3. BalanceIn(added, st.issuer, c) = added[st.issuer][c].amount
    BY <2>1 DEF BalanceIn
  <2>4. /\ added[st.issuer][c].amount = BalanceIn(accounts, st.issuer, c) + q.amount
        /\ added[st.issuer][c].symbol = q.symbol
    BY <1>5
  <2>5. \A m \in Names \ {st.issuer} : BalanceIn(added, m, c) = BalanceIn(accounts, m, c)
    BY <2>2 DEF BalanceIn
  <2> QED  BY <2>3, <2>4, <2>5
<1>8. \A m \in Names : accounts[m][c] # NoRow => accounts[m][c].symbol = q.symbol
  BY <1>1, <1>2 DEF Inv, RowsMatchCurrency
<1>9. \A m \in Names : BalanceIn(accounts, m, c) \in Int
  BY <1>2 DEF Inv, TypeOK, BalanceIn, Row
<1>10. CASE to = st.issuer
  <2>1. accounts' = added
    BY <1>10 DEF Issue
  <2> HIDE DEF added
  <2> QED  BY <1>1, <1>2, <1>5, <1>7, <1>8, <1>10, <2>1
<1>11. CASE to # st.issuer
  <2>1. CanTransfer(added, st.issuer, to, q) /\ accounts' = Moved(added, st.issuer, to, q)
    BY <1>11 DEF Issue
  <2> HIDE DEF added
  <2>2. /\ accounts' \in Table
        /\ BalanceIn(accounts', st.issuer, c) = BalanceIn(added, st.issuer, c) - q.amount
        /\ BalanceIn(accounts', to, c) = BalanceIn(added, to, c) + q.amount
        /\ \A m \in Names, d \in Codes :
             <<m, d>> \notin {<<st.issuer, c>>, <<to, c>>} => accounts'[m][d] = added[m][d]
        /\ accounts'[st.issuer][c].symbol = q.symbol
        /\ accounts'[to][c].symbol = q.symbol
    <3> DEFINE new == Moved(added, st.issuer, to, q)
    <3> HIDE DEF st
    <3>1. /\ new \in Table
          /\ BalanceIn(new, st.issuer, c) = BalanceIn(added, st.issuer, c) - q.amount
          /\ BalanceIn(new, to, c) = BalanceIn(added, to, c) + q.amount
          /\ \A m \in Names, d \in Codes :
               <<m, d>> \notin {<<st.issuer, c>>, <<to, c>>} => new[m][d] = added[m][d]
          /\ new[st.issuer][c].symbol = q.symbol
          /\ new[to][c].symbol = q.symbol
      BY <1>2, <1>5, <2>1, MovedEffect
    <3> QED  BY <2>1, <3>1
  <2>3. BalanceIn(accounts', st.issuer, c) = BalanceIn(accounts, st.issuer, c)
    BY <1>1, <1>2, <1>7, <1>9, <2>2
  <2>4. \A m \in Names \ {st.issuer, to} : accounts'[m][c] = accounts[m][c]
    BY <1>2, <1>5, <2>2
  <2>5. \A m \in Names \ {to} : BalanceIn(accounts', m, c) = BalanceIn(accounts, m, c)
    BY <2>3, <2>4 DEF BalanceIn
  <2>6. \A m \in Names, d \in Codes : d # c => accounts'[m][d] = accounts[m][d]
    BY <1>5, <2>2
  <2>7. \A m \in Names : accounts'[m][c] # NoRow => accounts'[m][c].symbol = q.symbol
    BY <1>8, <2>2, <2>4
  <2>8. BalanceIn(accounts', to, c) = BalanceIn(accounts, to, c) + q.amount
    BY <1>7, <1>11, <2>2
  <2> QED  BY <1>1, <1>2, <2>2, <2>5, <2>6, <2>7, <2>8
<1> QED
  BY <1>10, <1>11

(***************************************************************************)
(* From the effect of a step on balances to its effect on the sums: they   *)
(* follow when one balance of one currency changes by k, and nothing else. *)
(***************************************************************************)
LEMMA OneBalance ==
  ASSUME TypeOK, TypeOK', NEW c \in Codes, NEW n \in Names, NEW k \in Int,
         BalanceIn(accounts', n, c) = BalanceIn(accounts, n, c) + k,
         \A m \in Names \ {n} : BalanceIn(accounts', m, c) = BalanceIn(accounts, m, c)
  PROVE  Total(HeldBy'[c], Names) = Total(HeldBy[c], Names) + k
<1>1. \A m \in Names : HeldBy[c][m] = BalanceIn(accounts, m, c) /\ HeldBy[c][m] \in Nat
  BY HeldType DEF Held
<1>2. \A m \in Names : HeldBy'[c][m] = BalanceIn(accounts', m, c) /\ HeldBy'[c][m] \in Nat
  BY DEF HeldBy, Held, BalanceIn, TypeOK, Row
<1>3. Total(HeldBy[c], Names) \in Nat
  BY HeldType
<1>4. Total(HeldBy'[c], Names) = Total(HeldBy[c], Names) + HeldBy'[c][n] - HeldBy[c][n]
  <2> DEFINE f == HeldBy[c]
             g == HeldBy'[c]
  <2>1. \A m \in Names : f[m] \in Nat /\ g[m] \in Nat
    BY <1>1, <1>2
  <2>2. \A m \in Names \ {n} : g[m] = f[m]
    BY <1>1, <1>2
  <2> HIDE DEF f, g
  <2>3. Total(g, Names) = Total(f, Names) + g[n] - f[n]
    BY <2>1, <2>2, TotalUpdate
  <2> QED  BY <2>3 DEF f, g
<1>5. HeldBy'[c][n] = HeldBy[c][n] + k
  BY <1>1, <1>2
<1>6. HeldBy[c][n] \in Nat
  BY <1>1
<1> HIDE DEF HeldBy
<1> QED
  BY <1>3, <1>4, <1>5, <1>6

LEMMA SameBalances ==
  ASSUME NEW c \in Codes,
         \A m \in Names : BalanceIn(accounts', m, c) = BalanceIn(accounts, m, c)
  PROVE  Total(HeldBy'[c], Names) = Total(HeldBy[c], Names)
<1>1. \A m \in Names : HeldBy'[c][m] = HeldBy[c][m]
  BY DEF HeldBy, Held
<1> HIDE DEF HeldBy
<1> QED
  BY <1>1, TotalSame

(***************************************************************************)
(* The steps, one action at a time.                                        *)
(***************************************************************************)
LEMMA CreateStep ==
  ASSUME Inv, NEW issuer \in Names, NEW max \in Quantities, Create(issuer, max)
  PROVE  Inv'
<1> DEFINE c == max.symbol.code
           new == [supply |-> 0, max_supply |-> max.amount, symbol |-> max.symbol, issuer |-> issuer]
<1>1. c \in Codes /\ max.symbol \in Symbol /\ max.amount \in 1..MaxAmount /\ stat[c] = NoStat
  BY DEF Create, Quantities, Symbol, IsValid, Created
<1>2. new \in Stat
  BY <1>1 DEF Stat
<1>3. stat' = [stat EXCEPT ![c] = new] /\ accounts' = accounts /\ signer' = Self
  BY DEF Create
<1>4. TypeOK'
  <2> HIDE DEF new
  <2> QED  BY <1>1, <1>2, <1>3 DEF Inv, TypeOK
<1>5. \A n \in Names : accounts[n][c] = NoRow
  BY <1>1 DEF Inv, RowsMatchCurrency, Created
<1>6. \A d \in Codes : Created(d) => Created(d)' /\ stat'[d] = stat[d]
  BY <1>1, <1>3 DEF Created, Inv, TypeOK
<1>7. RowsMatchCurrency'
  BY <1>1, <1>3, <1>6 DEF Inv, RowsMatchCurrency
<1>8. stat'[c] = new
  BY <1>1, <1>3 DEF Inv, TypeOK
<1>9. \A d \in Codes \ {c} : stat'[d] = stat[d]
  BY <1>1, <1>3 DEF Inv, TypeOK
<1>10. SupplyWithinMax'
  BY <1>1, <1>8, <1>9 DEF Inv, SupplyWithinMax, Created
<1>11. SupplyIsSumOfBalances'
  <2> SUFFICES ASSUME NEW d \in Codes
               PROVE  Supply'[d] = Total(HeldBy'[d], Names)
    BY DEF SupplyIsSumOfBalances
  <2>1. Total(HeldBy'[d], Names) = Total(HeldBy[d], Names)
    BY <1>3, SameBalances
  <2>2. Supply'[d] = Supply[d]
    BY <1>1, <1>2, <1>8, <1>9 DEF Supply, Created
  <2> QED  BY <2>1, <2>2 DEF Inv, SupplyIsSumOfBalances
<1> QED
  BY <1>4, <1>7, <1>10, <1>11 DEF Inv

LEMMA IssueStep ==
  ASSUME Inv, NEW to \in Names, NEW q \in Quantities, Issue(to, q)
  PROVE  Inv'
<1> DEFINE c == q.symbol.code
           st == stat[c]
           new == WithSupply(st, st.supply + q.amount)
<1>1. /\ accounts' \in Table
      /\ c \in Codes /\ st \in Stat /\ st.symbol = q.symbol
      /\ q.amount \in 1..MaxAmount
      /\ BalanceIn(accounts', to, c) = BalanceIn(accounts, to, c) + q.amount
      /\ \A m \in Names \ {to} : BalanceIn(accounts', m, c) = BalanceIn(accounts, m, c)
      /\ \A m \in Names, d \in Codes : d # c => accounts'[m][d] = accounts[m][d]
      /\ \A m \in Names : accounts'[m][c] # NoRow => accounts'[m][c].symbol = q.symbol
  BY IssueEffect
<1>2. /\ q.amount <= st.max_supply - st.supply
      /\ Created(c)
      /\ stat' = [stat EXCEPT ![c] = new]
      /\ signer' = st.issuer
  BY DEF Issue, FitsSupply, GoodQuantity, KnownSymbol
<1>3. /\ new \in Stat
      /\ new.supply = st.supply + q.amount /\ new.supply <= new.max_supply
      /\ new.symbol = st.symbol
  BY <1>1, <1>2 DEF WithSupply, Stat
<1> HIDE DEF new
<1>4. TypeOK'
  BY <1>1, <1>2, <1>3 DEF Inv, TypeOK, Table, Stat
<1>5. stat'[c] = new /\ \A d \in Codes \ {c} : stat'[d] = stat[d]
  BY <1>1, <1>2 DEF Inv, TypeOK
<1>6. Created(c)' /\ \A d \in Codes \ {c} : Created(d)' <=> Created(d)
  BY <1>3, <1>5 DEF Created
<1>7. RowsMatchCurrency'
  <2> SUFFICES ASSUME NEW n \in Names, NEW d \in Codes, accounts'[n][d] # NoRow
               PROVE  Created(d)' /\ accounts'[n][d].symbol = stat'[d].symbol
    BY DEF RowsMatchCurrency
  <2>1. CASE d = c
    BY <1>1, <1>3, <1>5, <1>6, <2>1
  <2>2. CASE d # c
    BY <1>1, <1>5, <1>6, <2>2 DEF Inv, RowsMatchCurrency
  <2> QED  BY <2>1, <2>2
<1>8. SupplyWithinMax'
  BY <1>3, <1>5, <1>6 DEF Inv, SupplyWithinMax
<1>9. SupplyIsSumOfBalances'
  <2> SUFFICES ASSUME NEW d \in Codes
               PROVE  Supply'[d] = Total(HeldBy'[d], Names)
    BY DEF SupplyIsSumOfBalances
  <2>1. CASE d = c
    <3>1. Total(HeldBy'[c], Names) = Total(HeldBy[c], Names) + q.amount
      BY <1>1, <1>4, OneBalance DEF Inv
    <3>2. Supply'[c] = Supply[c] + q.amount
      BY <1>1, <1>2, <1>3, <1>5, <1>6 DEF Supply
    <3> QED  BY <1>1, <2>1, <3>1, <3>2 DEF Inv, SupplyIsSumOfBalances
  <2>2. CASE d # c
    <3>1. Total(HeldBy'[d], Names) = Total(HeldBy[d], Names)
      BY <1>1, <2>2, SameBalances DEF BalanceIn
    <3>2. Supply'[d] = Supply[d]
      BY <1>5, <1>6, <2>2 DEF Supply
    <3> QED  BY <3>1, <3>2 DEF Inv, SupplyIsSumOfBalances
  <2> QED  BY <2>1, <2>2
<1> QED
  BY <1>4, <1>7, <1>8, <1>9 DEF Inv

LEMMA RetireStep ==
  ASSUME Inv, NEW q \in Quantities, Retire(q)
  PROVE  Inv'
<1> DEFINE c == q.symbol.code
           st == stat[c]
           owner == st.issuer
           new == WithSupply(st, st.supply - q.amount)
<1>1. /\ q.symbol \in Symbol /\ q.amount \in 1..MaxAmount /\ Created(c) /\ st.symbol = q.symbol
      /\ CanSub(accounts, owner, q)
      /\ accounts' = SubBalance(accounts, owner, q)
      /\ stat' = [stat EXCEPT ![c] = new]
      /\ signer' = owner
  BY DEF Retire, GoodQuantity, KnownSymbol, IsValid, Quantities
<1>2. c \in Codes /\ st \in Stat /\ owner \in Names /\ accounts \in Table
  BY <1>1 DEF Inv, TypeOK, Created, Symbol, Stat, Table
<1>3. /\ accounts' \in Table
      /\ accounts'[owner][c] = [amount |-> BalanceIn(accounts, owner, c) - q.amount, symbol |-> q.symbol]
      /\ \A m \in Names, d \in Codes : <<m, d>> # <<owner, c>> => accounts'[m][d] = accounts[m][d]
      /\ BalanceIn(accounts, owner, c) - q.amount \in 0..MaxAmount
  <2> HIDE DEF st
  <2> QED  BY <1>1, <1>2, SubEffect
<1>4. BalanceIn(accounts, owner, c) \in Nat
  BY <1>2 DEF Inv, TypeOK, BalanceIn, Row
<1>5. Supply[c] = st.supply /\ Supply[c] = Total(HeldBy[c], Names)
  BY <1>1, <1>2 DEF Inv, SupplyIsSumOfBalances, Supply
<1>6. q.amount <= st.supply
  <2>1. Held(owner, c) <= Total(HeldBy[c], Names) /\ Total(HeldBy[c], Names) \in Nat
    BY <1>2, HeldType DEF Inv
  <2>2. q.amount \in Nat /\ q.amount <= BalanceIn(accounts, owner, c)
    BY <1>1, <1>3, <1>4
  <2>3. BalanceIn(accounts, owner, c) <= st.supply /\ st.supply \in Nat
    BY <1>5, <2>1 DEF Held
  <2> HIDE DEF st, owner, c, new
  <2> QED  BY <1>4, <2>2, <2>3
<1>7. /\ new \in Stat
      /\ new.supply = st.supply - q.amount /\ new.max_supply = st.max_supply
      /\ new.symbol = st.symbol
  BY <1>1, <1>2, <1>6 DEF WithSupply, Stat
<1>8. BalanceIn(accounts', owner, c) = BalanceIn(accounts, owner, c) + (0 - q.amount)
  <2>1. accounts'[owner][c] \in Row
    BY <1>2, <1>3, <1>1 DEF Row
  <2>2. BalanceIn(accounts', owner, c) = accounts'[owner][c].amount
    BY <2>1 DEF BalanceIn
  <2>3. accounts'[owner][c].amount = BalanceIn(accounts, owner, c) - q.amount
    BY <1>3
  <2> QED  BY <1>1, <1>4, <2>2, <2>3
<1>9. \A m \in Names \ {owner} : BalanceIn(accounts', m, c) = BalanceIn(accounts, m, c)
  BY <1>2, <1>3 DEF BalanceIn
<1> HIDE DEF new
<1>10. TypeOK'
  BY <1>1, <1>2, <1>3, <1>7 DEF Inv, TypeOK, Table
<1>11. stat'[c] = new /\ \A d \in Codes \ {c} : stat'[d] = stat[d]
  BY <1>1, <1>2 DEF Inv, TypeOK
<1>12. Created(c)' /\ \A d \in Codes \ {c} : Created(d)' <=> Created(d)
  BY <1>7, <1>11 DEF Created
<1>13. RowsMatchCurrency'
  <2> SUFFICES ASSUME NEW n \in Names, NEW d \in Codes, accounts'[n][d] # NoRow
               PROVE  Created(d)' /\ accounts'[n][d].symbol = stat'[d].symbol
    BY DEF RowsMatchCurrency
  <2>4. stat'[c].symbol = q.symbol
    BY <1>1, <1>7, <1>11
  <2>5. accounts'[owner][c].symbol = q.symbol
    BY <1>3
  <2>6. n # owner /\ accounts[n][c] # NoRow => accounts[n][c].symbol = q.symbol
    BY <1>1, <1>2 DEF Inv, RowsMatchCurrency
  <2>7. n # owner => accounts'[n][c] = accounts[n][c]
    BY <1>2, <1>3
  <2>1. CASE d = c /\ n = owner
    BY <1>12, <2>1, <2>4, <2>5
  <2>2. CASE d = c /\ n # owner
    BY <1>12, <2>2, <2>4, <2>6, <2>7
  <2>3. CASE d # c
    BY <1>3, <1>11, <1>12, <2>3 DEF Inv, RowsMatchCurrency
  <2> QED  BY <2>1, <2>2, <2>3
<1>14. SupplyWithinMax'
  <2>1. st.supply <= st.max_supply
    BY <1>1, <1>2 DEF Inv, SupplyWithinMax
  <2>2. new.supply <= new.max_supply
    BY <1>1, <1>2, <1>7, <2>1 DEF Stat
  <2> QED  BY <1>11, <1>12, <2>2 DEF Inv, SupplyWithinMax
<1>15. SupplyIsSumOfBalances'
  <2> SUFFICES ASSUME NEW d \in Codes
               PROVE  Supply'[d] = Total(HeldBy'[d], Names)
    BY DEF SupplyIsSumOfBalances
  <2>1. CASE d = c
    <3>1. Total(HeldBy'[c], Names) = Total(HeldBy[c], Names) + (0 - q.amount)
      BY <1>1, <1>2, <1>8, <1>9, <1>10, OneBalance DEF Inv
    <3>2. st.supply \in Nat /\ q.amount \in Nat
      BY <1>1, <1>2 DEF Stat
    <3>3. Supply'[c] = Supply[c] + (0 - q.amount)
      BY <1>2, <1>5, <1>7, <1>11, <1>12, <3>2 DEF Supply
    <3> QED  BY <1>1, <1>2, <2>1, <3>1, <3>3 DEF Inv, SupplyIsSumOfBalances
  <2>2. CASE d # c
    <3>1. Total(HeldBy'[d], Names) = Total(HeldBy[d], Names)
      BY <1>3, <2>2, SameBalances DEF BalanceIn
    <3>2. Supply'[d] = Supply[d]
      BY <1>11, <1>12, <2>2 DEF Supply
    <3> QED  BY <3>1, <3>2 DEF Inv, SupplyIsSumOfBalances
  <2> QED  BY <2>1, <2>2
<1> QED
  BY <1>10, <1>13, <1>14, <1>15 DEF Inv

LEMMA TransferStep ==
  ASSUME Inv, NEW from \in Accounts, NEW to \in Names, NEW q \in Quantities, Transfer(from, to, q)
  PROVE  Inv'
<1> DEFINE c == q.symbol.code
<1>1. /\ from \in Names /\ from # to
      /\ q.amount \in 1..MaxAmount /\ Created(c) /\ stat[c].symbol = q.symbol
      /\ CanTransfer(accounts, from, to, q)
      /\ accounts' = Moved(accounts, from, to, q)
      /\ stat' = stat /\ signer' = from
  BY DEF Transfer, CanTransfer, GoodQuantity, KnownSymbol, IsValid, Quantities
<1>2. accounts \in Table
  BY DEF Inv, TypeOK, Table
<1>3. /\ accounts' \in Table
      /\ c \in Codes
      /\ BalanceIn(accounts', from, c) = BalanceIn(accounts, from, c) - q.amount
      /\ BalanceIn(accounts', to, c) = BalanceIn(accounts, to, c) + q.amount
      /\ \A m \in Names, d \in Codes :
           <<m, d>> \notin {<<from, c>>, <<to, c>>} => accounts'[m][d] = accounts[m][d]
      /\ accounts'[from][c].symbol = q.symbol
      /\ accounts'[to][c].symbol = q.symbol
  BY <1>1, <1>2, MovedEffect
<1>4. TypeOK'
  BY <1>1, <1>3 DEF Inv, TypeOK, Table
<1>5. RowsMatchCurrency'
  BY <1>1, <1>3 DEF Inv, RowsMatchCurrency, Created
<1>6. SupplyWithinMax'
  BY <1>1 DEF Inv, SupplyWithinMax, Created
<1>7. \A d \in Codes : Total(HeldBy'[d], Names) = Total(HeldBy[d], Names)
  <2> SUFFICES ASSUME NEW d \in Codes
               PROVE  Total(HeldBy'[d], Names) = Total(HeldBy[d], Names)
    OBVIOUS
  <2>1. CASE d # c
    BY <1>3, <2>1, SameBalances DEF BalanceIn
  <2>2. CASE d = c
    <3> DEFINE f == HeldBy[c]
               g == HeldBy'[c]
    <3>1. \A m \in Names : f[m] = BalanceIn(accounts, m, c) /\ f[m] \in Nat
      BY <1>3, HeldType DEF Inv, Held
    <3>2. \A m \in Names : g[m] = BalanceIn(accounts', m, c) /\ g[m] \in Nat
      BY <1>3, <1>4 DEF HeldBy, Held, BalanceIn, TypeOK, Row
    <3>3. \A m \in Names \ {from, to} : BalanceIn(accounts', m, c) = BalanceIn(accounts, m, c)
      BY <1>3 DEF BalanceIn
    <3>4. Total(f, Names) \in Nat
      BY <1>3, HeldType DEF Inv
    <3> HIDE DEF f, g
    <3>5. \A m \in Names : f[m] \in Nat /\ g[m] \in Nat
      BY <3>1, <3>2
    <3>6. \A m \in Names \ {from, to} : g[m] = f[m]
      BY <3>1, <3>2, <3>3
    <3>7. g[from] + g[to] = f[from] + f[to]
      <4>1. g[from] = f[from] - q.amount /\ g[to] = f[to] + q.amount
        BY <1>1, <1>3, <3>1, <3>2
      <4>2. f[from] \in Nat /\ f[to] \in Nat /\ q.amount \in Nat
        BY <1>1, <3>1
      <4> QED  BY <4>1, <4>2
    <3>8. from \in Names /\ to \in Names /\ from # to
      BY <1>1
    <3>9. Total(g, Names) = Total(f, Names)
      BY <3>5, <3>6, <3>7, <3>8, TotalMove
    <3> QED  BY <2>2, <3>9 DEF f, g
  <2> QED  BY <2>1, <2>2
<1>8. SupplyIsSumOfBalances'
  BY <1>1, <1>7 DEF Inv, SupplyIsSumOfBalances, Supply, Created
<1> QED
  BY <1>4, <1>5, <1>6, <1>8 DEF Inv

LEMMA RowStep ==
  ASSUME Inv, stat' = stat, signer' \in Names, accounts' \in Table, RowsMatchCurrency',
         \A m \in Names, d \in Codes : BalanceIn(accounts', m, d) = BalanceIn(accounts, m, d)
  PROVE  Inv'
<1>1. TypeOK'
  BY DEF Inv, TypeOK, Table
<1>2. SupplyWithinMax'
  BY DEF Inv, SupplyWithinMax, Created
<1>3. \A d \in Codes : Total(HeldBy'[d], Names) = Total(HeldBy[d], Names)
  BY SameBalances
<1>4. SupplyIsSumOfBalances'
  BY <1>3 DEF Inv, SupplyIsSumOfBalances, Supply, Created
<1> QED
  BY <1>1, <1>2, <1>4 DEF Inv

LEMMA OpenStep ==
  ASSUME Inv, NEW owner \in Names, NEW symbol \in Symbol, NEW payer \in Accounts,
         Open(owner, symbol, payer)
  PROVE  Inv'
<1> DEFINE c == symbol.code
           row == [amount |-> 0, symbol |-> symbol]
<1>1. /\ c \in Codes /\ row \in Row /\ row.amount = 0 /\ row.symbol = symbol
      /\ Created(c) /\ stat[c].symbol = symbol
      /\ stat' = stat /\ signer' \in Names
  BY DEF Open, KnownSymbol, Symbol, Row
<1> HIDE DEF row
<1>2. CASE accounts[owner][c] = NoRow
  <2>1. accounts' = [accounts EXCEPT ![owner][c] = row]
    BY <1>2 DEF Open, row
  <2>2. /\ accounts' \in Table
        /\ accounts'[owner][c] = row
        /\ \A m \in Names, d \in Codes : <<m, d>> # <<owner, c>> => accounts'[m][d] = accounts[m][d]
    BY <1>1, <2>1 DEF Inv, TypeOK, Table
  <2>3. \A m \in Names, d \in Codes : BalanceIn(accounts', m, d) = BalanceIn(accounts, m, d)
    BY <1>1, <1>2, <2>2 DEF BalanceIn
  <2>4. RowsMatchCurrency'
    BY <1>1, <2>2 DEF Inv, RowsMatchCurrency, Created
  <2> QED  BY <1>1, <2>2, <2>3, <2>4, RowStep
<1>3. CASE accounts[owner][c] # NoRow
  <2>1. accounts' = accounts
    BY <1>3 DEF Open
  <2>2. RowsMatchCurrency' /\ accounts' \in Table
    BY <1>1, <2>1 DEF Inv, RowsMatchCurrency, Created, TypeOK, Table
  <2> QED  BY <1>1, <2>1, <2>2, RowStep
<1> QED
  BY <1>2, <1>3

LEMMA CloseStep ==
  ASSUME Inv, NEW owner \in Accounts, NEW c \in Codes, Close(owner, c)
  PROVE  Inv'
<1>1. /\ owner \in Names /\ accounts[owner][c] # NoRow /\ accounts[owner][c].amount = 0
      /\ accounts' = [accounts EXCEPT ![owner][c] = NoRow]
      /\ stat' = stat /\ signer' = owner
  BY DEF Close
<1>2. /\ accounts' \in Table
      /\ accounts'[owner][c] = NoRow
      /\ \A m \in Names, d \in Codes : <<m, d>> # <<owner, c>> => accounts'[m][d] = accounts[m][d]
  BY <1>1 DEF Inv, TypeOK, Table
<1>3. \A m \in Names, d \in Codes : BalanceIn(accounts', m, d) = BalanceIn(accounts, m, d)
  BY <1>1, <1>2 DEF BalanceIn
<1>4. RowsMatchCurrency'
  BY <1>1, <1>2 DEF Inv, RowsMatchCurrency, Created
<1> QED
  BY <1>1, <1>2, <1>3, <1>4, RowStep

-----------------------------------------------------------------------------
(***************************************************************************)
(* In the initial tables there is nothing to sum.                          *)
(***************************************************************************)
LEMMA InitInv == Init => Inv
<1> SUFFICES ASSUME Init PROVE Inv
  OBVIOUS
<1>1. TypeOK
  BY DEF Init, TypeOK
<1>2. RowsMatchCurrency /\ SupplyWithinMax
  BY DEF Init, RowsMatchCurrency, SupplyWithinMax, Created
<1>3. SupplyIsSumOfBalances
  <2> SUFFICES ASSUME NEW c \in Codes
               PROVE  Supply[c] = Total(HeldBy[c], Names)
    BY DEF SupplyIsSumOfBalances
  <2>1. \A n \in Names : HeldBy[c][n] = 0
    BY DEF Init, HeldBy, Held, BalanceIn
  <2>2. Total(HeldBy[c], Names) = 0
    <3> HIDE DEF HeldBy
    <3> QED  BY <2>1, TotalZero
  <2> QED  BY <2>2 DEF Supply, Created, Init
<1> QED
  BY <1>1, <1>2, <1>3 DEF Inv

LEMMA NextInv == Inv /\ [Next]_vars => Inv'
<1> SUFFICES ASSUME Inv, [Next]_vars PROVE Inv'
  OBVIOUS
<1>1. ASSUME NEW n \in Names, NEW q \in Quantities, Create(n, q) PROVE Inv'
  BY <1>1, CreateStep
<1>2. ASSUME NEW n \in Names, NEW q \in Quantities, Issue(n, q) PROVE Inv'
  BY <1>2, IssueStep
<1>3. ASSUME NEW q \in Quantities, Retire(q) PROVE Inv'
  BY <1>3, RetireStep
<1>4. ASSUME NEW from \in Accounts, NEW to \in Names, NEW q \in Quantities, Transfer(from, to, q)
      PROVE  Inv'
  BY <1>4, TransferStep
<1>5. ASSUME NEW owner \in Names, NEW s \in Symbol, NEW payer \in Accounts, Open(owner, s, payer)
      PROVE  Inv'
  BY <1>5, OpenStep
<1>6. ASSUME NEW owner \in Accounts, NEW c \in Codes, Close(owner, c) PROVE Inv'
  BY <1>6, CloseStep
<1>7. CASE UNCHANGED vars
  <2>1. RowsMatchCurrency'
    BY <1>7 DEF vars, Inv, RowsMatchCurrency, Created
  <2> QED  BY <1>7, <2>1, RowStep DEF vars, Inv, TypeOK, Table
<1> QED
  BY <1>1, <1>2, <1>3, <1>4, <1>5, <1>6, <1>7 DEF Next

(***************************************************************************)
(* Supplies and balances keep their types: none is ever negative and none  *)
(* leaves the range of an asset, so the overflow assertions of the asset   *)
(* type never stop a legal transaction.                                    *)
(***************************************************************************)
THEOREM TypeCorrect == Spec => []TypeOK
<1>1. Inv => TypeOK
  BY DEF Inv
<1> QED
  BY <1>1, InitInv, NextInv, PTL DEF Spec

(***************************************************************************)
(* The supply of every currency is the sum of its balances, always.        *)
(***************************************************************************)
THEOREM Conservation == Spec => []SupplyIsSumOfBalances
<1>1. Inv => SupplyIsSumOfBalances
  BY DEF Inv
<1> QED
  BY <1>1, InitInv, NextInv, PTL DEF Spec

(***************************************************************************)
(* No supply ever exceeds the maximum the currency was created with.       *)
(***************************************************************************)
THEOREM SupplyBounded == Spec => []SupplyWithinMax
<1>1. Inv => SupplyWithinMax
  BY DEF Inv
<1> QED
  BY <1>1, InitInv, NextInv, PTL DEF Spec

(***************************************************************************)
(* A row is always one of a created currency, in that currency's symbol.   *)
(***************************************************************************)
THEOREM RowsMatch == Spec => []RowsMatchCurrency
<1>1. Inv => RowsMatchCurrency
  BY DEF Inv
<1> QED
  BY <1>1, InitInv, NextInv, PTL DEF Spec

-----------------------------------------------------------------------------
(***************************************************************************)
(* The refinement of Ledger.  What the ledger sees of a stat row:          *)
(***************************************************************************)
StatSeen == <<Supply, MaxSupply, Issuer>>

LEMMA SupplyChange ==
  ASSUME TypeOK, NEW c \in Codes, NEW n \in 0..MaxAmount, Created(c),
         stat' = [stat EXCEPT ![c] = WithSupply(stat[c], n)]
  PROVE  /\ Supply' = [Supply EXCEPT ![c] = n] /\ Supply'[c] = n
         /\ MaxSupply' = MaxSupply /\ Issuer' = Issuer
         /\ Supply[c] = stat[c].supply /\ MaxSupply[c] = stat[c].max_supply
         /\ Issuer[c] = stat[c].issuer
<1> DEFINE new == WithSupply(stat[c], n)
<1>1. stat[c] \in Stat
  BY DEF TypeOK, Created
<1>2. new \in Stat /\ new.supply = n /\ new.max_supply = stat[c].max_supply
      /\ new.issuer = stat[c].issuer
  BY <1>1 DEF WithSupply, Stat
<1>3. stat' = [stat EXCEPT ![c] = new] /\ stat \in [Codes -> Stat \cup {NoStat}]
  BY DEF TypeOK
<1> HIDE DEF new
<1>4. /\ stat'[c] = new /\ Created(c)'
      /\ \A d \in Codes \ {c} : stat'[d] = stat[d] /\ (Created(d)' <=> Created(d))
  BY <1>2, <1>3 DEF Created
<1>5. Supply' = [Supply EXCEPT ![c] = n]
  <2>1. \A d \in Codes : Supply'[d] = IF d = c THEN n ELSE Supply[d]
    BY <1>2, <1>4 DEF Supply
  <2>2. Supply' = [d \in Codes |-> Supply'[d]] /\ Supply = [d \in Codes |-> Supply[d]]
    BY DEF Supply
  <2> HIDE DEF Supply
  <2> QED  BY <2>1, <2>2
<1>6. MaxSupply' = MaxSupply
  BY <1>2, <1>4 DEF MaxSupply
<1>7. Issuer' = Issuer
  BY <1>2, <1>4 DEF Issuer
<1>8. Supply'[c] = n
  BY <1>2, <1>4 DEF Supply
<1> QED
  BY <1>5, <1>6, <1>7, <1>8 DEF Supply, MaxSupply, Issuer

LEMMA SameStat ==
  ASSUME stat' = stat
  PROVE  StatSeen' = StatSeen
BY DEF StatSeen, Supply, MaxSupply, Issuer, Created

(***************************************************************************)
(* What it sees of the balances.                                           *)
(***************************************************************************)
LEMMA HeldChange ==
  ASSUME NEW c \in Codes,
         \A m \in Names, d \in Codes : d # c => BalanceIn(accounts', m, d) = BalanceIn(accounts, m, d)
  PROVE  HeldBy' = [HeldBy EXCEPT ![c] = HeldBy'[c]]
<1>1. \A d \in Codes : d # c => HeldBy'[d] = HeldBy[d]
  BY DEF HeldBy, Held
<1>2. HeldBy' = [d \in Codes |-> HeldBy'[d]] /\ HeldBy = [d \in Codes |-> HeldBy[d]]
  BY DEF HeldBy
<1> HIDE DEF HeldBy
<1> QED
  BY <1>1, <1>2

LEMMA SameHeld ==
  ASSUME \A m \in Names, d \in Codes : BalanceIn(accounts', m, d) = BalanceIn(accounts, m, d)
  PROVE  HeldBy' = HeldBy
BY DEF HeldBy, Held

(***************************************************************************)
(* The steps of the ledger.                                                *)
(***************************************************************************)
LEMMA CreateLaunches ==
  ASSUME Inv, NEW issuer \in Names, NEW max \in Quantities, Create(issuer, max)
  PROVE  \E c \in Codes : LedgerView!Launch(c)
<1> DEFINE c == max.symbol.code
           new == [supply |-> 0, max_supply |-> max.amount, symbol |-> max.symbol, issuer |-> issuer]
<1>1. c \in Codes /\ max.symbol \in Symbol /\ max.amount \in 1..MaxAmount /\ stat[c] = NoStat
  BY DEF Create, Quantities, Symbol, IsValid, Created
<1>2. new \in Stat /\ new.supply = 0 /\ new.max_supply = max.amount
  BY <1>1 DEF Stat
<1>3. stat' = [stat EXCEPT ![c] = new] /\ accounts' = accounts
      /\ stat \in [Codes -> Stat \cup {NoStat}]
  BY DEF Create, Inv, TypeOK
<1> HIDE DEF new, c
<1>4. /\ stat'[c] = new /\ Created(c)' /\ ~Created(c)
      /\ \A d \in Codes \ {c} : stat'[d] = stat[d] /\ (Created(d)' <=> Created(d))
  BY <1>1, <1>2, <1>3 DEF Created
<1>5. MaxSupply[c] = 0 /\ MaxSupply'[c] > 0
  BY <1>1, <1>2, <1>4 DEF MaxSupply
<1>6. MaxSupply' = [MaxSupply EXCEPT ![c] = MaxSupply'[c]]
  <2>1. \A d \in Codes : d # c => MaxSupply'[d] = MaxSupply[d]
    BY <1>4 DEF MaxSupply
  <2>2. MaxSupply' = [d \in Codes |-> MaxSupply'[d]] /\ MaxSupply = [d \in Codes |-> MaxSupply[d]]
    BY DEF MaxSupply
  <2> HIDE DEF MaxSupply
  <2> QED  BY <2>1, <2>2
<1>7. Issuer' = [Issuer EXCEPT ![c] = Issuer'[c]]
  <2>1. \A d \in Codes : d # c => Issuer'[d] = Issuer[d]
    BY <1>4 DEF Issuer
  <2>2. Issuer' = [d \in Codes |-> Issuer'[d]] /\ Issuer = [d \in Codes |-> Issuer[d]]
    BY DEF Issuer
  <2> HIDE DEF Issuer
  <2> QED  BY <2>1, <2>2
<1>8. Supply' = Supply
  BY <1>2, <1>4 DEF Supply
<1>9. HeldBy' = HeldBy
  BY <1>3, SameHeld
<1>10. LedgerView!Launch(c)
  <2> HIDE DEF MaxSupply, Issuer, Supply, HeldBy
  <2> QED  BY <1>5, <1>6, <1>7, <1>8, <1>9 DEF LedgerView!Launch
<1> QED
  BY <1>1, <1>10

LEMMA IssueMints ==
  ASSUME Inv, TypeOK', NEW to \in Names, NEW q \in Quantities, Issue(to, q)
  PROVE  \E c \in Codes : LedgerView!Mint(c, to)
<1> DEFINE c == q.symbol.code
           k == q.amount
<1>1. /\ c \in Codes /\ stat[c] \in Stat /\ k \in 1..MaxAmount
      /\ BalanceIn(accounts', to, c) = BalanceIn(accounts, to, c) + k
      /\ \A m \in Names \ {to} : BalanceIn(accounts', m, c) = BalanceIn(accounts, m, c)
      /\ \A m \in Names, d \in Codes : d # c => accounts'[m][d] = accounts[m][d]
  BY IssueEffect
<1>2. /\ k <= stat[c].max_supply - stat[c].supply /\ Created(c)
      /\ stat' = [stat EXCEPT ![c] = WithSupply(stat[c], stat[c].supply + k)]
      /\ signer' = stat[c].issuer
  BY DEF Issue, FitsSupply, GoodQuantity, KnownSymbol
<1> HIDE DEF c, k
<1> DEFINE n == stat[c].supply + k
<1>3. n \in 0..MaxAmount /\ stat[c].supply \in Nat /\ stat[c].max_supply \in Nat
  BY <1>1, <1>2 DEF Stat
<1>4. /\ Supply' = [Supply EXCEPT ![c] = n] /\ Supply'[c] = n
      /\ MaxSupply' = MaxSupply /\ Issuer' = Issuer
      /\ Supply[c] = stat[c].supply /\ MaxSupply[c] = stat[c].max_supply
      /\ Issuer[c] = stat[c].issuer
  <2>1. stat' = [stat EXCEPT ![c] = WithSupply(stat[c], n)] /\ TypeOK
    BY <1>2 DEF Inv
  <2> HIDE DEF n
  <2> QED  BY <1>1, <1>2, <1>3, <2>1, SupplyChange
<1>5. HeldBy' = [HeldBy EXCEPT ![c] = HeldBy'[c]]
  BY <1>1, HeldChange DEF BalanceIn
<1>6. HeldBy'[c] = [HeldBy[c] EXCEPT ![to] = HeldBy[c][to] + k]
  BY <1>1 DEF HeldBy, Held
<1>7. Supply'[c] - Supply[c] = k
  BY <1>1, <1>3, <1>4
<1>8. Supply[c] + k <= MaxSupply[c] /\ k > 0 /\ signer' = Issuer[c]
      /\ Supply' = [Supply EXCEPT ![c] = Supply[c] + k]
  BY <1>1, <1>2, <1>3, <1>4
<1>9. HeldBy' = [HeldBy EXCEPT ![c] = [HeldBy[c] EXCEPT ![to] = HeldBy[c][to] + k]]
  <2> HIDE DEF HeldBy
  <2> QED  BY <1>5, <1>6
<1>10. LedgerView!Mint(c, to)
  <2> HIDE DEF MaxSupply, Issuer, Supply, HeldBy
  <2> QED  BY <1>4, <1>7, <1>8, <1>9 DEF LedgerView!Mint
<1> QED
  BY <1>1, <1>10

LEMMA RetireBurns ==
  ASSUME Inv, Inv', NEW q \in Quantities, Retire(q)
  PROVE  \E c \in Codes, h \in Names : LedgerView!Burn(c, h)
<1> DEFINE c == q.symbol.code
           k == q.amount
           owner == stat[c].issuer
<1>1. /\ q.symbol \in Symbol /\ k \in 1..MaxAmount /\ k \in Nat /\ Created(c)
      /\ CanSub(accounts, owner, q) /\ accounts' = SubBalance(accounts, owner, q)
      /\ stat' = [stat EXCEPT ![c] = WithSupply(stat[c], stat[c].supply - k)]
      /\ signer' = owner
  BY DEF Retire, GoodQuantity, KnownSymbol, IsValid, Quantities
<1>2. c \in Codes /\ stat[c] \in Stat /\ owner \in Names /\ accounts \in Table
  BY <1>1 DEF Inv, TypeOK, Created, Symbol, Stat, Table
<1>3. /\ accounts' \in Table
      /\ accounts'[owner][c] = [amount |-> BalanceIn(accounts, owner, c) - k, symbol |-> q.symbol]
      /\ \A m \in Names, d \in Codes : <<m, d>> # <<owner, c>> => accounts'[m][d] = accounts[m][d]
      /\ BalanceIn(accounts, owner, c) - k \in 0..MaxAmount
  <2> HIDE DEF owner
  <2> QED  BY <1>1, <1>2, SubEffect
<1>4. BalanceIn(accounts', owner, c) = BalanceIn(accounts, owner, c) - k
      /\ BalanceIn(accounts, owner, c) \in Nat
  <2>1. accounts'[owner][c] # NoRow
    <3>1. accounts'[owner][c] \in Row
      BY <1>1, <1>3 DEF Row
    <3> QED  BY <3>1
  <2>2. BalanceIn(accounts', owner, c) = accounts'[owner][c].amount
    BY <2>1 DEF BalanceIn
  <2>3. accounts'[owner][c].amount = BalanceIn(accounts, owner, c) - k
    BY <1>3
  <2>4. BalanceIn(accounts, owner, c) \in Nat
    BY <1>2 DEF Inv, TypeOK, BalanceIn, Row
  <2> QED  BY <2>2, <2>3, <2>4
<1>5. \A m \in Names, d \in Codes : <<m, d>> # <<owner, c>> =>
        BalanceIn(accounts', m, d) = BalanceIn(accounts, m, d)
  BY <1>3 DEF BalanceIn
<1> DEFINE n == stat[c].supply - k
<1>6. n \in 0..MaxAmount /\ stat[c].supply \in Nat
  <2> DEFINE h == BalanceIn(accounts, owner, c)
             x == stat[c].supply
  <2>1. h <= Total(HeldBy[c], Names)
    BY <1>2, HeldType DEF Inv, Held
  <2>2. x = Total(HeldBy[c], Names)
    BY <1>1, <1>2 DEF Inv, SupplyIsSumOfBalances, Supply
  <2>3. x \in 0..MaxAmount
    BY <1>2 DEF Stat
  <2>4. k \in Nat /\ h \in Nat /\ h - k \in 0..MaxAmount
    BY <1>1, <1>3, <1>4
  <2> HIDE DEF owner, c, k, h, x
  <2>5. h <= x
    BY <2>1, <2>2
  <2>6. x - k \in 0..MaxAmount /\ x \in Nat
    BY <2>3, <2>4, <2>5
  <2> QED  BY <2>6 DEF x
<1>7. stat' = [stat EXCEPT ![c] = WithSupply(stat[c], n)] /\ TypeOK
  BY <1>1 DEF Inv
<1> HIDE DEF c, k, owner, n
<1>8. /\ Supply' = [Supply EXCEPT ![c] = n] /\ Supply'[c] = n
      /\ MaxSupply' = MaxSupply /\ Issuer' = Issuer
      /\ Supply[c] = stat[c].supply /\ Issuer[c] = stat[c].issuer
  BY <1>1, <1>2, <1>6, <1>7, SupplyChange
<1>9. HeldBy' = [HeldBy EXCEPT ![c] = HeldBy'[c]]
  BY <1>2, <1>5, HeldChange
<1>10. HeldBy'[c] = [HeldBy[c] EXCEPT ![owner] = HeldBy[c][owner] - k]
  BY <1>2, <1>4, <1>5 DEF HeldBy, Held
<1>11. HeldBy' = [HeldBy EXCEPT ![c] = [HeldBy[c] EXCEPT ![owner] = HeldBy[c][owner] - k]]
  <2> HIDE DEF HeldBy
  <2> QED  BY <1>9, <1>10
<1>12. Supply[c] - Supply'[c] = k
  BY <1>1, <1>6, <1>8 DEF n
<1>13. HeldBy[c][owner] >= k
  <2>1. HeldBy[c][owner] = BalanceIn(accounts, owner, c)
    BY <1>2 DEF HeldBy, Held
  <2> HIDE DEF HeldBy
  <2> QED  BY <1>1, <1>3, <1>4, <2>1
<1>14. Supply' = [Supply EXCEPT ![c] = Supply[c] - k] /\ k > 0
       /\ signer' = Issuer[c] /\ owner = Issuer[c]
  BY <1>1, <1>8 DEF n, owner
<1>15. LedgerView!Burn(c, owner)
  <2> HIDE DEF MaxSupply, Issuer, Supply, HeldBy
  <2> QED  BY <1>8, <1>11, <1>12, <1>13, <1>14 DEF LedgerView!Burn
<1> QED
  BY <1>2, <1>15

LEMMA TransferMoves ==
  ASSUME Inv, NEW from \in Accounts, NEW to \in Names, NEW q \in Quantities, Transfer(from, to, q)
  PROVE  \E c \in Codes : LedgerView!Move(c, from, to)
<1> DEFINE c == q.symbol.code
           k == q.amount
<1>1. /\ from \in Names /\ from # to /\ k \in 1..MaxAmount
      /\ CanTransfer(accounts, from, to, q) /\ accounts' = Moved(accounts, from, to, q)
      /\ stat' = stat /\ signer' = from
      /\ CanSub(accounts, from, q)
  BY DEF Transfer, CanTransfer, GoodQuantity, IsValid, Quantities
<1>2. accounts \in Table
  BY DEF Inv, TypeOK, Table
<1>3. /\ c \in Codes
      /\ BalanceIn(accounts', from, c) = BalanceIn(accounts, from, c) - k
      /\ BalanceIn(accounts', to, c) = BalanceIn(accounts, to, c) + k
      /\ \A m \in Names, d \in Codes :
           <<m, d>> \notin {<<from, c>>, <<to, c>>} => accounts'[m][d] = accounts[m][d]
  BY <1>1, <1>2, MovedEffect
<1>4. BalanceIn(accounts, from, c) >= k /\ BalanceIn(accounts, from, c) \in Nat
  BY <1>1, <1>3 DEF CanSub, BalanceIn, Inv, TypeOK, Row
<1> HIDE DEF c, k
<1>5. \A m \in Names, d \in Codes : <<m, d>> \notin {<<from, c>>, <<to, c>>} =>
        BalanceIn(accounts', m, d) = BalanceIn(accounts, m, d)
  BY <1>3 DEF BalanceIn
<1>6. Supply' = Supply /\ MaxSupply' = MaxSupply /\ Issuer' = Issuer
  BY <1>1, SameStat DEF StatSeen
<1>7. HeldBy' = [HeldBy EXCEPT ![c] = HeldBy'[c]]
  BY <1>3, <1>5, HeldChange
<1>8. HeldBy'[c] = [HeldBy[c] EXCEPT ![from] = HeldBy[c][from] - k, ![to] = HeldBy[c][to] + k]
  <2> DEFINE f == HeldBy[c]
             g == HeldBy'[c]
  <2>1. f = [m \in Names |-> BalanceIn(accounts, m, c)] /\ g = [m \in Names |-> BalanceIn(accounts', m, c)]
    BY <1>3 DEF HeldBy, Held
  <2>2. \A m \in Names \ {from, to} : BalanceIn(accounts', m, c) = BalanceIn(accounts, m, c)
    BY <1>3, <1>5
  <2> HIDE DEF f, g
  <2>3. \A m \in Names : g[m] = IF m = from THEN f[m] - k ELSE IF m = to THEN f[m] + k ELSE f[m]
    BY <1>1, <1>3, <2>1, <2>2
  <2>4. g = [f EXCEPT ![from] = f[from] - k, ![to] = f[to] + k]
    BY <1>1, <2>1, <2>3
  <2> QED  BY <2>4 DEF f, g
<1>9. /\ HeldBy[c][from] - HeldBy'[c][from] = k /\ HeldBy[c][from] >= k
      /\ k > 0
  <2>1. HeldBy[c][from] = BalanceIn(accounts, from, c)
        /\ HeldBy'[c][from] = BalanceIn(accounts', from, c)
    BY <1>1, <1>3 DEF HeldBy, Held
  <2> HIDE DEF HeldBy
  <2> QED  BY <1>1, <1>3, <1>4, <2>1
<1>10. HeldBy' = [HeldBy EXCEPT ![c] = [HeldBy[c] EXCEPT ![from] = HeldBy[c][from] - k,
                                                          ![to] = HeldBy[c][to] + k]]
  <2> HIDE DEF HeldBy
  <2> QED  BY <1>7, <1>8
<1>11. LedgerView!Move(c, from, to)
  <2> HIDE DEF MaxSupply, Issuer, Supply, HeldBy
  <2> QED  BY <1>1, <1>6, <1>9, <1>10 DEF LedgerView!Move
<1> QED
  BY <1>3, <1>11

(***************************************************************************)
(* Opening and closing rows changes nothing a holder can see.              *)
(***************************************************************************)
LEMMA OpenSeen ==
  ASSUME Inv, NEW owner \in Names, NEW symbol \in Symbol, NEW payer \in Accounts,
         Open(owner, symbol, payer)
  PROVE  HeldBy' = HeldBy /\ stat' = stat
<1> DEFINE c == symbol.code
           row == [amount |-> 0, symbol |-> symbol]
<1>1. c \in Codes /\ row \in Row /\ row.amount = 0 /\ stat' = stat
  BY DEF Open, Symbol, Row
<1> HIDE DEF row
<1>2. CASE accounts[owner][c] = NoRow
  <2>1. accounts' = [accounts EXCEPT ![owner][c] = row]
    BY <1>2 DEF Open, row
  <2>2. /\ accounts'[owner][c] = row
        /\ \A m \in Names, d \in Codes : <<m, d>> # <<owner, c>> => accounts'[m][d] = accounts[m][d]
    BY <1>1, <2>1 DEF Inv, TypeOK
  <2>3. \A m \in Names, d \in Codes : BalanceIn(accounts', m, d) = BalanceIn(accounts, m, d)
    BY <1>1, <1>2, <2>2 DEF BalanceIn
  <2> QED  BY <1>1, <2>3, SameHeld
<1>3. CASE accounts[owner][c] # NoRow
  <2>1. accounts' = accounts
    BY <1>3 DEF Open
  <2> QED  BY <1>1, <2>1, SameHeld
<1> QED
  BY <1>2, <1>3

LEMMA CloseSeen ==
  ASSUME Inv, NEW owner \in Accounts, NEW c \in Codes, Close(owner, c)
  PROVE  HeldBy' = HeldBy /\ stat' = stat
<1>1. /\ owner \in Names /\ accounts[owner][c] # NoRow /\ accounts[owner][c].amount = 0
      /\ accounts' = [accounts EXCEPT ![owner][c] = NoRow] /\ stat' = stat
  BY DEF Close
<1>2. /\ accounts'[owner][c] = NoRow
      /\ \A m \in Names, d \in Codes : <<m, d>> # <<owner, c>> => accounts'[m][d] = accounts[m][d]
  BY <1>1 DEF Inv, TypeOK
<1>3. \A m \in Names, d \in Codes : BalanceIn(accounts', m, d) = BalanceIn(accounts, m, d)
  BY <1>1, <1>2 DEF BalanceIn
<1> QED
  BY <1>1, <1>3, SameHeld

LEMMA InitLedger == Init => LedgerView!Init
<1> SUFFICES ASSUME Init PROVE LedgerView!Init
  OBVIOUS
<1>1. HeldBy = [c \in Codes |-> [h \in Names |-> 0]]
  BY DEF Init, HeldBy, Held, BalanceIn
<1>2. /\ Supply = [c \in Codes |-> 0] /\ MaxSupply = [c \in Codes |-> 0]
      /\ Issuer = [c \in Codes |-> NoStat]
  BY DEF Init, Supply, MaxSupply, Issuer, Created
<1> QED
  BY <1>1, <1>2 DEF LedgerView!Init

LEMMA LedgerStep ==
  ASSUME Inv, Inv', [Next]_vars
  PROVE  [LedgerView!Next]_LedgerView!vars
<1>1. ASSUME NEW n \in Names, NEW q \in Quantities, Create(n, q) PROVE LedgerView!Next
  BY <1>1, CreateLaunches DEF LedgerView!Next
<1>2. ASSUME NEW n \in Names, NEW q \in Quantities, Issue(n, q) PROVE LedgerView!Next
  <2>1. TypeOK'
    BY DEF Inv
  <2> QED  BY <1>2, <2>1, IssueMints DEF LedgerView!Next
<1>3. ASSUME NEW q \in Quantities, Retire(q) PROVE LedgerView!Next
  BY <1>3, RetireBurns DEF LedgerView!Next
<1>4. ASSUME NEW from \in Accounts, NEW to \in Names, NEW q \in Quantities, Transfer(from, to, q)
      PROVE  LedgerView!Next
  <2>1. from \in Names
    OBVIOUS
  <2> QED  BY <1>4, <2>1, TransferMoves DEF LedgerView!Next
<1>5. ASSUME HeldBy' = HeldBy, stat' = stat PROVE UNCHANGED LedgerView!vars
  BY <1>5, SameStat DEF StatSeen, LedgerView!vars
<1>6. ASSUME NEW owner \in Names, NEW s \in Symbol, NEW payer \in Accounts, Open(owner, s, payer)
      PROVE  UNCHANGED LedgerView!vars
  BY <1>5, <1>6, OpenSeen
<1>7. ASSUME NEW owner \in Accounts, NEW c \in Codes, Close(owner, c)
      PROVE  UNCHANGED LedgerView!vars
  BY <1>5, <1>7, CloseSeen
<1>8. CASE UNCHANGED vars
  <2>1. HeldBy' = HeldBy /\ stat' = stat
    BY <1>8, SameHeld DEF vars
  <2> QED  BY <1>5, <2>1
<1> QED
  BY <1>1, <1>2, <1>3, <1>4, <1>6, <1>7, <1>8 DEF Next

(***************************************************************************)
(* The contract is a ledger: what its six actions do to its tables is, for *)
(* the holders, launching, minting, burning and moving, each by the right  *)
(* signature.                                                              *)
(***************************************************************************)
THEOREM KeepsALedger == Spec => IsALedger
<1>1. Spec => LedgerView!Init /\ [][LedgerView!Next]_LedgerView!vars
  BY InitInv, NextInv, InitLedger, LedgerStep, PTL DEF Spec
<1> QED
  BY <1>1 DEF IsALedger, LedgerView!Spec
=============================================================================
