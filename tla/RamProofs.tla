------------------------------ MODULE RamProofs ------------------------------
(***************************************************************************)
(* The RAM market can pay every seller, whatever is traded at whatever     *)
(* price, and its records of RAM, tokens and limits agree.                 *)
(***************************************************************************)
EXTENDS RamMarket, TotalProofs

(***************************************************************************)
(* Arithmetic the provers know, in the forms that are cited.               *)
(***************************************************************************)
LEMMA Floored ==
  ASSUME NEW a \in Nat, NEW c \in Nat \ {0}
  PROVE  a \div c \in Nat /\ (a \div c) * c <= a
OBVIOUS

LEMMA Scaled ==
  ASSUME NEW a \in Int, NEW b \in Int, NEW c \in Nat, a <= b
  PROVE  a * c <= b * c
OBVIOUS

LEMMA Cancelled ==
  ASSUME NEW a \in Int, NEW b \in Int, NEW c \in Nat \ {0}, a * c <= b * c
  PROVE  a <= b
OBVIOUS

USE PartiesAssumption, MarketAssumption, ArgumentsAssumption, SentinelAssumption

-----------------------------------------------------------------------------
(***************************************************************************)
(* There is a most RAMCORE that may be issued.                             *)
(***************************************************************************)
LEMMA IssuedIsRoot ==
  ASSUME NEW c \in Nat \ {0}, NEW in \in Nat
  PROVE  LET e == Issued(c, in)
         IN  e \in 0..Supply /\ (Supply + e) * (Supply + e) * (c + in) <= Supply * Supply * (c + 2 * in)
<1> DEFINE Fits(e) == (Supply + e) * (Supply + e) * (c + in) <= Supply * Supply * (c + 2 * in)
           Over(e) == (Supply + e + 1) * (Supply + e + 1) * (c + in) > Supply * Supply * (c + 2 * in)
           Most(e) == Fits(e) /\ (e < Supply => Over(e))
           T == {n \in 0..Supply : Fits(Supply - n)}
<1>1. Fits(0)
  <2>1. c + in <= c + 2 * in /\ c + in \in Nat /\ c + 2 * in \in Nat
    OBVIOUS
  <2> DEFINE s == Supply * Supply
  <2>2. s \in Nat
    OBVIOUS
  <2> HIDE DEF s
  <2>3. (c + in) * s <= (c + 2 * in) * s
    BY <2>1, <2>2, Scaled
  <2>4. s * (c + in) <= s * (c + 2 * in)
    BY <2>1, <2>2, <2>3
  <2>5. (Supply + 0) * (Supply + 0) = s
    BY DEF s
  <2> QED
    BY <2>4, <2>5 DEF s
<1>2. T \subseteq Nat /\ Supply \in T
  <2>1. Supply - Supply = 0 /\ Supply \in 0..Supply
    OBVIOUS
  <2> HIDE DEF Fits
  <2> QED
    BY <1>1, <2>1
<1>3. \A e \in 0..Supply : e < Supply => (~Fits(e + 1) => Over(e))
  OBVIOUS
<1> HIDE DEF Over
<1>4. PICK m \in T : \A n \in T : m <= n
  <2> HIDE DEF T
  <2> QED
    BY <1>2, LeastNatural
<1> DEFINE e == Supply - m
<1>5. m \in 0..Supply /\ Fits(e)
  BY <1>4
<1> HIDE DEF Fits
<1>6. e \in 0..Supply
  BY <1>5
<1>7. ASSUME e < Supply PROVE ~Fits(e + 1)
  <2> SUFFICES ASSUME Fits(e + 1) PROVE FALSE
    OBVIOUS
  <2>1. m - 1 \in 0..Supply /\ Supply - (m - 1) = e + 1
    BY <1>5, <1>7
  <2>2. m - 1 \in T
    BY <2>1
  <2> QED
    BY <1>4, <1>5, <2>2
<1>8. Most(e)
  BY <1>3, <1>5, <1>6, <1>7
<1>9. Issued(c, in) = CHOOSE x \in 0..Supply : Most(x)
  BY DEF Issued, Fits, Over
<1> HIDE DEF Most, e
<1>10. Issued(c, in) \in 0..Supply /\ Most(Issued(c, in))
  BY <1>6, <1>8, <1>9, Zenon
<1> QED
  BY <1>10 DEF Most, Fits

(***************************************************************************)
(* What a trade pays out is at most its part of the connector.             *)
(***************************************************************************)
LEMMA ConvertBound ==
  ASSUME NEW c \in Nat \ {0}, NEW d \in Nat, NEW in \in Nat
  PROVE  Convert(c, d, in) \in Nat /\ Convert(c, d, in) * (c + in) <= d * in
<1> DEFINE e == Issued(c, in)
           s == Supply * Supply
           r == (Supply + e) * (Supply + e)
           k == c + in
           g == r - s
           out == Convert(c, d, in)
<1>1. e \in 0..Supply /\ r * k <= s * (c + 2 * in)
  BY IssuedIsRoot
<1>2. s \in Nat \ {0} /\ k \in Nat \ {0}
  OBVIOUS
<1>3. r \in Nat /\ s <= r
  <2> HIDE DEF e
  <2> QED
    BY <1>1
<1>4. out = (d * g) \div s
  BY DEF Convert, Paid
<1> HIDE DEF e, s, r
<1>5. g \in Nat
  BY <1>2, <1>3
<1>6. g * k <= s * in
  <2>1. g * k = r * k - s * k
    BY <1>2, <1>3
  <2>2. s * (c + 2 * in) = s * k + s * in
    BY <1>2
  <2>3. r * k \in Int /\ s * k \in Int /\ s * in \in Int
    BY <1>2, <1>3
  <2> QED
    BY <1>1, <2>1, <2>2, <2>3
<1> HIDE DEF g, out
<1>7. d * g \in Nat
  BY <1>5
<1>8. out \in Nat /\ out * s <= d * g
  BY <1>2, <1>4, <1>7, Floored
<1>9. (out * s) * k <= (d * g) * k
  <2>1. out * s \in Int
    BY <1>2, <1>8
  <2> QED
    BY <1>2, <1>7, <1>8, <2>1, Scaled
<1>10. (g * k) * d <= (s * in) * d
  <2>1. g * k \in Int /\ s * in \in Int
    BY <1>2, <1>5
  <2> QED
    BY <1>6, <2>1, Scaled
<1>11. (out * k) * s <= (d * in) * s
  <2>1. (out * s) * k = (out * k) * s
    BY <1>2, <1>8
  <2>2. (d * g) * k = (g * k) * d
    BY <1>2, <1>5
  <2>3. (s * in) * d = (d * in) * s
    BY <1>2
  <2>4. (out * k) * s \in Int /\ (g * k) * d \in Int /\ (d * in) * s \in Int
    BY <1>2, <1>5, <1>8
  <2> QED
    BY <1>9, <1>10, <2>1, <2>2, <2>3, <2>4
<1>12. out * k \in Int /\ d * in \in Int
  BY <1>2, <1>8
<1>13. out * k <= d * in
  BY <1>2, <1>11, <1>12, Cancelled
<1> QED
  BY <1>8, <1>13 DEF out

(***************************************************************************)
(* A trade leaves something in the connector it is paid from, and the      *)
(* product of the connectors does not fall.                                *)
(***************************************************************************)
LEMMA TradeKeeps ==
  ASSUME NEW c \in Nat \ {0}, NEW d \in Nat \ {0}, NEW in \in Nat
  PROVE  LET out == Convert(c, d, in)
         IN  d - out \in Nat \ {0} /\ d * c <= (d - out) * (c + in)
<1> DEFINE out == Convert(c, d, in)
           k == c + in
<1>1. out \in Nat /\ out * k <= d * in
  BY ConvertBound
<1> HIDE DEF out
<1>2. d * k = d * c + d * in /\ d * c \in Nat \ {0} /\ d * in \in Nat /\ out * k \in Nat
  BY <1>1
<1>3. (d - out) * k = d * k - out * k
  BY <1>1
<1>4. d * c <= (d - out) * k
  BY <1>1, <1>2, <1>3
<1>5. ~(d <= out)
  <2> SUFFICES ASSUME d <= out PROVE FALSE
    OBVIOUS
  <2>1. k \in Nat /\ out \in Int /\ d \in Int
    BY <1>1
  <2> HIDE DEF k
  <2>2. (out - d) * k \in Nat /\ (out - d) * k = out * k - d * k
    BY <2>1
  <2> QED
    BY <1>1, <1>2, <2>1, <2>2
<1> QED
  BY <1>1, <1>4, <1>5 DEF out

-----------------------------------------------------------------------------
(***************************************************************************)
(* The inductive invariant.  The product of the connectors pays for all    *)
(* RAM there is at the first price: no trade lowers it, and added RAM      *)
(* raises it.  Who is no account yet has no row.                           *)
(***************************************************************************)
Funded == FirstQuote * max_ram_size <= base * quote

RowsOfAccounts == \A a \in Accounts \ accounts : ram_bytes[a] = NoRow

Inv == TypeOK /\ MarketAddsUp /\ LimitIsQuota /\ Funded /\ RowsOfAccounts

Reserved == Total([a \in Accounts |-> Owned(a)], Accounts) - Total([a \in Accounts |-> Owed(a)], Accounts)

Quota(a) == Grown(a, 0)

(***************************************************************************)
(* The sums follow the quota of one account.                               *)
(***************************************************************************)
LEMMA ReservedMoves ==
  ASSUME NEW a \in Accounts, NEW d \in Int,
         ram_bytes \in [Accounts -> Int \cup {NoRow}],
         ram_bytes' \in [Accounts -> Int \cup {NoRow}],
         \A b \in Accounts \ {a} : ram_bytes'[b] = ram_bytes[b],
         Quota(a)' = Quota(a) + d
  PROVE  Reserved' = Reserved + d
<1> DEFINE f == [b \in Accounts |-> Owned(b)]
           g == [b \in Accounts |-> Owed(b)]
           ff == [b \in Accounts |-> Owned(b)']
           gg == [b \in Accounts |-> Owed(b)']
           up == Owned(a)' - Owned(a)
           down == Owed(a)' - Owed(a)
<1>1. \A b \in Accounts : /\ Owned(b) \in Nat /\ Owed(b) \in Nat
                          /\ Owned(b)' \in Nat /\ Owed(b)' \in Nat
  BY DEF Owned, Owed
<1>2. \A b \in Accounts \ {a} : Owned(b)' = Owned(b) /\ Owed(b)' = Owed(b)
  BY DEF Owned, Owed
<1>3. Owned(a) - Owed(a) = Quota(a) /\ Owned(a)' - Owed(a)' = Quota(a)'
  BY DEF Owned, Owed, Quota, Grown
<1>4. up \in Int /\ down \in Int /\ up - down = d
  <2>1. Quota(a) \in Int
    BY DEF Quota, Grown
  <2> QED
    BY <1>1, <1>3, <2>1
<1>5. \A b \in Accounts : f[b] \in Nat /\ g[b] \in Nat /\ ff[b] \in Nat /\ gg[b] \in Nat
  BY <1>1
<1>6. \A b \in Accounts \ {a} : ff[b] = f[b] /\ gg[b] = g[b]
  BY <1>2
<1>7. ff[a] = f[a] + up /\ gg[a] = g[a] + down
  BY <1>1
<1>8. Reserved = Total(f, Accounts) - Total(g, Accounts)
  BY DEF Reserved
<1>9. Reserved' = Total(ff, Accounts) - Total(gg, Accounts)
  BY DEF Reserved
<1> HIDE DEF f, g, ff, gg, up, down
<1>10. Total(ff, Accounts) = Total(f, Accounts) + up
  BY <1>4, <1>5, <1>6, <1>7, TotalChange
<1>11. Total(gg, Accounts) = Total(g, Accounts) + down
  BY <1>4, <1>5, <1>6, <1>7, TotalChange
<1>12. Total(f, Accounts) \in Nat /\ Total(g, Accounts) \in Nat
  BY <1>5, TotalType
<1> QED
  BY <1>4, <1>8, <1>9, <1>10, <1>11, <1>12

(***************************************************************************)
(* What the invariant says of the market before a trade.                   *)
(***************************************************************************)
LEMMA GrownProduct ==
  ASSUME NEW b \in Nat, NEW q \in Nat, NEW m \in Nat, NEW n \in Nat,
         FirstQuote <= q, FirstQuote * m <= b * q
  PROVE  FirstQuote * (m + n) <= (b + n) * q
<1>1. FirstQuote * n <= q * n
  BY Scaled
<1>2. FirstQuote * (m + n) = FirstQuote * m + FirstQuote * n
  OBVIOUS
<1>3. (b + n) * q = b * q + q * n
  OBVIOUS
<1>4. FirstQuote * m \in Int /\ FirstQuote * n \in Int /\ b * q \in Int /\ q * n \in Int
  OBVIOUS
<1> QED
  BY <1>1, <1>2, <1>3, <1>4

LEMMA NewRamType ==
  ASSUME TypeOK
  PROVE  NewRam \in Nat
<1>1. now \in Nat /\ last_ram_increase \in Nat /\ new_ram_per_block \in Nat
  BY DEF TypeOK
<1>2. CASE now > last_ram_increase
  <2> DEFINE k == (now - last_ram_increase) * new_ram_per_block
  <2>1. k \in Nat
    <3>1. now - last_ram_increase \in Nat
      BY <1>1, <1>2
    <3> QED
      BY <1>1, <3>1
  <2>2. NewRam = k % Word
    BY <1>2 DEF NewRam
  <2> HIDE DEF k
  <2> QED
    BY <2>1, <2>2
<1>3. CASE ~(now > last_ram_increase)
  BY <1>3 DEF NewRam
<1> QED
  BY <1>2, <1>3

LEMMA MarketFacts ==
  ASSUME Inv
  PROVE  /\ base \in Nat \ {0} /\ quote \in Nat \ {0} /\ max_ram_size \in Nat
         /\ FirstQuote <= quote
         /\ NewRam \in Nat /\ UpdatedBase \in Nat \ {0} /\ UpdatedBase = base + NewRam
         /\ FirstQuote * (max_ram_size + NewRam) <= UpdatedBase * quote
         /\ total_ram_bytes_reserved = Reserved
         /\ base = max_ram_size - total_ram_bytes_reserved
         /\ quote = FirstQuote + total_ram_stake
         /\ pool = total_ram_stake
<1>1. base \in Nat \ {0} /\ quote \in Nat /\ max_ram_size \in Nat /\ total_ram_stake \in Nat
  BY DEF Inv, TypeOK
<1>2. /\ total_ram_bytes_reserved = Reserved
      /\ base = max_ram_size - total_ram_bytes_reserved
      /\ quote = FirstQuote + total_ram_stake
      /\ pool = total_ram_stake
  BY DEF Inv, MarketAddsUp, Reserved
<1>3. NewRam \in Nat
  BY NewRamType DEF Inv
<1>4. FirstQuote <= quote /\ quote \in Nat \ {0}
  BY <1>1, <1>2
<1>5. UpdatedBase = base + NewRam /\ UpdatedBase \in Nat \ {0}
  BY <1>1, <1>3 DEF UpdatedBase
<1>6. FirstQuote * max_ram_size <= base * quote
  BY DEF Inv, Funded
<1> HIDE DEF NewRam, UpdatedBase
<1>7. FirstQuote * (max_ram_size + NewRam) <= UpdatedBase * quote
  BY <1>1, <1>3, <1>4, <1>5, <1>6, GrownProduct
<1> QED
  BY <1>1, <1>2, <1>3, <1>4, <1>5, <1>7

(***************************************************************************)
(* The sums when quotas do not change, or those of one account.            *)
(***************************************************************************)
LEMMA ReservedStays ==
  ASSUME ram_bytes' = ram_bytes
  PROVE  Reserved' = Reserved
BY DEF Reserved, Owned, Owed

LEMMA ReservedIsInt ==
  ASSUME TypeOK
  PROVE  Reserved \in Int
<1> DEFINE f == [b \in Accounts |-> Owned(b)]
           g == [b \in Accounts |-> Owed(b)]
<1>1. \A b \in Accounts : f[b] \in Nat /\ g[b] \in Nat
  BY DEF TypeOK, Owned, Owed
<1>2. Reserved = Total(f, Accounts) - Total(g, Accounts)
  BY DEF Reserved
<1> HIDE DEF f, g
<1>3. Total(f, Accounts) \in Nat /\ Total(g, Accounts) \in Nat
  BY <1>1, TotalType
<1> QED
  BY <1>2, <1>3

-----------------------------------------------------------------------------
(***************************************************************************)
(* Buying and selling.                                                     *)
(***************************************************************************)
LEMMA FeeType ==
  ASSUME NEW n \in Nat
  PROVE  Spent(n) \in Nat /\ Spent(n) <= n /\ (n > 0 => Spent(n) < n)
BY DEF Fee, Spent

(***************************************************************************)
(* The two trades of buyramkbytes, the one that is only quoted and the one *)
(* that is made.                                                           *)
(***************************************************************************)
LEMMA PriceBound ==
  ASSUME Inv, NEW k \in Kilobytes
  PROVE  /\ k * Kilo \in Nat /\ Price(k) \in Nat
         /\ Price(k) * (base + k * Kilo) <= quote * (k * Kilo)
<1> DEFINE in == k * Kilo
<1>1. in \in Nat
  <2>1. k \in Nat
    OBVIOUS
  <2> QED
    BY <2>1
<1> HIDE DEF in
<1>2. Convert(base, quote, in) \in Nat /\ Convert(base, quote, in) * (base + in) <= quote * in
  BY <1>1, MarketFacts, ConvertBound
<1> QED
  BY <1>1, <1>2 DEF Price, in

LEMMA BoughtBound ==
  ASSUME Inv, NEW k \in Kilobytes
  PROVE  LET s == Spent(Price(k))
         IN  /\ s \in Nat /\ Bought(k) \in Nat
             /\ Bought(k) * (quote + s) <= UpdatedBase * s
             /\ UpdatedBase - Bought(k) \in Nat \ {0}
             /\ UpdatedBase * quote <= (UpdatedBase - Bought(k)) * (quote + s)
<1> DEFINE s == Spent(Price(k))
<1>1. s \in Nat
  BY PriceBound, FeeType
<1>2. Bought(k) = Convert(quote, UpdatedBase, s)
  BY DEF Bought
<1> HIDE DEF s
<1>3. /\ Convert(quote, UpdatedBase, s) \in Nat
      /\ Convert(quote, UpdatedBase, s) * (quote + s) <= UpdatedBase * s
  BY <1>1, MarketFacts, ConvertBound
<1>4. /\ UpdatedBase - Convert(quote, UpdatedBase, s) \in Nat \ {0}
      /\ UpdatedBase * quote <= (UpdatedBase - Convert(quote, UpdatedBase, s)) * (quote + s)
  BY <1>1, MarketFacts, TradeKeeps
<1> QED
  BY <1>1, <1>2, <1>3, <1>4 DEF s

LEMMA BuyKeepsInv ==
  ASSUME Inv, NEW payer \in Accounts, NEW receiver \in Accounts, NEW k \in Kilobytes,
         BuyRamKBytes(payer, receiver, k)
  PROVE  Inv'
<1> DEFINE quant == Price(k)
           spent == Spent(quant)
           bytes == Bought(k)
           held == Grown(receiver, bytes)
<1>2. quant \in Nat
  BY PriceBound
<1>3. /\ payer \in accounts /\ receiver \in accounts
      /\ spent > 0 /\ bytes > 0 /\ quant <= purse[payer]
      /\ max_ram_size' = max_ram_size + NewRam
      /\ base' = UpdatedBase - bytes
      /\ quote' = quote + spent
      /\ last_ram_increase' = now
      /\ total_ram_bytes_reserved' = total_ram_bytes_reserved + bytes
      /\ total_ram_stake' = total_ram_stake + spent
      /\ pool' = pool + spent
      /\ purse' = [purse EXCEPT ![payer] = purse[payer] - quant]
      /\ ram_bytes' = [ram_bytes EXCEPT ![receiver] = held]
      /\ limit' = Limited(receiver, held)
  BY DEF BuyRamKBytes
<1>4. /\ IF payer = Dropper THEN Drops(receiver, quant) ELSE UNCHANGED res_airdrop_ram
      /\ UNCHANGED <<now, accounts, new_ram_per_block, staked, res_airdrop_limit_ram_bytes, ram_managed>>
  BY DEF BuyRamKBytes
<1>5. spent \in Nat \ {0}
  <2>1. spent \in Nat
    BY BoughtBound
  <2> HIDE DEF spent
  <2> QED
    BY <1>3, <2>1
<1>6. bytes \in Nat /\ UpdatedBase - bytes \in Nat \ {0}
      /\ UpdatedBase * quote <= (UpdatedBase - bytes) * (quote + spent)
  BY BoughtBound
<1>7. Drops(receiver, quant) => res_airdrop_ram' \in [Accounts -> Nat \cup {NoDrop}]
  <2> DEFINE b == Convert(quote, UpdatedBase, quant)
  <2>1. b \in Nat
    <3> HIDE DEF quant
    <3> QED
      BY <1>2, MarketFacts, ConvertBound
  <2>2. Drops(receiver, quant) => res_airdrop_ram' = [res_airdrop_ram EXCEPT ![receiver] = b]
    BY DEF Drops
  <2> HIDE DEF b, quant
  <2> QED
    BY <2>1, <2>2 DEF Inv, TypeOK
<1> HIDE DEF quant, spent, bytes
<1>8. ram_bytes[receiver] \in Int \cup {NoRow} /\ held \in Int
  BY <1>6 DEF Inv, TypeOK, Grown
<1>9. Gift \in Int /\ limit' \in [Accounts -> Int]
  <2>1. Limited(receiver, held) \in [Accounts -> Int]
    <3> HIDE DEF held
    <3> QED
      BY <1>8 DEF Limited, Inv, TypeOK
  <2> QED
    BY <1>3, <2>1
<1>10. ram_bytes' \in [Accounts -> Int \cup {NoRow}]
       /\ ram_bytes'[receiver] = held
       /\ \A b \in Accounts \ {receiver} : ram_bytes'[b] = ram_bytes[b]
  <2> HIDE DEF held
  <2> QED
    BY <1>3, <1>8 DEF Inv, TypeOK
<1>11. Quota(receiver)' = Quota(receiver) + bytes
  BY <1>6, <1>8, <1>10 DEF Quota, Grown
<1>12. Reserved' = Reserved + bytes
  BY <1>6, <1>10, <1>11, ReservedMoves DEF Inv, TypeOK
<1>13. MarketAddsUp'
  <2>1. base' = max_ram_size' - total_ram_bytes_reserved'
    BY <1>3, <1>6, MarketFacts, ReservedIsInt DEF Inv
  <2>2. total_ram_bytes_reserved' = Reserved'
    BY <1>3, <1>12, MarketFacts
  <2>3. quote' = FirstQuote + total_ram_stake' /\ pool' = total_ram_stake'
    BY <1>3, <1>5, MarketFacts DEF Inv, TypeOK
  <2> QED
    BY <2>1, <2>2, <2>3 DEF MarketAddsUp, Reserved
<1>14. Funded'
  <2>1. FirstQuote * (max_ram_size + NewRam) <= UpdatedBase * quote
    BY MarketFacts
  <2>2. base' * quote' = (UpdatedBase - bytes) * (quote + spent)
    BY <1>3
  <2>3. FirstQuote * (max_ram_size + NewRam) \in Int /\ UpdatedBase * quote \in Int
        /\ (UpdatedBase - bytes) * (quote + spent) \in Int
    BY <1>5, <1>6, MarketFacts
  <2> QED
    BY <1>3, <1>6, <2>1, <2>2, <2>3 DEF Funded
<1>15. TypeOK'
  <2>1. purse' \in [Accounts -> Nat]
    <3>1. purse[payer] - quant \in Nat
      BY <1>2, <1>3 DEF Inv, TypeOK
    <3> QED
      BY <1>3, <3>1 DEF Inv, TypeOK
  <2>2. base' \in Nat \ {0} /\ quote' \in Nat /\ max_ram_size' \in Nat /\ total_ram_stake' \in Nat /\ pool' \in Nat
    BY <1>3, <1>5, <1>6, MarketFacts DEF Inv, TypeOK
  <2>3. total_ram_bytes_reserved' \in Int /\ last_ram_increase' \in 0..now'
    BY <1>3, <1>4, <1>6 DEF Inv, TypeOK
  <2>4. res_airdrop_ram' \in [Accounts -> Nat \cup {NoDrop}]
    BY <1>4, <1>7 DEF Inv, TypeOK
  <2> QED
    BY <1>4, <1>9, <1>10, <2>1, <2>2, <2>3, <2>4 DEF Inv, TypeOK
<1>16. LimitIsQuota'
  <2> SUFFICES ASSUME NEW a \in accounts \ ram_managed, ram_bytes'[a] \notin {NoRow, 0}
               PROVE  limit'[a] = ram_bytes'[a] + Gift
    BY <1>4 DEF LimitIsQuota
  <2>1. a \in Accounts
    BY DEF Inv, TypeOK
  <2>2. CASE a = receiver
    <3>1. limit' = [limit EXCEPT ![receiver] = held + Gift]
      BY <1>3, <2>2 DEF Limited
    <3> HIDE DEF held
    <3> QED
      BY <1>10, <2>1, <2>2, <3>1 DEF Inv, TypeOK
  <2>3. CASE a # receiver
    <3>1. limit'[a] = limit[a]
      <4> HIDE DEF held
      <4> QED
        BY <1>3, <2>1, <2>3 DEF Limited, Inv, TypeOK
    <3>2. ram_bytes'[a] = ram_bytes[a]
      BY <1>10, <2>1, <2>3
    <3> QED
      BY <3>1, <3>2 DEF Inv, LimitIsQuota
  <2> QED
    BY <2>2, <2>3
<1>17. RowsOfAccounts'
  BY <1>3, <1>4, <1>10 DEF Inv, RowsOfAccounts
<1> QED
  BY <1>13, <1>14, <1>15, <1>16, <1>17 DEF Inv

LEMMA SellKeepsInv ==
  ASSUME Inv, NEW a \in Accounts, NEW k \in Kilobytes, SellRam(a, k)
  PROVE  Inv'
<1> DEFINE bytes == k * Kilo
           out == Convert(UpdatedBase, quote, bytes)
           held == ram_bytes[a] - bytes
<1>1. bytes \in Nat
  <2>1. k \in Nat
    OBVIOUS
  <2> QED
    BY <2>1
<1>2. /\ ram_bytes[a] # NoRow
      /\ total_ram_stake >= out /\ pool >= out /\ out > 1
      /\ max_ram_size' = max_ram_size + NewRam
      /\ base' = UpdatedBase + bytes
      /\ quote' = quote - out
      /\ last_ram_increase' = now
      /\ total_ram_bytes_reserved' = total_ram_bytes_reserved - bytes
      /\ total_ram_stake' = total_ram_stake - out
      /\ pool' = pool - out
      /\ purse' = [purse EXCEPT ![a] = purse[a] + out - Fee(out)]
      /\ ram_bytes' = [ram_bytes EXCEPT ![a] = held]
      /\ limit' = Limited(a, held)
  BY DEF SellRam
<1>3. UNCHANGED <<now, accounts, new_ram_per_block, staked, drops, ram_managed>>
  BY DEF SellRam
<1>4. out \in Nat /\ quote - out \in Nat \ {0}
      /\ quote * UpdatedBase <= (quote - out) * (UpdatedBase + bytes)
  <2> HIDE DEF bytes
  <2> QED
    BY <1>1, MarketFacts, ConvertBound, TradeKeeps
<1>5. Fee(out) \in Nat /\ Fee(out) <= out
  <2> HIDE DEF out
  <2> QED
    BY <1>2, <1>4 DEF Fee
<1> HIDE DEF bytes, out
<1>6. ram_bytes[a] \in Int /\ held \in Int
  BY <1>1, <1>2 DEF Inv, TypeOK
<1>7. Gift \in Int /\ limit' \in [Accounts -> Int]
  <2>1. Limited(a, held) \in [Accounts -> Int]
    <3> HIDE DEF held
    <3> QED
      BY <1>6 DEF Limited, Inv, TypeOK
  <2> QED
    BY <1>2, <2>1
<1>8. ram_bytes' \in [Accounts -> Int \cup {NoRow}]
       /\ ram_bytes'[a] = held
       /\ \A b \in Accounts \ {a} : ram_bytes'[b] = ram_bytes[b]
  <2> HIDE DEF held
  <2> QED
    BY <1>2, <1>6 DEF Inv, TypeOK
<1>9. Quota(a)' = Quota(a) + (-bytes)
  BY <1>1, <1>6, <1>8 DEF Quota, Grown
<1>10. Reserved' = Reserved + (-bytes)
  <2>1. -bytes \in Int
    BY <1>1
  <2> QED
    BY <2>1, <1>8, <1>9, ReservedMoves DEF Inv, TypeOK
<1>11. MarketAddsUp'
  <2>1. base' = max_ram_size' - total_ram_bytes_reserved'
    BY <1>1, <1>2, MarketFacts, ReservedIsInt DEF Inv
  <2>2. total_ram_bytes_reserved' = Reserved'
    BY <1>1, <1>2, <1>10, MarketFacts, ReservedIsInt DEF Inv
  <2>3. quote' = FirstQuote + total_ram_stake' /\ pool' = total_ram_stake'
    BY <1>2, <1>4, MarketFacts DEF Inv, TypeOK
  <2> QED
    BY <2>1, <2>2, <2>3 DEF MarketAddsUp, Reserved
<1>12. Funded'
  <2>1. FirstQuote * (max_ram_size + NewRam) <= UpdatedBase * quote
    BY MarketFacts
  <2>2. base' * quote' = (quote - out) * (UpdatedBase + bytes) /\ UpdatedBase * quote = quote * UpdatedBase
    BY <1>1, <1>2, <1>4, MarketFacts
  <2>3. FirstQuote * (max_ram_size + NewRam) \in Int /\ UpdatedBase * quote \in Int
        /\ (quote - out) * (UpdatedBase + bytes) \in Int
    BY <1>1, <1>4, MarketFacts
  <2> QED
    BY <1>2, <1>4, <2>1, <2>2, <2>3 DEF Funded
<1>13. TypeOK'
  <2>1. purse' \in [Accounts -> Nat]
    <3>1. purse[a] + out - Fee(out) \in Nat
      BY <1>4, <1>5 DEF Inv, TypeOK
    <3> QED
      BY <1>2, <3>1 DEF Inv, TypeOK
  <2>2. base' \in Nat \ {0} /\ quote' \in Nat /\ max_ram_size' \in Nat /\ total_ram_stake' \in Nat /\ pool' \in Nat
    BY <1>1, <1>2, <1>4, MarketFacts DEF Inv, TypeOK
  <2>3. total_ram_bytes_reserved' \in Int /\ last_ram_increase' \in 0..now'
    BY <1>1, <1>2, <1>3 DEF Inv, TypeOK
  <2> QED
    BY <1>3, <1>7, <1>8, <2>1, <2>2, <2>3 DEF Inv, TypeOK, drops
<1>14. LimitIsQuota'
  <2> SUFFICES ASSUME NEW b \in accounts \ ram_managed, ram_bytes'[b] \notin {NoRow, 0}
               PROVE  limit'[b] = ram_bytes'[b] + Gift
    BY <1>3 DEF LimitIsQuota
  <2>1. b \in Accounts
    BY DEF Inv, TypeOK
  <2>2. CASE b = a
    <3>1. limit' = [limit EXCEPT ![a] = held + Gift]
      BY <1>2, <2>2 DEF Limited
    <3> HIDE DEF held
    <3> QED
      BY <1>8, <2>1, <2>2, <3>1 DEF Inv, TypeOK
  <2>3. CASE b # a
    <3>1. limit'[b] = limit[b]
      <4> HIDE DEF held
      <4> QED
        BY <1>2, <2>1, <2>3 DEF Limited, Inv, TypeOK
    <3>2. ram_bytes'[b] = ram_bytes[b]
      BY <1>8, <2>1, <2>3
    <3> QED
      BY <3>1, <3>2 DEF Inv, LimitIsQuota
  <2> QED
    BY <2>2, <2>3
<1>15. RowsOfAccounts'
  BY <1>2, <1>3, <1>8 DEF Inv, RowsOfAccounts
<1> QED
  BY <1>11, <1>12, <1>13, <1>14, <1>15 DEF Inv

(***************************************************************************)
(* More RAM: by setram, and by the growth that setramrate brings up to     *)
(* date.                                                                   *)
(***************************************************************************)
LEMMA SetRamKeepsInv ==
  ASSUME Inv, NEW n \in Sizes, SetRam(n)
  PROVE  Inv'
<1> DEFINE d == n - max_ram_size
<1>1. d \in Nat /\ n \in Nat /\ n = max_ram_size + d
  BY DEF SetRam, Inv, TypeOK
<1>2. max_ram_size' = n /\ base' = base + d
  BY <1>1, MarketFacts DEF SetRam, Added
<1>3. UNCHANGED <<now, accounts, quote, total_ram_bytes_reserved, total_ram_stake, pool, purse, growth,
                  ram_bytes, staked, drops, ram_managed, limit>>
  BY DEF SetRam
<1> HIDE DEF d
<1>4. FirstQuote * n <= (base + d) * quote
  <2>1. FirstQuote * max_ram_size <= base * quote
    BY DEF Inv, Funded
  <2> QED
    BY <1>1, <2>1, MarketFacts, GrownProduct
<1>5. Funded'
  BY <1>2, <1>3, <1>4 DEF Funded
<1>6. TypeOK'
  BY <1>1, <1>2, <1>3 DEF Inv, TypeOK, growth, drops
<1>7. MarketAddsUp'
  <2>1. base' = max_ram_size' - total_ram_bytes_reserved'
    BY <1>1, <1>2, <1>3, MarketFacts, ReservedIsInt DEF Inv
  <2> QED
    BY <1>3, <2>1, MarketFacts, ReservedStays DEF MarketAddsUp, Reserved
<1>8. LimitIsQuota'
  BY <1>3 DEF Inv, LimitIsQuota
<1>9. RowsOfAccounts'
  BY <1>3 DEF Inv, RowsOfAccounts
<1> QED
  BY <1>5, <1>6, <1>7, <1>8, <1>9 DEF Inv

LEMMA SetRamRateKeepsInv ==
  ASSUME Inv, NEW r \in Rates, SetRamRate(r)
  PROVE  Inv'
<1>1. /\ max_ram_size' = max_ram_size + NewRam /\ base' = UpdatedBase
      /\ last_ram_increase' = now /\ new_ram_per_block' = r
      /\ UNCHANGED <<now, accounts, quote, total_ram_bytes_reserved, total_ram_stake, pool, purse,
                     ram_bytes, staked, drops, ram_managed, limit>>
  BY DEF SetRamRate
<1>2. Funded'
  BY <1>1, MarketFacts DEF Funded
<1>3. TypeOK'
  <2>1. base' \in Nat \ {0} /\ max_ram_size' \in Nat /\ new_ram_per_block' \in Nat /\ last_ram_increase' \in 0..now'
    BY <1>1, MarketFacts DEF Inv, TypeOK
  <2> QED
    BY <1>1, <2>1 DEF Inv, TypeOK, drops
<1>4. MarketAddsUp'
  <2>1. base' = max_ram_size' - total_ram_bytes_reserved'
    BY <1>1, MarketFacts, ReservedIsInt DEF Inv
  <2> QED
    BY <1>1, <2>1, MarketFacts, ReservedStays DEF MarketAddsUp, Reserved
<1>5. LimitIsQuota'
  BY <1>1 DEF Inv, LimitIsQuota
<1>6. RowsOfAccounts'
  BY <1>1 DEF Inv, RowsOfAccounts
<1> QED
  BY <1>2, <1>3, <1>4, <1>5, <1>6 DEF Inv

(***************************************************************************)
(* Steps that leave the market alone and change at most one row, whose     *)
(* quota stays: opening and dropping rows, staking, setting limits.        *)
(***************************************************************************)
LEMMA QuotasStay ==
  ASSUME Inv, NEW a \in Accounts, UNCHANGED market,
         ram_bytes' \in [Accounts -> Int \cup {NoRow}],
         \A b \in Accounts \ {a} : ram_bytes'[b] = ram_bytes[b],
         Quota(a)' = Quota(a)
  PROVE  MarketAddsUp' /\ Funded'
<1>1. UNCHANGED <<base, quote, max_ram_size, total_ram_bytes_reserved, total_ram_stake, pool>>
  BY DEF market
<1>2. ram_bytes \in [Accounts -> Int \cup {NoRow}] /\ Quota(a) \in Int
  BY DEF Inv, TypeOK, Quota, Grown
<1>3. Quota(a)' = Quota(a) + 0
  BY <1>2
<1>4. Reserved' = Reserved + 0
  BY <1>2, <1>3, ReservedMoves
<1>5. Reserved' = Reserved
  BY <1>4, ReservedIsInt DEF Inv
<1>6. total_ram_bytes_reserved' = Reserved'
  BY <1>1, <1>5, MarketFacts
<1> QED
  BY <1>1, <1>6, MarketFacts DEF MarketAddsUp, Reserved, Inv, Funded

LEMMA NewAccountKeepsInv ==
  ASSUME Inv, NEW a \in Accounts, NEW dropped \in BOOLEAN, NewAccount(a, dropped)
  PROVE  Inv'
<1>1. /\ a \notin accounts /\ accounts' = accounts \cup {a}
      /\ ram_bytes' = [ram_bytes EXCEPT ![a] = 0]
      /\ limit' = [limit EXCEPT ![a] = 0]
      /\ res_airdrop_ram' = IF dropped THEN [res_airdrop_ram EXCEPT ![a] = 0] ELSE res_airdrop_ram
      /\ UNCHANGED market
      /\ UNCHANGED <<now, growth, staked, res_airdrop_limit_ram_bytes, ram_managed>>
  BY DEF NewAccount
<1>2. ram_bytes[a] = NoRow
  BY <1>1 DEF Inv, RowsOfAccounts
<1>3. /\ ram_bytes' \in [Accounts -> Int \cup {NoRow}]
      /\ \A b \in Accounts \ {a} : ram_bytes'[b] = ram_bytes[b]
      /\ Quota(a)' = Quota(a)
  BY <1>1, <1>2 DEF Inv, TypeOK, Quota, Grown
<1>4. MarketAddsUp' /\ Funded'
  BY <1>1, <1>3, QuotasStay
<1>5. TypeOK'
  BY <1>1, <1>3 DEF Inv, TypeOK, market, growth
<1>6. LimitIsQuota'
  BY <1>1 DEF Inv, TypeOK, LimitIsQuota
<1>7. RowsOfAccounts'
  BY <1>1 DEF Inv, TypeOK, RowsOfAccounts
<1> QED
  BY <1>4, <1>5, <1>6, <1>7 DEF Inv

LEMMA ChangeBwKeepsInv ==
  ASSUME Inv, NEW a \in Accounts, NEW some \in BOOLEAN, NEW managed \in BOOLEAN, ChangeBw(a, some, managed)
  PROVE  Inv'
<1> DEFINE row == IF ~some /\ Grown(a, 0) = 0 THEN NoRow ELSE Grown(a, 0)
           raised == [limit EXCEPT ![a] = Grown(a, 0) + Gift]
<1>1. /\ a \in accounts
      /\ staked' = IF some THEN staked \cup {a} ELSE staked \ {a}
      /\ ram_bytes' = [ram_bytes EXCEPT ![a] = row]
      /\ limit' = IF managed \/ a \in ram_managed \/ limit[a] >= Grown(a, 0) + Gift THEN limit ELSE raised
      /\ UNCHANGED market
      /\ UNCHANGED <<now, accounts, growth, drops, ram_managed>>
  BY DEF ChangeBw
<1>2. Grown(a, 0) \in Int /\ (ram_bytes[a] # NoRow => Grown(a, 0) = ram_bytes[a])
      /\ (ram_bytes[a] = NoRow => Grown(a, 0) = 0)
  BY DEF Inv, TypeOK, Grown
<1>3. row \in Int \cup {NoRow} /\ (row # NoRow => row = Grown(a, 0)) /\ (row = NoRow => Grown(a, 0) = 0)
  BY <1>2
<1>4. limit' \in [Accounts -> Int] /\ \A b \in Accounts \ {a} : limit'[b] = limit[b]
  BY <1>1, <1>2 DEF Inv, TypeOK
<1> HIDE DEF row
<1>5. /\ ram_bytes' \in [Accounts -> Int \cup {NoRow}]
      /\ \A b \in Accounts \ {a} : ram_bytes'[b] = ram_bytes[b]
      /\ ram_bytes'[a] = row
  BY <1>1, <1>3 DEF Inv, TypeOK
<1>6. Quota(a)' = Quota(a)
  BY <1>2, <1>3, <1>5 DEF Quota, Grown
<1>7. MarketAddsUp' /\ Funded'
  BY <1>1, <1>5, <1>6, QuotasStay
<1>8. TypeOK'
  BY <1>1, <1>4, <1>5 DEF Inv, TypeOK, market, growth, drops
<1>9. LimitIsQuota'
  <2> SUFFICES ASSUME NEW b \in accounts \ ram_managed, ram_bytes'[b] \notin {NoRow, 0}
               PROVE  limit'[b] = ram_bytes'[b] + Gift
    BY <1>1 DEF LimitIsQuota
  <2>1. b \in Accounts
    BY DEF Inv, TypeOK
  <2>2. CASE b = a
    <3>1. ram_bytes[a] # NoRow /\ ram_bytes[a] = ram_bytes'[a] /\ Grown(a, 0) = ram_bytes[a]
      BY <1>2, <1>3, <1>5, <2>2
    <3>2. limit[a] = Grown(a, 0) + Gift
      BY <2>2, <3>1 DEF Inv, LimitIsQuota
    <3> QED
      BY <1>1, <1>2, <2>2, <3>1, <3>2 DEF Inv, TypeOK
  <2>3. CASE b # a
    BY <1>4, <1>5, <2>1, <2>3 DEF Inv, LimitIsQuota
  <2> QED
    BY <2>2, <2>3
<1>10. RowsOfAccounts'
  BY <1>1, <1>5 DEF Inv, RowsOfAccounts
<1> QED
  BY <1>7, <1>8, <1>9, <1>10 DEF Inv

LEMMA ManageRamKeepsInv ==
  ASSUME Inv, NEW a \in Accounts, NEW n \in Limits, ManageRam(a, n)
  PROVE  Inv'
<1>1. /\ a \in accounts /\ ram_managed' = ram_managed \cup {a} /\ limit' = [limit EXCEPT ![a] = n]
      /\ UNCHANGED market /\ ram_bytes' = ram_bytes
      /\ UNCHANGED <<now, accounts, growth, staked, drops>>
  BY DEF ManageRam
<1>2. MarketAddsUp' /\ Funded'
  BY <1>1, QuotasStay DEF Inv, TypeOK, Quota, Grown
<1>3. n \in Int
  OBVIOUS
<1>4. TypeOK'
  BY <1>1, <1>3 DEF Inv, TypeOK, market, growth, drops
<1>5. LimitIsQuota' /\ RowsOfAccounts'
  BY <1>1 DEF Inv, TypeOK, LimitIsQuota, RowsOfAccounts
<1> QED
  BY <1>2, <1>4, <1>5 DEF Inv

LEMMA ReleaseRamKeepsInv ==
  ASSUME Inv, NEW a \in Accounts, ReleaseRam(a)
  PROVE  Inv'
<1>1. /\ a \in ram_managed /\ ram_managed' = ram_managed \ {a}
      /\ limit' = [limit EXCEPT ![a] = Gift + Grown(a, 0)]
      /\ UNCHANGED market /\ ram_bytes' = ram_bytes
      /\ UNCHANGED <<now, accounts, growth, staked, drops>>
  BY DEF ReleaseRam, Released
<1>2. MarketAddsUp' /\ Funded'
  BY <1>1, QuotasStay DEF Inv, TypeOK, Quota, Grown
<1>3. Grown(a, 0) \in Int /\ (ram_bytes[a] # NoRow => Grown(a, 0) = ram_bytes[a])
  BY DEF Inv, TypeOK, Grown
<1>4. TypeOK'
  BY <1>1, <1>3 DEF Inv, TypeOK, market, growth, drops
<1>5. LimitIsQuota' /\ RowsOfAccounts'
  BY <1>1, <1>3 DEF Inv, TypeOK, LimitIsQuota, RowsOfAccounts
<1> QED
  BY <1>2, <1>4, <1>5 DEF Inv

LEMMA SetALimitsKeepsInv ==
  ASSUME Inv, NEW a \in Accounts, NEW n \in Limits, SetALimits(a, n)
  PROVE  Inv'
<1>1. /\ ram_bytes[a] = NoRow /\ limit' = [limit EXCEPT ![a] = n]
      /\ UNCHANGED market /\ ram_bytes' = ram_bytes
      /\ UNCHANGED <<now, accounts, growth, staked, drops, ram_managed>>
  BY DEF SetALimits
<1>2. MarketAddsUp' /\ Funded'
  BY <1>1, QuotasStay DEF Inv, TypeOK, Quota, Grown
<1>3. n \in Int
  OBVIOUS
<1>4. TypeOK'
  BY <1>1, <1>3 DEF Inv, TypeOK, market, growth, drops
<1>5. LimitIsQuota' /\ RowsOfAccounts'
  BY <1>1 DEF Inv, TypeOK, LimitIsQuota, RowsOfAccounts
<1> QED
  BY <1>2, <1>4, <1>5 DEF Inv

(***************************************************************************)
(* The clock, the limit of the airdrop, and steps of nothing.              *)
(***************************************************************************)
LEMMA QuietKeepsInv ==
  ASSUME Inv, \/ Tick
              \/ \E n \in Limits : SetResAdCfg(n)
              \/ UNCHANGED vars
  PROVE  Inv'
<1>1. /\ UNCHANGED market /\ ram_bytes' = ram_bytes
      /\ UNCHANGED <<accounts, growth, staked, res_airdrop_ram, ram_managed, limit>>
  BY DEF Tick, SetResAdCfg, vars, drops
<1>2. now' \in 0..MaxTime /\ now <= now' /\ res_airdrop_limit_ram_bytes' \in Nat
  BY DEF Tick, SetResAdCfg, vars, drops, Inv, TypeOK
<1>3. MarketAddsUp' /\ Funded'
  BY <1>1, MarketFacts, ReservedStays DEF Inv, MarketAddsUp, Reserved, Funded, market
<1>4. TypeOK'
  BY <1>1, <1>2 DEF Inv, TypeOK, market, growth
<1>5. LimitIsQuota' /\ RowsOfAccounts'
  BY <1>1 DEF Inv, LimitIsQuota, RowsOfAccounts
<1> QED
  BY <1>3, <1>4, <1>5 DEF Inv

-----------------------------------------------------------------------------
LEMMA InitInv ==
  ASSUME Init
  PROVE  Inv
<1>1. /\ base = FirstRam /\ max_ram_size = FirstRam /\ total_ram_bytes_reserved = 0
      /\ quote = FirstQuote /\ total_ram_stake = 0 /\ pool = 0
      /\ ram_bytes = [a \in Accounts |-> NoRow]
      /\ limit = [a \in Accounts |-> IF a \in Genesis THEN -1 ELSE 0]
  BY DEF Init
<1>2. Total([a \in Accounts |-> Owned(a)], Accounts) = 0
  <2> DEFINE f == [a \in Accounts |-> Owned(a)]
  <2>1. \A a \in Accounts : f[a] = 0
    BY <1>1 DEF Owned
  <2> HIDE DEF f
  <2>2. Total(f, Accounts) = 0
    BY <2>1, TotalZero
  <2> QED
    BY <2>2 DEF f
<1>3. Total([a \in Accounts |-> Owed(a)], Accounts) = 0
  <2> DEFINE f == [a \in Accounts |-> Owed(a)]
  <2>1. \A a \in Accounts : f[a] = 0
    BY <1>1 DEF Owed
  <2> HIDE DEF f
  <2>2. Total(f, Accounts) = 0
    BY <2>1, TotalZero
  <2> QED
    BY <2>2 DEF f
<1>4. MarketAddsUp
  BY <1>1, <1>2, <1>3 DEF MarketAddsUp
<1>5. Funded
  <2>1. FirstQuote * FirstRam = FirstRam * FirstQuote /\ FirstRam * FirstQuote \in Nat
    OBVIOUS
  <2> QED
    BY <1>1, <2>1 DEF Funded
<1>6. TypeOK
  BY DEF Init, TypeOK
<1>7. LimitIsQuota /\ RowsOfAccounts
  BY <1>1, <1>6 DEF TypeOK, LimitIsQuota, RowsOfAccounts
<1> QED
  BY <1>4, <1>5, <1>6, <1>7 DEF Inv

LEMMA NextInv ==
  ASSUME Inv, [Next]_vars
  PROVE  Inv'
<1>1. CASE \E p, a \in Accounts, k \in Kilobytes : BuyRamKBytes(p, a, k)
  BY <1>1, BuyKeepsInv
<1>2. CASE \E a \in Accounts, k \in Kilobytes : SellRam(a, k)
  BY <1>2, SellKeepsInv
<1>3. CASE \E n \in Sizes : SetRam(n)
  BY <1>3, SetRamKeepsInv
<1>4. CASE \E r \in Rates : SetRamRate(r)
  BY <1>4, SetRamRateKeepsInv
<1>5. CASE \E a \in Accounts, dropped \in BOOLEAN : NewAccount(a, dropped)
  BY <1>5, NewAccountKeepsInv
<1>6. CASE \E a \in Accounts, some, managed \in BOOLEAN : ChangeBw(a, some, managed)
  BY <1>6, ChangeBwKeepsInv
<1>7. CASE \E a \in Accounts, n \in Limits : ManageRam(a, n)
  BY <1>7, ManageRamKeepsInv
<1>8. CASE \E a \in Accounts : ReleaseRam(a)
  BY <1>8, ReleaseRamKeepsInv
<1>9. CASE \E a \in Accounts, n \in Limits : SetALimits(a, n)
  BY <1>9, SetALimitsKeepsInv
<1>10. CASE Tick \/ (\E n \in Limits : SetResAdCfg(n)) \/ UNCHANGED vars
  BY <1>10, QuietKeepsInv
<1> QED
  BY <1>1, <1>2, <1>3, <1>4, <1>5, <1>6, <1>7, <1>8, <1>9, <1>10 DEF Next

(***************************************************************************)
(* The inductive invariant always holds, whoever trades, stakes or sets    *)
(* limits.                                                                 *)
(***************************************************************************)
THEOREM Invariance == Spec => []Inv
<1>1. Init => Inv
  BY InitInv
<1>2. Inv /\ [Next]_vars => Inv'
  BY NextInv
<1> QED
  BY <1>1, <1>2, PTL DEF Spec

(***************************************************************************)
(* The tokens that were paid for RAM cover every sale of reserved RAM.     *)
(***************************************************************************)
LEMMA StakeCoversSales ==
  ASSUME Inv
  PROVE  SellersGetPaid
<1> SUFFICES ASSUME NEW bytes \in 1..total_ram_bytes_reserved
             PROVE  Convert(UpdatedBase, quote, bytes) <= total_ram_stake
  BY DEF SellersGetPaid
<1> DEFINE out == Convert(UpdatedBase, quote, bytes)
           k == UpdatedBase + bytes
           m == max_ram_size + NewRam
<1>1. bytes \in Nat /\ total_ram_bytes_reserved \in Int /\ total_ram_stake \in Nat
  BY DEF Inv, TypeOK
<1>2. out \in Nat /\ out * k <= quote * bytes
  BY <1>1, MarketFacts, ConvertBound
<1>3. k \in Nat \ {0} /\ m \in Nat /\ k <= m
  BY <1>1, MarketFacts
<1>4. FirstQuote * m <= UpdatedBase * quote
  BY MarketFacts
<1>5. quote * k = UpdatedBase * quote + quote * bytes
  BY <1>1, MarketFacts
<1> HIDE DEF out, k, m
<1>6. FirstQuote * k <= FirstQuote * m
  <2>1. FirstQuote * m = FirstQuote * k + FirstQuote * (m - k) /\ FirstQuote * (m - k) \in Nat
    BY <1>3
  <2>2. FirstQuote * k \in Int
    BY <1>3
  <2> QED
    BY <2>1, <2>2
<1>7. total_ram_stake * k = quote * k - FirstQuote * k
  BY <1>1, <1>3, MarketFacts
<1>8. out * k <= total_ram_stake * k
  <2>1. /\ FirstQuote * k \in Int /\ FirstQuote * m \in Int /\ quote * k \in Int /\ UpdatedBase * quote \in Int
        /\ quote * bytes \in Int /\ out * k \in Int
    BY <1>1, <1>2, <1>3, MarketFacts
  <2> QED
    BY <1>2, <1>4, <1>5, <1>6, <1>7, <2>1
<1> QED
  BY <1>1, <1>2, <1>3, <1>8, Cancelled DEF out

(***************************************************************************)
(* TypeOK always holds: however much is traded, neither connector is ever  *)
(* empty, and no balance is negative.                                      *)
(***************************************************************************)
THEOREM TypeCorrect == Spec => []TypeOK
BY Invariance, PTL DEF Inv

(***************************************************************************)
(* MarketAddsUp always holds: the records of RAM and of the tokens paid    *)
(* for it agree after trades, growth, airdrops and new accounts.           *)
(***************************************************************************)
THEOREM RecordsAgree == Spec => []MarketAddsUp
BY Invariance, PTL DEF Inv

(***************************************************************************)
(* SellersGetPaid always holds: update_ram_supply and convert leave enough *)
(* tokens to pay whoever sells reserved RAM.                               *)
(***************************************************************************)
THEOREM MarketIsSolvent == Spec => []SellersGetPaid
<1>1. Inv => SellersGetPaid
  BY StakeCoversSales
<1> QED
  BY <1>1, Invariance, PTL

(***************************************************************************)
(* LimitIsQuota always holds: trades, staking and the operators leave an   *)
(* account that owns RAM and is not managed the limit of its quota.        *)
(***************************************************************************)
THEOREM LimitsFollowQuota == Spec => []LimitIsQuota
BY Invariance, PTL DEF Inv

-----------------------------------------------------------------------------
(***************************************************************************)
(* No step lowers the product of the connectors.                           *)
(***************************************************************************)
LEMMA GrowthKeeps ==
  ASSUME Inv, NEW x, UpdatedBase * quote <= x, x \in Int
  PROVE  base * quote <= x
<1>1. /\ base \in Nat /\ quote \in Nat /\ NewRam \in Nat /\ UpdatedBase = base + NewRam
  BY MarketFacts
<1>2. UpdatedBase * quote = base * quote + NewRam * quote /\ NewRam * quote \in Nat /\ base * quote \in Nat
  BY <1>1
<1> QED
  BY <1>2

LEMMA ProductStep == Inv /\ [Next]_vars => base * quote <= base' * quote'
<1> SUFFICES ASSUME Inv, [Next]_vars
             PROVE  base * quote <= base' * quote'
  OBVIOUS
<1>1. base \in Nat /\ quote \in Nat /\ UpdatedBase \in Nat
  BY MarketFacts
<1>2. ASSUME NEW p \in Accounts, NEW a \in Accounts, NEW k \in Kilobytes, BuyRamKBytes(p, a, k)
      PROVE  base * quote <= base' * quote'
  <2> DEFINE s == Spent(Price(k))
             b == Bought(k)
  <2>1. base' = UpdatedBase - b /\ quote' = quote + s
    BY <1>2 DEF BuyRamKBytes
  <2>2. s \in Nat /\ UpdatedBase - b \in Nat /\ UpdatedBase * quote <= (UpdatedBase - b) * (quote + s)
    BY BoughtBound
  <2> HIDE DEF s, b
  <2>3. base' * quote' \in Int /\ UpdatedBase * quote <= base' * quote'
    BY <1>1, <2>1, <2>2
  <2> QED
    BY <2>3, GrowthKeeps
<1>3. ASSUME NEW a \in Accounts, NEW k \in Kilobytes, SellRam(a, k)
      PROVE  base * quote <= base' * quote'
  <2> DEFINE in == k * Kilo
             out == Convert(UpdatedBase, quote, in)
  <2>1. in \in Nat
    BY PriceBound
  <2>2. base' = UpdatedBase + in /\ quote' = quote - out
    BY <1>3 DEF SellRam
  <2> HIDE DEF in
  <2>3. quote - out \in Nat /\ quote * UpdatedBase <= (quote - out) * (UpdatedBase + in)
    BY <2>1, MarketFacts, TradeKeeps
  <2> HIDE DEF out
  <2>4. base' * quote' \in Int /\ UpdatedBase * quote <= base' * quote'
    <3>1. base' * quote' = (quote - out) * (UpdatedBase + in) /\ quote * UpdatedBase = UpdatedBase * quote
      BY <1>1, <2>1, <2>2, <2>3
    <3>2. (quote - out) * (UpdatedBase + in) \in Int
      BY <1>1, <2>1, <2>3
    <3> QED
      BY <2>3, <3>1, <3>2
  <2> QED
    BY <2>4, GrowthKeeps
<1>4. ASSUME NEW n \in Sizes, SetRam(n)
      PROVE  base * quote <= base' * quote'
  <2> DEFINE d == n - max_ram_size
  <2>1. d \in Nat /\ n \in Nat /\ max_ram_size \in Nat
    BY <1>4 DEF SetRam, Inv, TypeOK
  <2>2. base' = base + d /\ quote' = quote
    BY <1>1, <1>4, <2>1 DEF SetRam, Added
  <2> HIDE DEF d
  <2>3. base' * quote' = base * quote + d * quote /\ d * quote \in Nat /\ base * quote \in Nat
    BY <1>1, <2>1, <2>2
  <2> QED
    BY <2>3
<1>5. ASSUME NEW r \in Rates, SetRamRate(r)
      PROVE  base * quote <= base' * quote'
  <2>1. base' = UpdatedBase /\ quote' = quote
    BY <1>5 DEF SetRamRate
  <2>2. base' * quote' \in Int /\ UpdatedBase * quote <= base' * quote'
    BY <1>1, <2>1
  <2> QED
    BY <2>2, GrowthKeeps
<1>6. CASE UNCHANGED market
  <2>1. base' * quote' = base * quote /\ base * quote \in Int
    BY <1>1, <1>6 DEF market
  <2> QED
    BY <2>1
<1>7. \/ \E p, a \in Accounts, k \in Kilobytes : BuyRamKBytes(p, a, k)
      \/ \E a \in Accounts, k \in Kilobytes : SellRam(a, k)
      \/ \E n \in Sizes : SetRam(n)
      \/ \E r \in Rates : SetRamRate(r)
      \/ UNCHANGED market
  BY DEF Next, vars, SetResAdCfg, NewAccount, ChangeBw, ManageRam, ReleaseRam, SetALimits, Tick
<1> QED
  BY <1>2, <1>3, <1>4, <1>5, <1>6, <1>7

(***************************************************************************)
(* MarketNeverLoses: convert rounds for the market at any size of          *)
(* connectors and trades, so that no sequence of trades, growth or setram  *)
(* drains it.                                                              *)
(***************************************************************************)
THEOREM NeverLoses == Spec => MarketNeverLoses
<1> DEFINE Keeps == base * quote <= base' * quote'
<1>1. Inv /\ [Next]_vars => Keeps
  BY ProductStep
<1>2. MarketNeverLoses <=> [][Keeps]_vars
  BY PTL DEF MarketNeverLoses
<1> HIDE DEF Keeps
<1>3. Inv /\ [Next]_vars => [Keeps]_vars
  BY <1>1
<1> QED
  BY <1>2, <1>3, Invariance, PTL DEF Spec

-----------------------------------------------------------------------------
LEMMA CancelledStrictly ==
  ASSUME NEW a \in Int, NEW b \in Int, NEW c \in Nat, a * c < b * c
  PROVE  a < b
<1>1. b <= a => b * c <= a * c
  BY Scaled
<1>2. a * c \in Int /\ b * c \in Int
  OBVIOUS
<1> QED
  BY <1>1, <1>2

(***************************************************************************)
(* What is bought for less than the price of n out of a connector is less  *)
(* than n's part of it: of the two trades, b is what the second takes for  *)
(* s, and p the price of n in the first.                                   *)
(***************************************************************************)
LEMMA LessThanAsked ==
  ASSUME NEW base0 \in Nat \ {0}, NEW base1 \in Nat \ {0}, NEW quote0 \in Nat \ {0},
         NEW n \in Nat \ {0}, NEW p \in Nat, NEW s \in Nat, NEW b \in Nat,
         p * (base0 + n) <= quote0 * n,
         b * (quote0 + s) <= base1 * s,
         s <= p, p > 0 => s < p, b < base1
  PROVE  b * (base0 + 2 * n) < base1 * n
<1>1. CASE p = 0
  <2>1. s = 0
    BY <1>1
  <2>2. b * quote0 <= 0
    BY <2>1
  <2>3. b = 0
    <3> SUFFICES ASSUME b > 0 PROVE FALSE
      OBVIOUS
    <3>1. b * quote0 > 0
      OBVIOUS
    <3> QED
      BY <2>2, <3>1
  <2>4. base1 * n > 0
    OBVIOUS
  <2> QED
    BY <2>3, <2>4
<1>2. CASE p > 0
  <2> DEFINE r == p - s
  <2>1. r \in Nat \ {0} /\ p = s + r
    BY <1>2
  <2> HIDE DEF r
  <2>2. b * r < base1 * r
    <3>1. base1 * r - b * r = (base1 - b) * r
      BY <2>1
    <3>2. base1 - b \in Nat \ {0}
      OBVIOUS
    <3>3. (base1 - b) * r > 0
      BY <2>1, <3>2
    <3>4. base1 * r \in Int /\ b * r \in Int
      BY <2>1
    <3> QED
      BY <3>1, <3>3, <3>4
  <2>3. b * (quote0 + p) < base1 * p
    <3>1. b * (quote0 + p) = b * (quote0 + s) + b * r
      BY <2>1
    <3>2. base1 * p = base1 * s + base1 * r
      BY <2>1
    <3>3. b * (quote0 + s) \in Int /\ b * r \in Int /\ base1 * s \in Int /\ base1 * r \in Int
      BY <2>1
    <3> QED
      BY <2>2, <3>1, <3>2, <3>3
  <2> DEFINE u == b * (quote0 + p)
             v == base1 * p
             w == p * (base0 + n)
             z == quote0 * n
  <2>4. u \in Nat /\ v \in Nat /\ w \in Nat /\ z \in Nat
    OBVIOUS
  <2>5. u * n < v * n
    <3>1. u < v
      BY <2>3
    <3> HIDE DEF u, v
    <3>2. v * n - u * n = (v - u) * n /\ v - u \in Nat \ {0}
      BY <2>4, <3>1
    <3>3. (v - u) * n > 0
      BY <3>2
    <3>4. v * n \in Int /\ u * n \in Int
      BY <2>4
    <3> QED
      BY <3>2, <3>3, <3>4
  <2>6. w * b <= z * b
    <3>1. w <= z
      OBVIOUS
    <3> HIDE DEF w, z
    <3> QED
      BY <2>4, <3>1, Scaled
  <2>7. (b * (base0 + 2 * n)) * p < (base1 * n) * p
    <3>1. (b * (base0 + 2 * n)) * p = w * b + (b * n) * p
      OBVIOUS
    <3>2. u * n = z * b + (b * n) * p
      OBVIOUS
    <3>3. (base1 * n) * p = v * n
      OBVIOUS
    <3>4. w * b \in Int /\ z * b \in Int /\ (b * n) * p \in Int /\ u * n \in Int /\ v * n \in Int
      OBVIOUS
    <3> HIDE DEF u, v, w, z
    <3> QED
      BY <2>5, <2>6, <3>1, <3>2, <3>3, <3>4
  <2>8. b * (base0 + 2 * n) \in Int /\ base1 * n \in Int
    OBVIOUS
  <2> QED
    BY <2>7, <2>8, CancelledStrictly
<1> QED
  BY <1>1, <1>2

\* A smaller part of a market that has not grown beyond the quoted one.
LEMMA SmallerPart ==
  ASSUME NEW base0 \in Nat \ {0}, NEW base1 \in Nat, NEW n \in Nat \ {0}, NEW b \in Nat,
         base1 <= base0 + 2 * n,
         b * (base0 + 2 * n) < base1 * n
  PROVE  b < n
<1> DEFINE m == base0 + 2 * n
<1>1. m \in Nat \ {0} /\ base1 <= m
  OBVIOUS
<1>2. b * m < base1 * n
  OBVIOUS
<1> HIDE DEF m
<1>3. base1 * n <= m * n
  BY <1>1
<1>4. SUFFICES ASSUME n <= b PROVE FALSE
  OBVIOUS
<1>5. n * m <= b * m
  BY <1>1, <1>4
<1>6. n * m = m * n
  BY <1>1
<1> QED
  BY <1>1, <1>2, <1>3, <1>5, <1>6

(***************************************************************************)
(* However the market was traded and has grown, n bytes bought by          *)
(* buyramkbytes are a smaller part of the grown market than n is of the    *)
(* one quoted with 2 * n more; so they are less than n if the market has   *)
(* grown by no more than 2 * n.                                            *)
(***************************************************************************)
THEOREM BuysLessAlways == Spec => []BuysLess
<1>1. ASSUME Inv, NEW k \in Kilobytes \ {0}
      PROVE  Bought(k) * (base + 2 * (k * Kilo)) < UpdatedBase * (k * Kilo)
  <2> DEFINE n == k * Kilo
             p == Price(k)
             s == Spent(p)
             b == Bought(k)
  <2>1. n \in Nat \ {0}
    <3>1. k \in Nat \ {0}
      OBVIOUS
    <3> QED
      BY <3>1
  <2>2. p \in Nat /\ p * (base + n) <= quote * n
    BY <1>1, PriceBound
  <2>3. s \in Nat /\ b \in Nat /\ b * (quote + s) <= UpdatedBase * s /\ UpdatedBase - b \in Nat \ {0}
    BY <1>1, BoughtBound
  <2>4. s <= p /\ (p > 0 => s < p)
    BY <2>2, FeeType
  <2>5. base \in Nat \ {0} /\ quote \in Nat \ {0} /\ UpdatedBase \in Nat \ {0}
    BY <1>1, MarketFacts
  <2> HIDE DEF n, p, s, b
  <2>6. b < UpdatedBase
    BY <2>3, <2>5
  <2>7. b * (base + 2 * n) < UpdatedBase * n
    BY <2>1, <2>2, <2>3, <2>4, <2>5, <2>6, LessThanAsked
  <2> QED
    BY <2>7 DEF n, b
<1>2. ASSUME Inv, NEW k \in Kilobytes \ {0}, NewRam <= 2 * (k * Kilo)
      PROVE  Bought(k) < k * Kilo
  <2> DEFINE n == k * Kilo
             b == Bought(k)
  <2>1. n \in Nat \ {0}
    <3>1. k \in Nat \ {0}
      OBVIOUS
    <3> QED
      BY <3>1
  <2>2. b \in Nat
    BY <1>2, BoughtBound
  <2>3. base \in Nat \ {0} /\ NewRam \in Nat /\ UpdatedBase = base + NewRam
    BY <1>2, MarketFacts
  <2>4. b * (base + 2 * n) < UpdatedBase * n
    BY <1>1, <1>2
  <2>5. NewRam <= 2 * n
    BY <1>2
  <2> HIDE DEF n, b
  <2>6. b < n
    BY <2>1, <2>2, <2>3, <2>4, <2>5, SmallerPart
  <2> QED
    BY <2>6 DEF n, b
<1>3. Inv => BuysLess
  BY <1>1, <1>2 DEF BuysLess
<1> QED
  BY <1>3, Invariance, PTL
=============================================================================
