------------------------------ MODULE RamMarket ------------------------------
(***************************************************************************)
(* The RAM market of fscio.system: accounts buy and sell RAM against a     *)
(* market maker, operators add RAM or let it grow by the block, and some   *)
(* accounts are given RAM by airdrop.                                      *)
(*                                                                         *)
(* The connectors' arithmetic is the code's, with exact square roots for   *)
(* its floating point: std::pow with weight .5 and 1/.5.  Both directions  *)
(* go through RAMCORE and issue and burn the same amount of it, so its     *)
(* supply is a constant.  The state begins after the init action.          *)
(* ram_bytes is signed and total_ram_bytes_reserved is not: a negative     *)
(* number stands for the large one it is read as.                          *)
(*                                                                         *)
(* A definition whose name ends in _Something is a mutant of the one next  *)
(* to it.                                                                  *)
(***************************************************************************)
EXTENDS Integers, FiniteSets, Totals

CONSTANTS
  Accounts,
  Genesis,        \* the accounts older than the system contract
  Dropper,        \* resairdrop_account
  Purse,          \* Purse[a]: what a has to spend on RAM
  Supply,         \* the supply of RAMCORE
  FirstRam,       \* max_ram_size when the contract is deployed
  FirstQuote,     \* the tokens the market maker starts from, which nobody paid; with
                  \* none, convert divides by zero
  RamCap,         \* max_ram_size stays below this
  Kilo, Gift,     \* a kilobyte, and ram_gift_bytes
  Kilobytes,      \* the amounts traded
  Sizes,          \* the arguments of setram
  Rates,          \* the arguments of setramrate
  Limits,         \* the limits operators set
  Word,           \* the product of blocks and rate is taken modulo this
  MaxTime,        \* when the clock stops
  NoRow, NoDrop   \* no row in userres; no row in resad

ASSUME PartiesAssumption ==
  /\ IsFiniteSet(Accounts) /\ Genesis \subseteq Accounts /\ Dropper \in Genesis
  /\ Purse \in [Accounts -> Nat]
ASSUME MarketAssumption ==
  /\ Supply \in Nat \ {0} /\ FirstRam \in Nat \ {0} /\ FirstQuote \in Nat \ {0} /\ RamCap \in Nat
  /\ Kilo \in Nat \ {0} /\ Gift \in Nat /\ Word \in Nat \ {0} /\ MaxTime \in Nat
ASSUME ArgumentsAssumption ==
  /\ Kilobytes \subseteq Nat /\ Sizes \subseteq Nat /\ Rates \subseteq Nat /\ Limits \subseteq Nat
ASSUME SentinelAssumption == NoRow \notin Int /\ NoDrop \notin Int

VARIABLES
  now,            \* the current block
  accounts,       \* the accounts there are
  base, quote,    \* the balances of the connectors
  max_ram_size, total_ram_bytes_reserved, total_ram_stake,
  new_ram_per_block, last_ram_increase,
  pool,           \* the balance of fscio.ram
  purse,          \* purse[a]: the balance of a
  ram_bytes,      \* ram_bytes[a]: of a's row in userres
  staked,         \* the accounts with net or cpu in that row
  res_airdrop_ram,           \* res_airdrop_ram[a]: of a's row in resad
  res_airdrop_limit_ram_bytes,
  ram_managed,    \* the accounts whose RAM an operator manages
  limit           \* limit[a]: the RAM limit of a, as the chain has it; -1 is none

market == <<base, quote, max_ram_size, total_ram_bytes_reserved, total_ram_stake, pool, purse>>
growth == <<new_ram_per_block, last_ram_increase>>
drops  == <<res_airdrop_ram, res_airdrop_limit_ram_bytes>>
vars   == <<now, accounts, market, growth, ram_bytes, staked, drops, ram_managed, limit>>

Init ==
  /\ now = 0 /\ accounts = Genesis
  /\ base = FirstRam /\ max_ram_size = FirstRam /\ total_ram_bytes_reserved = 0
  /\ quote = FirstQuote /\ total_ram_stake = 0 /\ pool = 0
  /\ new_ram_per_block = 0 /\ last_ram_increase = 0
  /\ purse = Purse
  /\ ram_bytes = [a \in Accounts |-> NoRow]
  /\ staked = {}
  /\ res_airdrop_ram = [a \in Accounts |-> NoDrop]
  /\ res_airdrop_limit_ram_bytes = 0
  /\ ram_managed = {}
  /\ limit = [a \in Accounts |-> IF a \in Genesis THEN -1 ELSE 0]

-----------------------------------------------------------------------------
(***************************************************************************)
(* exchange_state::convert.  What is put into a connector c buys an amount *)
(* of RAMCORE, Issued: the most whose square does not exceed the exact     *)
(* ratio.  The other connector d pays its part of that.                    *)
(***************************************************************************)
Issued_BeforeDeposit(c, in) ==
  CHOOSE e \in 0..Supply :
    /\ (Supply + e) * (Supply + e) * c <= Supply * Supply * (c + in)
    /\ e < Supply => (Supply + e + 1) * (Supply + e + 1) * c > Supply * Supply * (c + in)

Issued(c, in) ==
  CHOOSE e \in 0..Supply :
    /\ (Supply + e) * (Supply + e) * (c + in) <= Supply * Supply * (c + 2 * in)
    /\ e < Supply => (Supply + e + 1) * (Supply + e + 1) * (c + in) > Supply * Supply * (c + 2 * in)

Paid_RoundsUp(d, e) == 1 + (d * ((Supply + e) * (Supply + e) - Supply * Supply)) \div (Supply * Supply)

Paid(d, e) == (d * ((Supply + e) * (Supply + e) - Supply * Supply)) \div (Supply * Supply)

Convert(c, d, in) == Paid(d, Issued(c, in))

(***************************************************************************)
(* update_ram_supply, which every trade and setramrate begin with.  Slots  *)
(* and rate are multiplied in one machine word.                            *)
(***************************************************************************)
NewRam == IF now > last_ram_increase
          THEN ((now - last_ram_increase) * new_ram_per_block) % Word
          ELSE 0

UpdatedBase_Full == base

UpdatedBase == base + NewRam

(***************************************************************************)
(* What the trades write to userres, and the limit the chain is told of,   *)
(* which it accepts from -1 up.                                            *)
(***************************************************************************)
Grown(a, n) == IF ram_bytes[a] = NoRow THEN n ELSE ram_bytes[a] + n

Limited(a, n) == IF a \in ram_managed THEN limit ELSE [limit EXCEPT ![a] = n + Gift]

LimitAccepted(a, n) == a \in ram_managed \/ n + Gift >= -1

Fee(n) == (n + 199) \div 200

Spent_PlusFee(n) == n + Fee(n)

Spent(n) == n - Fee(n)

(***************************************************************************)
(* buyramkbytes prices the bytes by what selling them would bring, on the  *)
(* market before it grows, and buys for that amount less the fee.  RAM     *)
(* from the airdrop account is recorded by what the full amount would buy. *)
(***************************************************************************)
Drops(a, quant) ==
  LET bytes == Convert(quote, UpdatedBase, quant)
  IN  /\ res_airdrop_limit_ram_bytes > 0
      /\ res_airdrop_ram[a] = 0
      /\ bytes <= res_airdrop_limit_ram_bytes
      /\ res_airdrop_ram' = [res_airdrop_ram EXCEPT ![a] = bytes]

Price(kbytes) == Convert(base, quote, kbytes * Kilo)

Bought(kbytes) == Convert(quote, UpdatedBase, Spent(Price(kbytes)))

BuyRamKBytes(payer, receiver, kbytes) ==
  LET quant == Price(kbytes)
      spent == Spent(quant)
      bytes == Bought(kbytes)
  IN  /\ payer \in accounts /\ receiver \in accounts
      /\ quant > 0 /\ spent > 0 /\ bytes > 0
      /\ quant <= purse[payer]
      /\ IF payer = Dropper THEN Drops(receiver, quant) ELSE UNCHANGED res_airdrop_ram
      /\ max_ram_size' = max_ram_size + NewRam
      /\ base' = UpdatedBase - bytes
      /\ quote' = quote + spent
      /\ last_ram_increase' = now
      /\ total_ram_bytes_reserved' = total_ram_bytes_reserved + bytes
      /\ total_ram_stake' = total_ram_stake + spent
      /\ pool' = pool + spent
      /\ purse' = [purse EXCEPT ![payer] = purse[payer] - quant]
      /\ LimitAccepted(receiver, Grown(receiver, bytes))
      /\ ram_bytes' = [ram_bytes EXCEPT ![receiver] = Grown(receiver, bytes)]
      /\ limit' = Limited(receiver, Grown(receiver, bytes))
      /\ UNCHANGED <<now, accounts, new_ram_per_block, staked, res_airdrop_limit_ram_bytes, ram_managed>>

(***************************************************************************)
(* sellram.  The difference of quota and airdrop is compared as an         *)
(* unsigned number: below zero it is larger than any amount.               *)
(***************************************************************************)
Dropped(a) == IF res_airdrop_ram[a] = NoDrop THEN 0 ELSE res_airdrop_ram[a]

MaySell(a, bytes) == LET rest == ram_bytes[a] - Dropped(a) IN rest < 0 \/ rest >= bytes

SellRam(a, kbytes) ==
  LET bytes == kbytes * Kilo
      out == Convert(UpdatedBase, quote, bytes)
  IN  /\ bytes > 0
      /\ ram_bytes[a] # NoRow
      /\ MaySell(a, bytes)
      /\ out > 1
      /\ total_ram_stake >= out /\ pool >= out
      /\ max_ram_size' = max_ram_size + NewRam
      /\ base' = UpdatedBase + bytes
      /\ quote' = quote - out
      /\ last_ram_increase' = now
      /\ total_ram_bytes_reserved' = total_ram_bytes_reserved - bytes
      /\ total_ram_stake' = total_ram_stake - out
      /\ pool' = pool - out
      /\ purse' = [purse EXCEPT ![a] = purse[a] + out - Fee(out)]
      /\ LimitAccepted(a, ram_bytes[a] - bytes)
      /\ ram_bytes' = [ram_bytes EXCEPT ![a] = ram_bytes[a] - bytes]
      /\ limit' = Limited(a, ram_bytes[a] - bytes)
      /\ UNCHANGED <<now, accounts, new_ram_per_block, staked, drops, ram_managed>>

(***************************************************************************)
(* The operators: setram, setramrate and setresadcfg.                      *)
(***************************************************************************)
Added_Swapped(n) == base + max_ram_size - n

Added(n) == base + n - max_ram_size

SetRam(n) ==
  /\ max_ram_size < n /\ n < RamCap
  /\ 0 <= total_ram_bytes_reserved /\ total_ram_bytes_reserved < n
  /\ base' = Added(n)
  /\ max_ram_size' = n
  /\ UNCHANGED <<now, accounts, quote, total_ram_bytes_reserved, total_ram_stake, pool, purse, growth,
                 ram_bytes, staked, drops, ram_managed, limit>>

SetRamRate(r) ==
  /\ max_ram_size' = max_ram_size + NewRam
  /\ base' = UpdatedBase
  /\ last_ram_increase' = now
  /\ new_ram_per_block' = r
  /\ UNCHANGED <<now, accounts, quote, total_ram_bytes_reserved, total_ram_stake, pool, purse,
                 ram_bytes, staked, drops, ram_managed, limit>>

SetResAdCfg(n) ==
  /\ res_airdrop_limit_ram_bytes' = n
  /\ UNCHANGED <<now, accounts, market, growth, ram_bytes, staked, res_airdrop_ram, ram_managed, limit>>

(***************************************************************************)
(* newaccount makes an account with no limit to speak of, and a row in     *)
(* resad when the airdrop account creates it.                              *)
(***************************************************************************)
NewAccount(a, dropped) ==
  /\ a \notin accounts
  /\ accounts' = accounts \cup {a}
  /\ ram_bytes' = [ram_bytes EXCEPT ![a] = 0]
  /\ limit' = [limit EXCEPT ![a] = 0]
  /\ res_airdrop_ram' = IF dropped THEN [res_airdrop_ram EXCEPT ![a] = 0] ELSE res_airdrop_ram
  /\ UNCHANGED <<now, market, growth, staked, res_airdrop_limit_ram_bytes, ram_managed>>

(***************************************************************************)
(* What changebw does to RAM when a comes to have net or cpu, or not: it   *)
(* raises a limit that is too low unless net and cpu are both managed, and *)
(* drops a row with nothing in it.                                         *)
(***************************************************************************)
ChangeBw(a, some, managed) ==
  /\ a \in accounts
  /\ some \/ a \in staked
  /\ staked' = IF some THEN staked \cup {a} ELSE staked \ {a}
  /\ ram_bytes' = [ram_bytes EXCEPT ![a] = IF ~some /\ Grown(a, 0) = 0 THEN NoRow ELSE Grown(a, 0)]
  /\ limit' = IF managed \/ a \in ram_managed \/ limit[a] >= Grown(a, 0) + Gift
              THEN limit ELSE [limit EXCEPT ![a] = Grown(a, 0) + Gift]
  /\ UNCHANGED <<now, accounts, market, growth, drops, ram_managed>>

(***************************************************************************)
(* setacctram takes a limit over, or gives it back to the quota;           *)
(* setalimits is for accounts without a row.                               *)
(***************************************************************************)
ManageRam(a, n) ==
  /\ a \in accounts
  /\ ram_managed' = ram_managed \cup {a}
  /\ limit' = [limit EXCEPT ![a] = n]
  /\ UNCHANGED <<now, accounts, market, growth, ram_bytes, staked, drops>>

Released_Gift(a) == Gift

Released(a) == Gift + Grown(a, 0)

ReleaseRam(a) ==
  /\ a \in ram_managed
  /\ Released(a) >= -1
  /\ ram_managed' = ram_managed \ {a}
  /\ limit' = [limit EXCEPT ![a] = Released(a)]
  /\ UNCHANGED <<now, accounts, market, growth, ram_bytes, staked, drops>>

SetALimits(a, n) ==
  /\ a \in accounts /\ ram_bytes[a] = NoRow /\ a \notin ram_managed
  /\ limit' = [limit EXCEPT ![a] = n]
  /\ UNCHANGED <<now, accounts, market, growth, ram_bytes, staked, drops, ram_managed>>

Tick ==
  /\ now < MaxTime
  /\ now' = now + 1
  /\ UNCHANGED <<accounts, market, growth, ram_bytes, staked, drops, ram_managed, limit>>

Next ==
  \/ \E p, a \in Accounts, k \in Kilobytes : BuyRamKBytes(p, a, k)
  \/ \E a \in Accounts, k \in Kilobytes : SellRam(a, k)
  \/ \E n \in Sizes : SetRam(n)
  \/ \E r \in Rates : SetRamRate(r)
  \/ \E n \in Limits : SetResAdCfg(n)
  \/ \E a \in Accounts, dropped \in BOOLEAN : NewAccount(a, dropped)
  \/ \E a \in Accounts, some, managed \in BOOLEAN : ChangeBw(a, some, managed)
  \/ \E a \in Accounts, n \in Limits : ManageRam(a, n)
  \/ \E a \in Accounts : ReleaseRam(a)
  \/ \E a \in Accounts, n \in Limits : SetALimits(a, n)
  \/ Tick

Spec == Init /\ [][Next]_vars

-----------------------------------------------------------------------------
(***************************************************************************)
(* The connectors and all balances stay natural: whatever is sold, the     *)
(* market maker has RAM and tokens left to pay with.                       *)
(***************************************************************************)
TypeOK ==
  /\ now \in 0..MaxTime /\ accounts \subseteq Accounts
  /\ base \in Nat \ {0} /\ quote \in Nat /\ max_ram_size \in Nat
  /\ total_ram_bytes_reserved \in Int /\ total_ram_stake \in Nat /\ pool \in Nat
  /\ new_ram_per_block \in Nat /\ last_ram_increase \in 0..now
  /\ purse \in [Accounts -> Nat]
  /\ ram_bytes \in [Accounts -> Int \cup {NoRow}]
  /\ staked \subseteq accounts
  /\ res_airdrop_ram \in [Accounts -> Nat \cup {NoDrop}]
  /\ res_airdrop_limit_ram_bytes \in Nat
  /\ ram_managed \subseteq accounts
  /\ limit \in [Accounts -> Int]

(***************************************************************************)
(* Four records of the same RAM and three of the same tokens agree after   *)
(* trades, growth and airdrops: the market maker's RAM is what is free     *)
(* (free_ram), what is reserved are the accounts' quotas, and what fscio.  *)
(* ram holds is total_ram_stake, the tokens added to the first quote.      *)
(***************************************************************************)
Owned(a) == IF ram_bytes[a] # NoRow /\ ram_bytes[a] > 0 THEN ram_bytes[a] ELSE 0
Owed(a)  == IF ram_bytes[a] # NoRow /\ ram_bytes[a] < 0 THEN -ram_bytes[a] ELSE 0

MarketAddsUp ==
  /\ base = max_ram_size - total_ram_bytes_reserved
  /\ total_ram_bytes_reserved = Total([a \in Accounts |-> Owned(a)], Accounts)
                                - Total([a \in Accounts |-> Owed(a)], Accounts)
  /\ quote = FirstQuote + total_ram_stake
  /\ pool = total_ram_stake

(***************************************************************************)
(* "this shouldn't happen, but just in case it does we should prevent it"  *)
(* (delegate_bandwidth.cpp:234): whoever sells RAM that was reserved is    *)
(* paid.  The tokens paid for RAM cover the price of any part of it, also  *)
(* after setram and the growth of RAM have changed the price.              *)
(***************************************************************************)
SellersGetPaid ==
  \A bytes \in 1..total_ram_bytes_reserved : Convert(UpdatedBase, quote, bytes) <= total_ram_stake

(***************************************************************************)
(* convert counts the deposit in before it prices it, and cuts off twice,  *)
(* once for RAMCORE and once for the asset: both in favour of the market.  *)
(* So no trade, growth or setram lowers the product of the connectors, and *)
(* no round of trades, whoever makes them, brings out more than was put in.*)
(***************************************************************************)
MarketNeverLoses == [][base * quote <= base' * quote']_vars

(***************************************************************************)
(* What buyramkbytes gets for n bytes that were asked for.  It asks for    *)
(* the price at which the market would take n bytes, before it grows, then *)
(* buys for that price less the fee, after it has grown: less than         *)
(* n / (base + 2 * n) of what there is to buy by then.  So the receiver    *)
(* gets less than n, unless the market has grown by more than 2 * n since  *)
(* it was last touched; then it can be n and more.                         *)
(***************************************************************************)
BuysLess ==
  \A k \in Kilobytes \ {0} :
    LET n == k * Kilo
    IN  /\ Bought(k) * (base + 2 * n) < UpdatedBase * n
        /\ NewRam <= 2 * n => Bought(k) < n

(***************************************************************************)
(* Five actions take turns with the limit of an account: trades, staking,  *)
(* setacctram and setalimits.  Whatever their order, an account that owns  *)
(* RAM and is not managed may use that and the gift, no less and no more.  *)
(***************************************************************************)
LimitIsQuota ==
  \A a \in accounts \ ram_managed :
    ram_bytes[a] \notin {NoRow, 0} => limit[a] = ram_bytes[a] + Gift

(***************************************************************************)
(* "When selling, first subtract airdrop RAM" (delegate_bandwidth.cpp:209):*)
(* a sale leaves an account at least the RAM it was given by airdrop.      *)
(***************************************************************************)
AirdropIsKept ==
  [][\A a \in Accounts : \A k \in Kilobytes : SellRam(a, k) => ram_bytes'[a] >= Dropped(a)]_vars
=============================================================================
