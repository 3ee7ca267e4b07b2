------------------------------- MODULE Staking -------------------------------
(***************************************************************************)
(* The bandwidth part of fscio.system: staking core tokens for net and cpu *)
(* of a receiver, taking the stake back, and the refund that pays it out   *)
(* three days later, by a deferred transaction or on the owner's demand.   *)
(*                                                                         *)
(* An action of the contract is one transaction: it happens with all its   *)
(* inline transfers or not at all.  Between transactions time passes, the  *)
(* chain runs or drops the deferred transactions, voters move their stake  *)
(* into votes and back (Vote, what Voting does to the stake), and accounts *)
(* buy and sell RAM, which matters here for the userres row it keeps (what *)
(* it costs is in RamMarket).  Amounts are units of the core token.  A     *)
(* delband row of zeros and no row are the same to every reader; that an   *)
(* account has no userres row is asked by setalimits, so it is kept.       *)
(*                                                                         *)
(* A definition whose name ends in _Something is a mutant of the one next  *)
(* to it.                                                                  *)
(***************************************************************************)
EXTENDS Integers, FiniteSets, Totals

CONSTANTS
  Accounts,       \* accounts that stake; fscio.stake, which holds the stakes, is not one
  Resad,          \* resairdrop_account, fscio.resad; it need not be among Accounts
  Dropped,        \* the accounts with a row in the airdrop table
  Manageable,     \* the accounts whose limits the chain's operators may manage
  Genesis,        \* the accounts that newaccount did not create: no userres row, no limits
  Traders,        \* the accounts that may hold RAM they bought
  Endowment,      \* the tokens each account starts with
  Amounts,        \* the amounts the actions may be called with
  LimitValues,    \* the limits the operators may set
  DropLimits,     \* the limits of an airdrop that setresadcfg may set
  MinActivated,   \* get_min_activated_stake()
  RefundDelay,    \* refund_delay_sec, in ticks of the model's clock
  MayDrop,        \* whether the chain may lose a deferred transaction
  NoRefund,       \* no row in the refunds table
  NoTrx           \* no deferred transaction is scheduled

Pairs  == Accounts \X Accounts
Refund == [net : Nat, cpu : Nat, wait : 0..RefundDelay]
Drop   == [net : Nat, cpu : Nat]
Limit  == Nat \cup {-1}   \* -1 is no limit

ASSUME AccountsAssumption  ==
  /\ IsFiniteSet(Accounts)
  /\ Dropped \subseteq Accounts /\ Manageable \subseteq Accounts
  /\ Genesis \subseteq Accounts /\ Traders \subseteq Accounts
ASSUME EndowmentAssumption ==
  Endowment \in [Accounts -> Nat] /\ Amounts \subseteq Nat /\ LimitValues \subseteq Limit
ASSUME BoundsAssumption    ==
  DropLimits \subseteq Drop /\ MinActivated \in Nat /\ RefundDelay \in Nat /\ MayDrop \in BOOLEAN
ASSUME SentinelAssumption  == NoRefund \notin Refund /\ NoTrx \notin 0..RefundDelay

VARIABLES
  liquid,             \* liquid[a]: a's balance of the core token
  pool,               \* the balance of stake_account
  del_net, del_cpu,   \* del_net[f, r]: net_weight f has delegated to r (delband)
  res_net, res_cpu,   \* res_net[r]: net_weight in r's userres row
  rows,               \* the accounts that have a userres row
  ram,                \* those whose row has ram_bytes
  lim_net, lim_cpu,   \* lim_net[r]: the limit the chain enforces on r
  managed,            \* managed[r]: the net_managed and cpu_managed bits of flags1
  refunds,            \* refunds[a]: a's refund request; wait is what is left of its delay
  deferred,           \* deferred[a]: the delay left of the deferred refund sent with id a
  voter,              \* voter[a]: a's row in voters: "none", "core", or "bare" when its
                      \* staked_balance is a default asset, of no symbol
  staked,             \* staked[a]: staked_balance.amount of that row
  bound,              \* bound[a]: what a has in votes, the sum of its vote_num
  airdrop,            \* airdrop[r]: net and cpu the airdrop table has for r
  drop_limit          \* res_airdrop_limit_net and _cpu

ledger == <<del_net, del_cpu, res_net, res_cpu, rows, ram>>
limits == <<lim_net, lim_cpu, managed>>
drops  == <<airdrop, drop_limit>>
vars   == <<liquid, pool, ledger, limits, refunds, deferred, voter, staked, bound, drops>>

Positive(k) == IF k > 0 THEN k ELSE 0
Abs(k) == IF k < 0 THEN -k ELSE k

Init ==
  /\ liquid = Endowment
  /\ pool = 0
  /\ del_net = [p \in Pairs |-> 0] /\ del_cpu = [p \in Pairs |-> 0]
  /\ res_net = [r \in Accounts |-> 0] /\ res_cpu = [r \in Accounts |-> 0]
  /\ rows = Accounts \ Genesis /\ ram = {}
  /\ lim_net = [r \in Accounts |-> IF r \in Genesis THEN -1 ELSE 0]
  /\ lim_cpu = [r \in Accounts |-> IF r \in Genesis THEN -1 ELSE 0]
  /\ managed = [r \in Accounts |-> {}]
  /\ refunds = [a \in Accounts |-> NoRefund]
  /\ deferred = [a \in Accounts |-> NoTrx]
  /\ voter = [a \in Accounts |-> "none"]
  /\ staked = [a \in Accounts |-> 0]
  /\ bound = [a \in Accounts |-> 0]
  /\ airdrop = [r \in Accounts |-> [net |-> 0, cpu |-> 0]]
  /\ drop_limit = [net |-> 0, cpu |-> 0]

-----------------------------------------------------------------------------
(***************************************************************************)
(* changebw, lines 278-315: what fscio.resad delegates is an airdrop, once *)
(* per receiver and resource and within the limits, to a receiver that has *)
(* a row.  Taking a delegation back leaves the row as it is.               *)
(***************************************************************************)
DropFits_EveryTime(recorded, delta, limit) == delta > 0 => limit > 0 /\ delta <= limit

DropFits(recorded, delta, limit) ==
  delta > 0 => /\ limit > 0
               /\ delta <= limit
               /\ recorded = 0

Recorded(recorded, delta) == IF delta > 0 THEN delta ELSE recorded

AirDrop(source, receiver, dnet, dcpu) ==
  IF source = Resad
  THEN /\ receiver \in Dropped
       /\ DropFits(airdrop[receiver].net, dnet, drop_limit.net)
       /\ DropFits(airdrop[receiver].cpu, dcpu, drop_limit.cpu)
       /\ airdrop' = [airdrop EXCEPT ![receiver] =
                        [net |-> Recorded(airdrop[receiver].net, dnet),
                         cpu |-> Recorded(airdrop[receiver].cpu, dcpu)]]
  ELSE UNCHANGED airdrop

(***************************************************************************)
(* changebw, lines 317-340: what from has delegated to receiver.           *)
(***************************************************************************)
UpdateDelegation_Unchecked(from, receiver, dnet, dcpu) ==
  /\ del_net' = [del_net EXCEPT ![<<from, receiver>>] = @ + dnet]
  /\ del_cpu' = [del_cpu EXCEPT ![<<from, receiver>>] = @ + dcpu]

UpdateDelegation_Swapped(from, receiver, dnet, dcpu) ==
  /\ del_net[receiver, from] + dnet >= 0
  /\ del_cpu[receiver, from] + dcpu >= 0
  /\ del_net' = [del_net EXCEPT ![<<receiver, from>>] = @ + dnet]
  /\ del_cpu' = [del_cpu EXCEPT ![<<receiver, from>>] = @ + dcpu]

UpdateDelegation(from, receiver, dnet, dcpu) ==
  /\ del_net[from, receiver] + dnet >= 0
  /\ del_cpu[from, receiver] + dcpu >= 0
  /\ del_net' = [del_net EXCEPT ![<<from, receiver>>] = @ + dnet]
  /\ del_cpu' = [del_cpu EXCEPT ![<<from, receiver>>] = @ + dcpu]

(***************************************************************************)
(* changebw, lines 342-359 and 384-386: the totals of the receiver, whose  *)
(* row is created when it is missing and erased when nothing is in it.     *)
(***************************************************************************)
UpdateTotals_OnlyGrow(receiver, dnet, dcpu) ==
  /\ res_net' = [res_net EXCEPT ![receiver] = @ + Positive(dnet)]
  /\ res_cpu' = [res_cpu EXCEPT ![receiver] = @ + Positive(dcpu)]

UpdateTotals(receiver, dnet, dcpu) ==
  /\ res_net[receiver] + dnet >= 0
  /\ res_cpu[receiver] + dcpu >= 0
  /\ res_net' = [res_net EXCEPT ![receiver] = @ + dnet]
  /\ res_cpu' = [res_cpu EXCEPT ![receiver] = @ + dcpu]

UpdateRow(receiver) ==
  /\ rows' = IF res_net'[receiver] = 0 /\ res_cpu'[receiver] = 0 /\ receiver \notin ram
             THEN rows \ {receiver}
             ELSE rows \cup {receiver}
  /\ UNCHANGED ram

(***************************************************************************)
(* changebw, lines 361-382: the limits follow the new totals, each unless  *)
(* it is managed.                                                          *)
(***************************************************************************)
SetLimits_OnlyNet(receiver) ==
  /\ lim_net' = [lim_net EXCEPT ![receiver] =
                   IF "net" \in managed[receiver] THEN @ ELSE res_net'[receiver]]
  /\ UNCHANGED <<lim_cpu, managed>>

SetLimits(receiver) ==
  /\ lim_net' = [lim_net EXCEPT ![receiver] =
                   IF "net" \in managed[receiver] THEN @ ELSE res_net'[receiver]]
  /\ lim_cpu' = [lim_cpu EXCEPT ![receiver] =
                   IF "cpu" \in managed[receiver] THEN @ ELSE res_cpu'[receiver]]
  /\ UNCHANGED managed

(***************************************************************************)
(* changebw, lines 389-477: the refund request, the deferred transaction   *)
(* and the transfer of what has to be paid in.  A stake for oneself is     *)
(* taken out of the own refund first; an unstake adds to it and starts its *)
(* delay anew.  Whenever the request is not written the deferred           *)
(* transaction of from is cancelled.                                       *)
(***************************************************************************)
RefundOf(from, kind) ==
  IF refunds[from] = NoRefund THEN 0 ELSE
  IF kind = "net" THEN refunds[from].net ELSE refunds[from].cpu

UsesRefund(from, receiver, dnet, dcpu, transfer) ==
  (~transfer /\ from = receiver) \/ dnet + dcpu < 0

RequestAfter_KeepsTime(from, dnet, dcpu) ==
  LET net == Positive(RefundOf(from, "net") - dnet)
      cpu == Positive(RefundOf(from, "cpu") - dcpu)
  IN  IF net = 0 /\ cpu = 0 THEN NoRefund
      ELSE [net |-> net, cpu |-> cpu,
            wait |-> IF refunds[from] = NoRefund THEN RefundDelay ELSE refunds[from].wait]

RequestAfter(from, dnet, dcpu) ==
  LET net == Positive(RefundOf(from, "net") - dnet)
      cpu == Positive(RefundOf(from, "cpu") - dcpu)
  IN  IF net = 0 /\ cpu = 0 THEN NoRefund
      ELSE [net |-> net, cpu |-> cpu,
            wait |-> IF dnet < 0 \/ dcpu < 0 THEN RefundDelay ELSE refunds[from].wait]

PaidIn(from, receiver, dnet, dcpu, transfer) ==
  IF UsesRefund(from, receiver, dnet, dcpu, transfer)
  THEN Positive(dnet - RefundOf(from, "net")) + Positive(dcpu - RefundOf(from, "cpu"))
  ELSE dnet + dcpu

RefundRequest(from, receiver, dnet, dcpu, transfer) ==
  IF UsesRefund(from, receiver, dnet, dcpu, transfer)
  THEN /\ refunds' = [refunds EXCEPT ![from] = RequestAfter(from, dnet, dcpu)]
       /\ deferred' = [deferred EXCEPT ![from] =
                         IF RequestAfter(from, dnet, dcpu) = NoRefund THEN NoTrx ELSE RefundDelay]
  ELSE /\ UNCHANGED refunds
       /\ deferred' = [deferred EXCEPT ![from] = NoTrx]

(***************************************************************************)
(* The whole of changebw.  With transfer the source pays and the receiver  *)
(* becomes the delegator.  Adding to a bare staked_balance fails, for      *)
(* assets add only in equal symbols.                                       *)
(***************************************************************************)
ChangeBw(source, receiver, dnet, dcpu, transfer) ==
  LET from == IF transfer THEN receiver ELSE source
      paid == PaidIn(from, receiver, dnet, dcpu, transfer)
  IN  /\ dnet # 0 \/ dcpu # 0
      /\ Abs(dnet + dcpu) >= Abs(dnet) /\ Abs(dnet + dcpu) >= Abs(dcpu)
      /\ voter[from] # "bare"
      /\ staked[from] + dnet + dcpu >= 0
      /\ liquid[source] >= paid
      /\ AirDrop(source, receiver, dnet, dcpu)
      /\ UpdateDelegation(from, receiver, dnet, dcpu)
      /\ UpdateTotals(receiver, dnet, dcpu)
      /\ UpdateRow(receiver)
      /\ SetLimits(receiver)
      /\ RefundRequest(from, receiver, dnet, dcpu, transfer)
      /\ liquid' = [liquid EXCEPT ![source] = @ - paid]
      /\ pool' = pool + paid
      /\ voter' = [voter EXCEPT ![from] = "core"]
      /\ staked' = [staked EXCEPT ![from] = @ + dnet + dcpu]
      /\ UNCHANGED <<bound, drop_limit>>

DelegateBw(from, receiver, net, cpu, transfer) ==
  /\ net >= 0 /\ cpu >= 0 /\ net + cpu > 0
  /\ transfer => from # receiver
  /\ ChangeBw(from, receiver, net, cpu, transfer)

(***************************************************************************)
(* total_activated_stake is the sum of everybody's votes.                  *)
(***************************************************************************)
Activated == Total(bound, Accounts) >= MinActivated

UndelegateBw(from, receiver, net, cpu) ==
  /\ net >= 0 /\ cpu >= 0 /\ net + cpu > 0
  /\ Activated
  /\ ChangeBw(from, receiver, -net, -cpu, FALSE)

(***************************************************************************)
(* refund, as its owner calls it.  A deferred transaction stays scheduled. *)
(***************************************************************************)
CanRefund_BothParts(owner) ==
  /\ refunds[owner] # NoRefund
  /\ refunds[owner].wait = 0
  /\ refunds[owner].net > 0 /\ refunds[owner].cpu > 0
  /\ pool >= refunds[owner].net + refunds[owner].cpu

CanRefund(owner) ==
  /\ refunds[owner] # NoRefund
  /\ refunds[owner].wait = 0
  /\ pool >= refunds[owner].net + refunds[owner].cpu

PayRefund(owner) ==
  LET amount == refunds[owner].net + refunds[owner].cpu
  IN  /\ CanRefund(owner)
      /\ pool' = pool - amount
      /\ liquid' = [liquid EXCEPT ![owner] = @ + amount]
      /\ refunds' = [refunds EXCEPT ![owner] = NoRefund]
      /\ UNCHANGED <<ledger, limits, voter, staked, bound, drops>>

ClaimRefund(owner) ==
  /\ PayRefund(owner)
  /\ UNCHANGED deferred

(***************************************************************************)
(* The chain runs a deferred refund once its delay is over; if refund      *)
(* fails, the transaction is gone.  A chain may also drop the transaction, *)
(* unrun, when it cannot be billed or has expired.                         *)
(***************************************************************************)
Due(owner) == deferred[owner] # NoTrx /\ deferred[owner] = 0

RunDeferred(owner) ==
  /\ Due(owner)
  /\ deferred' = [deferred EXCEPT ![owner] = NoTrx]
  /\ IF CanRefund(owner)
     THEN PayRefund(owner)
     ELSE UNCHANGED <<liquid, pool, ledger, limits, refunds, voter, staked, bound, drops>>

DropDeferred(owner) ==
  /\ MayDrop
  /\ Due(owner)
  /\ deferred' = [deferred EXCEPT ![owner] = NoTrx]
  /\ UNCHANGED <<liquid, pool, ledger, limits, refunds, voter, staked, bound, drops>>

(***************************************************************************)
(* voteproducer as far as the stake is concerned: a's votes come to k.     *)
(***************************************************************************)
Vote_WholeAmount(a, k) ==
  /\ voter[a] # "none"
  /\ k # bound[a]
  /\ k <= staked[a]
  /\ staked' = [staked EXCEPT ![a] = @ - k]
  /\ bound' = [bound EXCEPT ![a] = k]
  /\ UNCHANGED <<liquid, pool, ledger, limits, refunds, deferred, voter, drops>>

Vote(a, k) ==
  /\ voter[a] # "none"
  /\ k # bound[a]
  /\ k - bound[a] <= staked[a]
  /\ staked' = [staked EXCEPT ![a] = @ - (k - bound[a])]
  /\ bound' = [bound EXCEPT ![a] = k]
  /\ UNCHANGED <<liquid, pool, ledger, limits, refunds, deferred, voter, drops>>

(***************************************************************************)
(* setacctnet and setacctcpu with a value, and without one.  With a value  *)
(* they create the voter row if there is none.                             *)
(***************************************************************************)
ManageNet(r, n) ==
  /\ managed' = [managed EXCEPT ![r] = @ \cup {"net"}]
  /\ lim_net' = [lim_net EXCEPT ![r] = n]
  /\ voter' = [voter EXCEPT ![r] = IF @ = "none" THEN "bare" ELSE @]
  /\ UNCHANGED <<liquid, pool, ledger, lim_cpu, refunds, deferred, staked, bound, drops>>

ManageCpu(r, n) ==
  /\ managed' = [managed EXCEPT ![r] = @ \cup {"cpu"}]
  /\ lim_cpu' = [lim_cpu EXCEPT ![r] = n]
  /\ voter' = [voter EXCEPT ![r] = IF @ = "none" THEN "bare" ELSE @]
  /\ UNCHANGED <<liquid, pool, ledger, lim_net, refunds, deferred, staked, bound, drops>>

UnmanageNet(r) ==
  /\ "net" \in managed[r]
  /\ managed' = [managed EXCEPT ![r] = @ \ {"net"}]
  /\ lim_net' = [lim_net EXCEPT ![r] = res_net[r]]
  /\ UNCHANGED <<liquid, pool, ledger, lim_cpu, refunds, deferred, voter, staked, bound, drops>>

UnmanageCpu(r) ==
  /\ "cpu" \in managed[r]
  /\ managed' = [managed EXCEPT ![r] = @ \ {"cpu"}]
  /\ lim_cpu' = [lim_cpu EXCEPT ![r] = res_cpu[r]]
  /\ UNCHANGED <<liquid, pool, ledger, lim_net, refunds, deferred, voter, staked, bound, drops>>

(***************************************************************************)
(* setalimits, for accounts without a row that nobody manages.             *)
(***************************************************************************)
SetALimits(r, net, cpu) ==
  /\ r \notin rows
  /\ managed[r] = {}
  /\ lim_net' = [lim_net EXCEPT ![r] = net]
  /\ lim_cpu' = [lim_cpu EXCEPT ![r] = cpu]
  /\ UNCHANGED <<liquid, pool, ledger, managed, refunds, deferred, voter, staked, bound, drops>>

(***************************************************************************)
(* setresadcfg, whatever has been dropped under the limits before.         *)
(***************************************************************************)
SetResAdCfg(limit) ==
  /\ drop_limit' = limit
  /\ UNCHANGED <<liquid, pool, ledger, limits, refunds, deferred, voter, staked, bound, airdrop>>

(***************************************************************************)
(* buyram and sellram as far as the row is concerned: the one creates it,  *)
(* the other, when all the RAM is sold, leaves it.                         *)
(***************************************************************************)
BuyRam(r) ==
  /\ rows' = rows \cup {r} /\ ram' = ram \cup {r}
  /\ UNCHANGED <<liquid, pool, del_net, del_cpu, res_net, res_cpu, limits, refunds, deferred,
                 voter, staked, bound, drops>>

SellRam(r) ==
  /\ r \in ram
  /\ ram' = ram \ {r}
  /\ UNCHANGED <<liquid, pool, del_net, del_cpu, res_net, res_cpu, rows, limits, refunds, deferred,
                 voter, staked, bound, drops>>

(***************************************************************************)
(* A tick of the clock; all delays run together.                           *)
(***************************************************************************)
Waiting(a) == \/ refunds[a] # NoRefund /\ refunds[a].wait > 0
              \/ deferred[a] # NoTrx /\ deferred[a] > 0

Tick ==
  /\ \E a \in Accounts : Waiting(a)
  /\ refunds' = [a \in Accounts |->
       IF refunds[a] = NoRefund THEN NoRefund
       ELSE [net |-> refunds[a].net, cpu |-> refunds[a].cpu, wait |-> Positive(refunds[a].wait - 1)]]
  /\ deferred' = [a \in Accounts |->
       IF deferred[a] = NoTrx THEN NoTrx ELSE Positive(deferred[a] - 1)]
  /\ UNCHANGED <<liquid, pool, ledger, limits, voter, staked, bound, drops>>

Next ==
  \/ \E from, receiver \in Accounts, net, cpu \in Amounts, transfer \in BOOLEAN :
       DelegateBw(from, receiver, net, cpu, transfer)
  \/ \E from, receiver \in Accounts, net, cpu \in Amounts : UndelegateBw(from, receiver, net, cpu)
  \/ \E owner \in Accounts : ClaimRefund(owner)
  \/ \E owner \in Accounts : RunDeferred(owner)
  \/ \E owner \in Accounts : DropDeferred(owner)
  \/ \E a \in Accounts, k \in Amounts : Vote(a, k)
  \/ \E r \in Manageable, n \in LimitValues : ManageNet(r, n)
  \/ \E r \in Manageable, n \in LimitValues : ManageCpu(r, n)
  \/ \E r \in Manageable : UnmanageNet(r)
  \/ \E r \in Manageable : UnmanageCpu(r)
  \/ \E r \in Manageable, net, cpu \in LimitValues : SetALimits(r, net, cpu)
  \/ \E limit \in DropLimits : SetResAdCfg(limit)
  \/ \E r \in Traders : BuyRam(r)
  \/ \E r \in Traders : SellRam(r)
  \/ Tick

Spec == Init /\ [][Next]_vars

(***************************************************************************)
(* Time passes, the chain runs what is due, and an owner whose refund is   *)
(* due claims it: whoever wants the tokens can call refund in any block.   *)
(***************************************************************************)
FairSpec ==
  /\ Spec
  /\ WF_vars(Tick)
  /\ \A a \in Accounts : WF_vars(RunDeferred(a)) /\ WF_vars(ClaimRefund(a))

-----------------------------------------------------------------------------
RefundNet == [a \in Accounts |-> RefundOf(a, "net")]
RefundCpu == [a \in Accounts |-> RefundOf(a, "cpu")]

Delegated(S) == Total(del_net, S) + Total(del_cpu, S)

(***************************************************************************)
(* Every table holds what its type says; no balance, weight or request is  *)
(* ever negative, and no request is one for nothing.                       *)
(***************************************************************************)
TypeOK ==
  /\ liquid \in [Accounts -> Nat] /\ pool \in Nat
  /\ del_net \in [Pairs -> Nat] /\ del_cpu \in [Pairs -> Nat]
  /\ res_net \in [Accounts -> Nat] /\ res_cpu \in [Accounts -> Nat]
  /\ rows \subseteq Accounts /\ ram \subseteq Accounts
  /\ lim_net \in [Accounts -> Limit] /\ lim_cpu \in [Accounts -> Limit]
  /\ managed \in [Accounts -> SUBSET {"net", "cpu"}]
  /\ refunds \in [Accounts -> Refund \cup {NoRefund}]
  /\ \A a \in Accounts : refunds[a] # NoRefund => refunds[a].net + refunds[a].cpu > 0
  /\ deferred \in [Accounts -> 0..RefundDelay \cup {NoTrx}]
  /\ voter \in [Accounts -> {"none", "core", "bare"}]
  /\ staked \in [Accounts -> Nat] /\ bound \in [Accounts -> Nat]
  /\ airdrop \in [Accounts -> Drop] /\ drop_limit \in Drop

(***************************************************************************)
(* The stake account holds exactly what is delegated and what is being     *)
(* refunded, through every order of stakes, unstakes that are taken back   *)
(* out of a pending refund, claims and deferred refunds: everybody can be  *)
(* paid, and nobody is paid twice.                                         *)
(***************************************************************************)
StakesAreBacked ==
  pool = Delegated(Pairs) + Total(RefundNet, Accounts) + Total(RefundCpu, Accounts)

(***************************************************************************)
(* The weight a receiver has is the sum of what all others delegated to    *)
(* it, for net and for cpu.                                                *)
(***************************************************************************)
ReceiverTotals ==
  \A r \in Accounts :
    /\ res_net[r] = Total(del_net, Accounts \X {r})
    /\ res_cpu[r] = Total(del_cpu, Accounts \X {r})

(***************************************************************************)
(* What an account has delegated is what it can still vote with and what   *)
(* it has in votes: a token staked once never votes twice, and a stake     *)
(* that is in votes cannot be taken back.                                  *)
(***************************************************************************)
StakeBacksVotes ==
  \A f \in Accounts : staked[f] + bound[f] = Delegated({f} \X Accounts)

(***************************************************************************)
(* Who has a stake has the limits of his weights, net and cpu, unless the  *)
(* operators manage the one or the other: setalimits has no say over it,   *)
(* what it set before is overwritten, and managing ends in the weights,    *)
(* however all this is interleaved with rows that come and go.             *)
(***************************************************************************)
LimitsFollowStake ==
  \A r \in Accounts : res_net[r] + res_cpu[r] > 0 =>
    /\ "net" \notin managed[r] => lim_net[r] = res_net[r]
    /\ "cpu" \notin managed[r] => lim_cpu[r] = res_cpu[r]

(***************************************************************************)
(* The airdrop table accounts for what fscio.resad has given: no account   *)
(* holds more of it than its row says, and what has gone from the tokens   *)
(* fscio.resad began with, and is neither coming back to it nor staked for *)
(* itself, is on record, though a drop may be given with transfer, taken   *)
(* back, refunded and staked again, under limits that change.              *)
(***************************************************************************)
DropNet == [r \in Accounts |-> airdrop[r].net]
DropCpu == [r \in Accounts |-> airdrop[r].cpu]
Others  == Accounts \ {Resad}

Kept == liquid[Resad] + RefundOf(Resad, "net") + RefundOf(Resad, "cpu")
        + del_net[<<Resad, Resad>>] + del_cpu[<<Resad, Resad>>]

AirdropIsRecorded ==
  Resad \in Accounts =>
    /\ \A r \in Others : del_net[<<Resad, r>>] <= airdrop[r].net /\ del_cpu[<<Resad, r>>] <= airdrop[r].cpu
    /\ Endowment[Resad] <= Kept + Total(DropNet, Others) + Total(DropCpu, Others)

(***************************************************************************)
(* Tokens leave the stake account only to the owner of a request, and only *)
(* when the delay that its last unstake started is over: a request that    *)
(* has been added to in between waits for all of it.                       *)
(***************************************************************************)
Unstakes(a) ==
  \E receiver \in Accounts, net, cpu \in Amounts : UndelegateBw(a, receiver, net, cpu)

NoEarlyRefund ==
  [][/\ pool' < pool =>
          \E a \in Accounts :
            /\ refunds[a] # NoRefund /\ refunds[a].wait = 0 /\ refunds'[a] = NoRefund
            /\ liquid' = [liquid EXCEPT ![a] = @ + (pool - pool')]
     /\ \A a \in Accounts : RefundOf(a, "net")' + RefundOf(a, "cpu")'
                             > RefundOf(a, "net") + RefundOf(a, "cpu")
          => refunds'[a].wait = RefundDelay]_vars

(***************************************************************************)
(* Staking is custody, account by account: the stake account owes each     *)
(* what it has delegated, to whomever, and what it is being refunded.      *)
(* Staking for another with transfer is a gift; unstaking, taking a stake  *)
(* back out of a refund and voting move no claim from one account to the   *)
(* next; and no claim is ever lost.                                        *)
(***************************************************************************)
Claim == [a \in Accounts |-> Delegated({a} \X Accounts) + RefundOf(a, "net") + RefundOf(a, "cpu")]

Trust == INSTANCE Custody WITH
  Owners <- Accounts, Spenders <- {}, hand <- liquid, owed <- Claim, vault <- pool

IsCustody == Trust!Spec

(***************************************************************************)
(* What the stake of an account can vote with and what it has in votes     *)
(* move as Suffrage says.  Voting, which has the tables of the votes and   *)
(* none of the delegations, keeps the same promise of the same purse: each *)
(* of the two modules may take the steps of the other for granted.         *)
(***************************************************************************)
Purse == INSTANCE Suffrage WITH
  Citizens <- Accounts, Threshold <- MinActivated, free <- staked, cast <- bound

IsSuffrage == Purse!Spec

(***************************************************************************)
(* A refund is paid at last, or is taken back into a stake, unless its     *)
(* owner unstakes again and again.                                         *)
(***************************************************************************)
RefundIsPaid ==
  \A a \in Accounts :
    \/ []<><<Unstakes(a)>>_vars
    \/ refunds[a] # NoRefund ~> refunds[a] = NoRefund

(***************************************************************************)
(* "A transaction is scheduled to send the tokens back to 'from' after the *)
(* staking period has passed" (fscio.system.hpp:336): as long as a request *)
(* is open, the deferred transaction that pays it is scheduled.            *)
(***************************************************************************)
PendingRefundIsScheduled ==
  \A a \in Accounts : refunds[a] # NoRefund => deferred[a] # NoTrx

(***************************************************************************)
(* "staking creates voter object" (voting.cpp:255): who has a voter row    *)
(* has staked, and staking can add to it.                                  *)
(***************************************************************************)
VoterRowsComeFromStaking == \A a \in Accounts : voter[a] # "bare"
=============================================================================
