# Verification of the fscio contracts

TLA+ models of the system contracts in `src/`: the token, the system contract (staking, voting,
pay, RAM market, name auction, account creation), the multisignature contract and the wrapper,
with the TLC runs that check them on small instances and the TLAPS proofs that hold for every
instance.

## 1. Inventory

Every action of a contract is one transaction: a failing assertion, in the handler or in an
inline action it sends, undoes all of it. So a handler with its inline transfers is one atomic
step, and what is concurrent is the order of transactions of many accounts, the blocks and the
time that pass between them, and the *deferred* transactions, which the chain runs later, or drops.

| part | source | state | operations |
|---|---|---|---|
| Token | `fscio.token.cpp` | `stat` (supply, maximum, issuer), `accounts` (balances) | create, issue (with an inline transfer), retire, transfer, open, close |
| Bandwidth staking | `delegate_bandwidth.cpp` | `delband`, `userres`, `refunds`, `voters.staked_balance`, `resad`, chain limits, deferred refunds | delegatebw, undelegatebw, refund |
| Managed limits | `fscio.system.cpp` | `voters.flags1`, chain limits | setacctram, setacctnet, setacctcpu, setalimits |
| Voting | `voting.cpp` | `voters`, `votes`, `producers` (total votes, vote ages, voters), totals in `global` | voteproducer |
| Producers, schedule | `voting.cpp`, `fscio.system.cpp` | `producers`, proposed schedule | regproducer, unregprod, rmvproducer, update_elected_producers |
| Pay | `producer_pay.cpp` | buckets, unpaid blocks, vote-pay shares, reward balances | onblock, claimprod, claimvoter |
| RAM market | `delegate_bandwidth.cpp`, `exchange_state.cpp` | `rammarket`, `userres.ram_bytes`, RAM totals | buyramkbytes, sellram, setram, setramrate, init |
| Name auction | `fscio.system.cpp`, `producer_pay.cpp` | `namebids`, `bidrefunds`, deferred refunds, `last_name_close` | bidname, bidrefund, closing in onblock, claim in newaccount |
| Account creation | `fscio.system.cpp`, `native.hpp` | `userres`, `resad` rows | newaccount |
| Settings | `fscio.system.cpp` | parameters, privileges, revision, airdrop limits, ABI hashes | setparams, setpriv, updtrevision, setresadcfg, setabi |
| Multisig | `fscio.msig.cpp` | `proposal`, `approvals2`, `approvals` (first version), `invals`, deferred transactions | propose, approve, unapprove, cancel, exec, invalidate |
| Wrap | `fscio.wrap.cpp` | none of its own | exec |

How they interact. All tokens that the system contract holds for somebody are balances of
fscio.token, moved by inline transfers: stakes in `fscio.stake`, bids in `fscio.names`, RAM
payments in `fscio.ram`, rewards in `fscio.bpay` and `fscio.vpay`, inflation issued by claims.
Staking fills `staked_balance`, from which voteproducer takes votes and to which it gives them
back; the sum of all votes activates the chain, without which nobody can unstake, be paid or win
a name. onblock counts produced blocks, proposes the schedule and closes auctions.

What is hard, and what would make each part correct:

* the token: supply and balances, changed by different handlers, agree; nothing leaves its range;
* staking: one number is kept in five places (pool, delegations, totals of the receiver, chain
  limits, voting stake), a stake may be paid out of a pending refund, and refunds are paid by
  deferred transactions that are cancelled, replaced, late or lost;
* the auction: an outbid bidder may be outbid again before being paid, refunds are paid by hand or
  by deferred transactions, and one auction closes a day;
* multisig: approvals, invalidations and execs of one block share a time, names of proposals are
  used again, and two tables of approvals are in use;
* voting and pay: floating-point weights, per-voter and per-vote data, shares accrued over time;
* the RAM market: prices from a formula, quotes that are stale when used, 32 and 64 bit arithmetic.

`PROJECT.json` lists each hazard at its line with the properties that cover it.

## 2. Modules

| module | what it is |
|---|---|
| `Totals` | the sum of a function over a finite set, without recursion, as a number of units |
| `Ledger` | abstract: currencies that are launched, minted, burned and moved |
| `Token` | fscio.token; implements `Ledger` |
| `Custody` | abstract: a vault that owes each owner what was paid in for him |
| `Suffrage` | abstract: the purse of stakes and votes that staking and voting share |
| `Staking` | staking, refunds, airdrop and managed limits; implements `Custody` and `Suffrage` |
| `Consent` | abstract: what a multisignature service promises |
| `Msig` | fscio.msig; implements `Consent` |
| `NameAuction` | bids, refunds, closing and claiming of names; implements `Custody` |
| `Voting` | votes, their ages and weights, producers and the schedule; implements `Suffrage` |
| `Pay` | what producers and voters are paid; composed with `Voting` |
| `RamMarket` | trading RAM, its growth, its airdrop and the limits of accounts |
| `TotalProofs` | lemmas about sums and naturals |
| `TokenProofs`, `StakingProofs`, `VotingProofs`, `PayProofs`, `RamProofs`, `NameAuctionProofs`, `MsigProofs` | theorems |
| `MCToken`, `MCStaking`, `MCMsig`, `MCNameAuction`, `MCVoting`, `MCPay`, `MCRamMarket` | small instances for TLC |

A definition whose name ends in `_Something` next to another of that name is a *mutant*: a slip a
programmer might make in that piece of code. With it in place of the original the run named in
`PROJECT.json` finds the property violated, which shows that the property says something about
the code.

### Token

`stat[code]` is the row of the `stat` table in the scope of `code`, `accounts[owner][code]` the
balance row of `owner`. A symbol is a code with a precision, because every handler finds rows by
code and compares symbols afterwards. Each handler is an action with all its assertions as
guards; `issue` contains the inline transfer to the receiver with the assertions of `transfer`,
evaluated on the balances `add_balance` has left. `signer` is the account that authorised the last
transaction, so that properties can say who may do what. Amounts that are negative or exceed the
maximum, symbols of a wrong precision, and names that are no accounts are among the inputs.
Not modelled: memos, notifications, who pays for the RAM of a row.

### Staking

`changebw` is one action cut into its blocks, each an operator: `AirDrop`, `UpdateDelegation`,
`UpdateTotals`, `UpdateRow`, `SetLimits`, `RefundRequest` and the transfer. A delband row of zeros stands for no row, as
the contract erases rows of zeros and reads missing ones as zero. Of userres the model keeps who has a row (`rows`), because
`SetALimits` asks for none: changebw creates a row and erases it with its last weight, unless there are bytes in it (`ram`); buyram creates
one, too, and sellram leaves it. What RAM costs is in `RamMarket`. Genesis accounts begin without a row and without limits (-1), all
others with the row newaccount gives them. `drop_limit` is set by setresadcfg at any time. `refunds[a].wait` is what is left of
the three days since `request_time`; `deferred[a]` is the transaction that changebw sends under the id
`a`, cancels and replaces; the chain runs it (`RunDeferred`), where it fails if the request is gone, or
drops it (`DropDeferred`). `voter[a]` tells a voters row that staking created ("core") from one that
setacctnet or setacctcpu created ("bare"), whose `staked_balance` has no symbol and cannot be added to.
`Vote` is what voteproducer does to the stake: it moves tokens between `staked_balance` and votes.
Not modelled here: fscio.stake as a staker. What changebw and setalimits do to the RAM limit is in `RamMarket`, and with it that
setalimits fails when the RAM is managed.

`LimitsFollowStake` is about accounts with a stake. Without one an account may have whatever setalimits gave it, even one whose row was erased by
its last unstake. `AirdropIsRecorded` compares the airdrop table with the tokens of fscio.resad: `Kept` is what it has in hand, is being refunded
or has staked for itself, and all that is missing from its first endowment is on record.

`Trust` reads the tables as a `Custody`: the vault is fscio.stake, and the `Claim` of an account is what it has delegated, to whomever,
and what it is being refunded. That the pool is the sum of all this follows from it, and more: no step moves a claim from one account to
another, which a sum does not see. `Purse` reads the voters rows as a `Suffrage`.

### Msig

`proposals`, `approvals`, `old` and `invals` are the contract's tables. Approvals are vectors, in which a
level can occur repeatedly if the proposer requested it repeatedly; the model keeps, for each
level, how often it is requested and the provided approvals in their order. `now` counts blocks,
so that many transactions see the same time, while expirations are in seconds. The chain's
authorization check is a set of sufficient sets of levels for each transaction. The initial state
may hold proposals of the first version of the contract, in `old`. Two history variables, which nothing reads, say what
the signatories wanted: `consent[k]` are the levels whose last word on a proposal was yes, for every approve adds and every unapprove and invalidate
takes away; `pledged[k]` are those that approved and whose account has not invalidated since. The contract sends
what `Effective` approvals suffice for. The refinement of `Consent` shows that these are never more
than `consent` for levels requested once. Of a level requested repeatedly (`Repeated`) unapprove erases the first entry only, so for those the
promise is the weaker one, `pledged`; `Consent` says so (`repeated`), and it is noted below. A proposal is `Live` until the second it expires in is over; `Consent` lets time end that, exec, or the
signature of the proposal's owner, and nothing else.

### NameAuction

Names on sale are numbers because the index by bid breaks ties by name. `pot` is what the auctions
paid into fscio.names. `OnBlock` is the part of onblock behind the minute's delay (`due`), which
closes the first bid of the index if it is quiet for a day, the last closing is a day ago and the chain
has been activated for 14 days; `VotesChange` is the environment of votes that crosses the activation
threshold in either direction. `newaccount` by the system account takes a name without regard to the auction.
The model shows that such a name stays in `namebids`: its auction goes on and closes, and the winner
can never claim it nor get the bid back. `Worth` leaves such bids out (`LostBidOf`), and `WorthIsKept` says that nothing else ever costs a
bidder anything but the claim of a name he won.
`Trust` reads the auctions as a `Custody`: the `Claim` of a bidder is his standing bids and his refunds, bidname deposits, bidrefund
withdraws, and only taking a name spends.

### Voting

`votes[v, p]` is the row of voter `v` for producer `p`, `voters[p]` the vector in p's row by which
`calculate_prod_all_voter_age` finds the rows. `VoteProducer` is the handler in its order: the votes row is written
first, then all rows in the vector age to the present, the voter's own with its new number, and a new voter joins the vector
last. `ClaimVoter` is what claimvoter does to ages and times. `TopProducers` reads the index `prototalvote` as
`update_elected_producers` does; `OnBlock` is the part of onblock behind the minute's delay. `Stake` is what
changebw does to the `staked_balance`, whose details are in `Staking`; there, in turn, `Vote` stands for this module. That the two fit is not
left to reading: `Suffrage` says how stakes that may vote and stakes in votes move, and each module implements it, so that neither does
what the other does not expect. The sum that `Suffrage` has an unstake wait for is the sum over voters; `Voting` waits for
`total_activated_stake`, as the code does, and they are the same.
Weights are exact multiples of the stake, with a factor that grows; doubles and their rounding are left out. `total_votes` can
grow without end (see the findings), so `VoteProducer` stops at `MaxTotal`, the one bound in a guard, and the clock at
`MaxTime`. The vote-pay shares that voteproducer moves, commission rates and rewards are in `Pay`.

### Pay

`Pay` extends `Voting` and composes with it action by action: `Vote` is `VoteProducer` with what the second half of
voteproducer does to shares, `Claim` is `ClaimVoter` with the rewards, `Enter`, `Reenter` and `Adjust` are the branches of
regproducer, `Leave` is unregprod, `Remove` rmvproducer, `Block` onblock. Every step of `Pay` is a step of `Voting` or leaves its
variables alone. `Distribute` is distribute_voters_rewards, whose callers go on with what the producer has earned:
regproducer and unregprod credit it (`Credited`), claimprod pays it out (`ClaimProd`). `Fill` is its first half, the
inflation; the inline issue and transfers fail for no tokens and above the maximum supply, and with them the whole action.
Times, votes and shares are whole numbers; commission rates are percentages and products are exact before they are cut to tokens, where
the code multiplies doubles. The bucket gets its parts as in the code (a fifth and three tenths); the savings
account, which nothing reads, is left out.

### RamMarket

`base` and `quote` are the balances of the two connectors. `Convert` is exchange_state::convert, through the intermediate token
RAMCORE: `Issued` is the root of `convert_to_exchange` cut to an integer, `Paid` the square of `convert_from_exchange`, cut again.
Roots are exact where the code uses std::pow. The supply of RAMCORE is a constant, because a trade issues and burns the same
amount of it. `BuyRamKBytes` is buyramkbytes with all of buyram, `SellRam` sellram; both begin with update_ram_supply, which is `NewRam`
and `UpdatedBase` in them. `MaySell` compares as C++ does, a signed with an unsigned number. `limit[a]` is the limit the chain was told,
and `Limited` what a trade tells it. `ChangeBw` is the part of changebw that touches RAM limits and the row in `userres`,
`NewAccount` what newaccount writes. The state begins after `init`, which sets the market up from the first RAM size.
`Price` is the quote of buyramkbytes, `Spent` what the fee leaves of it, `Bought` the bytes that brings.

## 3. Runs

| run | instance | checks |
|---|---|---|
| `token_ledger` | 2 currencies, 2 precisions, 2 accounts and a name that is none, maximum 2 | types, conservation, symbols, refinement of `Ledger` (who must sign, permanence) |
| `staking_ledger` | fscio.resad, a genesis account, with 3 tokens, bob with none, delay 1, bob's limits managed or set by setalimits to -1, RAM traded, airdrop limits of 2 for net and 1 for cpu set on the way, transactions lost, fair | types, refinement of `Custody`, receiver totals, voting stake, limits, no early refund, airdrops on record, every refund is paid |
| `staking_schedule` | nothing lost | violated: a pending refund has a deferred transaction |
| `staking_voter_rows` | 1 token each, limits managed | violated: staking creates the voter rows |
| `msig_tables` | 2 accounts, 1 proposal name, 2 transactions, levels requested up to twice, 3 blocks | types, rows, hashes, seats, refinement of `Consent` (who consents, who unapproves, who cancels) |
| `auction_ledger` | 2 names, 4 tokens each, four rising bids on one and two on the other, ticks longer than a day, fair | types, refinement of `Custody`, what bids are spent on, refunds are scheduled and paid, auctions close |
| `voting_tallies` | 2 voters with a token each, 2 producers, a tick of 3 halves of an age unit, weights that double, 1 seat | types, sums of votes, refinement of `Suffrage`, voters and rows, sums of ages, weights, the schedule |
| `voting_weights` | as above | violated: total_votes are the weights of a producer's own votes |
| `pay_producers` | 2 producers, 1 voter, 2 ticks, 2 unpaid blocks, an inflation that meets the maximum supply | unpaid blocks add up, the pay accounts hold what is owed |
| `pay_voters` | 1 producer with rates 95 and 100, 2 voters, 3 ticks, votes that lapse after 3 | types (no bucket is overdrawn), claims are fair |
| `ram_trades` | fscio.resad and an account to be created, 9 tokens each, 16 units of RAM and up to 29, a rate of 18, products modulo 32, 2 blocks | types, the records of RAM and tokens agree, sellers are paid, limits are quotas, the market never loses, what purchases bring |
| `ram_airdrop` | as above, 1 block | violated: a sale leaves the airdropped RAM |

Why the bounds suffice. The token's handlers touch at most two balances and one currency; a third
name and a second currency show that others are left alone, and a maximum of 2 has a first, a middle
and a last unit. A stake touches one staker and one receiver; of three tokens one may stay in votes, without which nobody
can unstake, and two let a request be covered in part by a refund and in part by a transfer, separately for net and cpu. -1 is a limit
that no stake has, so that a limit left behind shows. The run sets the airdrop limits to one value and leaves lowering them again to the proof, which
is about any limits set at any time. Four rising bids are the
fewest that make a refund grow before it is paid; an auction is quiet for a tick before it closes and so is the time after the last close, but as a
tick is more than a day, the day between two closings is not told from the first tick after it. Two levels, one of them requested twice, make all
cases of the vectors of approvals; three blocks put an approval before, in and after the block of
an invalidation and let a transaction expire. With two voters and two producers votes move between producers, other voters'
ages are touched, and producers compete for the seat; one token each already makes totals drift, and a zero
vote leaves rows behind. In `pay_producers` a second producer makes shares of blocks and buckets differ from the whole, and the maximum
supply is met after two fillings; the commission is fixed there at one half. In `pay_voters` it changes, and three ticks let a producer lapse and claim again. In the RAM market two
amounts of RAM make quotes and sales of different size meet, a rate of 18 makes the market grow by more than twice the smaller amount in one block, so that a purchase
can bring more than was asked for, in two blocks the product passes the word of 32 and leaves no more than that, and growth comes between
quote and sale.

Fairness. In `Staking`: time passes (`Tick`), the chain runs due transactions, and an owner whose
refund is due calls refund. The contract does not schedule the last for him (see the finding below), so
without it refunds can stay unpaid; the property excludes owners that unstake again for ever,
because each unstake starts the delay anew. In `NameAuction`: time passes, onblock runs, and
somebody calls bidrefund, which needs no permission; an auction closes if from some time on the
chain stays activated.

## 4. Findings

* `staking_schedule`: any stake by an account that does not rewrite its refund request cancels the
  deferred transaction of the request (`delegate_bandwidth.cpp:467`), against the header's promise that
  a transaction is scheduled. The owner has to call refund.
* `staking_voter_rows`: setacctnet and setacctcpu create voters rows with an asset of no symbol, so an
  account that is managed before it ever stakes can never stake.

* `voting_weights`: voteproducer takes the weight of the voter's last vote, for whatever producer, out of the total of the
  producer now voted for. With votes for two producers neither `total_votes` is the weight of its votes. What stays true is
  `WeightsOfLastVotes`: `total_producer_vote_weight` is the sum over voters of their last votes, which is the "sum of
  all producer votes" (`fscio.system.hpp:96`) only while every voter has one producer.

* `ram_airdrop`: buyram records an airdrop by the bytes that the full amount would buy and buys for the amount less the fee, so the
  receiver owns fewer bytes than are recorded. sellram subtracts the recorded bytes and compares the negative difference with an unsigned
  amount (`delegate_bandwidth.cpp:220`): every amount passes. The airdropped RAM, which "When selling, first subtract
  airdrop RAM" (line 209) is to keep, can be sold, and more than the account has.

Noticed, with no run of their own:

* buyramkbytes, "buy an exact amount of ram" (`delegate_bandwidth.cpp:86`), prices the bytes by what selling them would bring,
  before the market has grown, and pays the fee out of that. What it buys, after the market has grown, is fewer bytes than asked for, unless the
  market has grown by more than twice the bytes since it was last touched; then it may be more. `BuysLess` gives the bound.
* `update_ram_supply` multiplies slots and rate in 32 bits (`fscio.system.cpp:76`). At the maximum rate the product wraps after some 65538
  slots, about nine hours without a trade, against "new ram will be allocated at the old rate up to the present
  block" (line 92). `NewRam` wraps, and the records still agree (`MarketAddsUp`).
* an inactive producer that registers with another rate has its earlier blocks paid by the new one, because
  distribute_voters_rewards pays active producers only: "Give rewards to voters" (`voting.cpp:58`) does nothing for it. Blocks of a
  producer removed by rmvproducer stay in `total_unpaid_blocks` until then.
* newaccount by the system account takes no notice of an auction (`fscio.system.cpp:371`): the bid that leads or has won is lost to its bidder, who gets
  neither the name nor a refund. `WorthIsKept` names this case.
* with no inflation to issue, or at the maximum supply, the inline issue fails, and claimprod, unregprod and
  regproducer with a new rate fail with it: a producer cannot leave then.
* of a level that was requested twice and has approved twice, unapprove takes back the first approval only (`fscio.msig.cpp:102`), and exec counts
  the other, against "Revoke an approval of transaction" (`src/fscio.msig/README.md:24`) as a signatory would read it; it has to unapprove twice. Whether the chain
  lets a proposer request a level twice is not decided in this repository: propose leaves it to `check_transaction_authorization`.
* setalimits "only supports unlimited accounts" (`fscio.system.cpp:119`) and takes for one every account without a userres row, as is an account
  whose last stake was taken back while it had no RAM. What it sets lasts until the next stake.
* when a producer lapses, voteproducer takes its new total out of the rate at which all shares grow, which held its old one.

Contradicting no document: a changed number of votes counts for the whole time since the row last
aged; the part of an age unit that has passed is lost whenever a row ages; votes for an unregistered producer cannot be
taken back until it registers again; a voter's `last_claim_time` is one for all producers, so claiming from one delays the claims from the others.

## 5. Proofs

`TotalProofs` has that a set of naturals has a least member and what the other proofs need of sums: a total is a natural number, splits off any holder,
changes with one holder by as much, stays when two holders exchange, bounds every holder, and is zero of nothing.
`Totals` defines a sum as the cardinality of the set of units, so all of this follows from the library's
theorems about finite sets.

`TokenProofs` (`TypeCorrect`, `Conservation`, `SupplyBounded`, `RowsMatch`), for all sets of names,
codes and precisions and any `MaxAmount`, assuming that the names are finitely many and that the
values for absent rows are no rows. The invariant `Inv` is the conjunction of the type invariant with the three
properties. None is inductive alone: that a supply stays natural when its issuer retires needs the balance to be
part of the supply, and an issue within the maximum needs the supply to be within it. `SubEffect`, `AddEffect` and
`MovedEffect` say what the two balance functions do to a table; there is a lemma per action on top of them.
`KeepsALedger` is the refinement of `Ledger`: `SupplyChange`, `SameStat`, `HeldChange` and `SameHeld` say what a ledger sees of the
tables, and one lemma per action maps it to launching, minting, burning, moving or a stutter. A retire burns no more than the supply, and
an issue to another holder is one mint, only by the invariant.

`StakingProofs` (`TypeCorrect`, `Backed`, `Totalled`, `VotesBacked`, `LimitsFollow`, `DropsRecorded` for `AirdropIsRecorded` and the action property
`RefundsWait`), for all finite sets of accounts, all endowments, amounts, limits and delays. `Inv`
joins the type invariant, the three sums, the limits, the airdrop's record and `WeightsHaveRows`: that weights are never without a row is why setalimits,
which asks for no row, finds no stake. The types need the guards of
changebw, refund and voteproducer; the sums need the types. The heart is `PaidOrRefunded`: what changebw pays in and
what it takes out of the refund request make up the stake, whatever the two parts of the request are. `DelegationSums` says how
the sums over all delegations, over those to a receiver and over those by a staker move together; `QuietStep` deals
with all actions that move no tokens. `RecordsDrops` is the step of changebw for the airdrop: nobody pays in more than he stakes (`PaidAtMost`), what fscio.resad
stakes for others goes on record, resource by resource (`DropTotals`), and what it takes back comes to its own request. `StepsPay` collects what a step may do
to requests and pool, from which the action property follows.

Two refinements come on top of that invariant. `KeepsCustody`: by `PaidOrRefunded`, once more, and the sums over one staker's delegations
(`DelegationSums`) changebw adds to the claim of one account what somebody pays in (`ChangeBwClaims`), though the stake, the request and the
transfer may each be more or less than that; a refund takes the whole request out of its owner's claim (`PayRefundClaims`); everything else leaves claims
alone. `RefundsNeverBounce` follows from the sums: the pool covers any one request, so a refund that is due cannot fail for want of tokens.
`KeepsSuffrage` needs the sum of votes that `MinActivated` is compared with, and that an unstake leaves the staker's `staked_balance` natural.

`VotingProofs` (`TypeCorrect`, `Activation` for `VotesAddUp`, `OneTokenOneVote` for `VotesAreStaked`,
`VectorsMatchRows` for `VotersMatchVotes`, `AgesMatchRows` for `AgesAddUp`, `WeightsMatchVotes` for `WeightsOfLastVotes`,
`BestAreElected` for `BestAreProposed`), for all finite sets of voters and
producers, all numbers of votes, growths and lengths of the clock. `Inv` joins the type invariant, these four and the
first part of `WeightsOfLastVotes`. The ages add up only because the vector has exactly the voters with rows: a row
outside it would not be aged. That stakes stay natural is the guard of voteproducer; that the activated stake does, that
it is the sum of the producers' numbers. `VoteRows` and `ClaimRows` say what the two actions do to the rows, with one lemma
per table on top of them.

The second part of `WeightsOfLastVotes` needs `LoyalWeights`: what voteproducer takes back is the weight of the voter's only vote, or nothing
if there is none; votes are never withdrawn, so who is loyal now has always been (`LoyalBefore`). `BestAreProposed` follows
from the types alone: the index is a strict order (`BeforeIsOrder`), the number of rows before a producer is its rank, whoever stands
before a producer that may be elected may be, too, with no fewer votes (`BeforeElected`), and the first producer left out has all seats before it.

`KeepsSuffrage` is the refinement of `Suffrage`. What a voter has in votes is a sum over the producers that one voteproducer changes at one of them
(`MovesToVotes`), by what it takes out of the stake. An unstake waits for `activated`, and `Suffrage` for the sum over voters: `VotersAddUp`, an
invariant of its own, says that they are equal, though the code adds up by producer.

`PayProofs` (`PayIsVoting`, `PayTypeCorrect`, `UnpaidAgree`, `PayIsBacked`, `SecondClaimIsFair` for `ClaimsAreFair`), for all rates,
shares, periods and supplies. `PayStepVotes` shows that each action of `Pay` is a step of `Voting` or leaves it alone, so the invariant of
`Voting` is at hand. `DistributeStep` is the heart: a producer's blocks are at most the total, so its part is at most the bucket; a commission is at
most the whole, and what is left goes to the voters. `ClaimPaid` uses that a voter's age is at most the producer's. That the
second of two claims is no worse rests on every share being cut downwards (`RestKeepsShare`).

`RamProofs` (`TypeCorrect`, `RecordsAgree` for `MarketAddsUp`, `MarketIsSolvent` for `SellersGetPaid`, `LimitsFollowQuota` for `LimitIsQuota`),
for all first sizes, positive first quotes, supplies of RAMCORE, words, amounts and accounts. A conversion gives at most what keeps the product of the two connectors
(`ConvertBound`, from `IssuedIsRoot`: what is issued is the root cut to an integer). So no trade lowers the product (`TradeKeeps`), and growth raises the base and the size
together. The inductive part of the invariant is that `FirstQuote * max_ram_size` is at most the product: were all reserved RAM
sold, the quote would not fall below its first value, so the tokens paid for RAM cover it.

`NeverLoses` (for `MarketNeverLoses`) takes `TradeKeeps` to every action, those that move the market by other means included (`ProductStep`).
`BuysLessAlways` (for `BuysLess`) chains the bounds of the two conversions: the quote is at most what the product allows for the bytes (`PriceBound`), what
is bought at most what it allows for the quote (`BoughtBound`), and the product cancels, strictly (`CancelledStrictly`, `LessThanAsked`); in a market that has
not outgrown the quote this is fewer bytes than asked for (`SmallerPart`). Both are
polynomial inequalities over unbounded numbers, which TLC can only sample.

`NameAuctionProofs` (`TypeCorrect`, `DebtsCoveredAlways` for `DebtsAreCovered`, and the action properties `PaysOnlyForNames` for `WorthIsKept` and
`RefundsStayScheduled` for `RefundIsScheduled`), for all finite sets of bidders and names, all amounts, endowments and delays. Types and
`DebtsAreCovered` are inductive together. A lemma per action says what it does to each row; `StandingSum` and `RefundsSum` lift that to the sums.
`HoldingsChange` splits what a bidder has into hand, bids and refunds; `StepKeepsHoldings` says that only the claim of a name won takes from that, `StepLoses` that only
the system account's newaccount adds to the bids that are lost (`Forfeited`), and `WorthMoves` puts the two together. That a deferred bidrefund does not fail is `RefundInPot`, from the debts being covered.
`KeepsCustody` is the refinement of `Custody`. A claim is what a bidder holds less what he has in hand (`ClaimIsHeld`), so that the lemmas about holdings
serve again: `BidDeposits`, `PayWithdraws` and `AccountSpends` are the three steps, and only the last needs to know whose auction it was.

`MsigProofs` (`TypeCorrect`, `RowsMatchProposals` for `OneApprovalsRow`, `HashesBind` for `HashBinds`, the action properties `SeatsStay` for
`SeatsAreKept` and `ProposersCancel` for `OnlyProposerCancels`, and the refinement `KeepsThePromise`), for all levels, accounts, sufficient sets, expirations, numbers of seats and
blocks. The invariant adds to the three state properties that no approval is from the future (`Dates`) and that whatever
stands in a table for a level that is not `pledged` has been invalidated no earlier than it was given (`Covered`). So what exec counts
are pledged levels (`EffectivePledged`), although the block of an invalidation is shared by approvals before and
after it. `Standing`, an invariant of its own, says that nothing is left in a table of a level requested once that took its approval back, because
its one entry moved back among the requested; with it what exec counts of such levels is what they consent to
(`EffectiveConsents`). That who is requested repeatedly changes only with the proposal itself comes from the seats being kept (`RepeatedStays`, `RowsRest`, `ClosesRepeated`). `InheritedInv` deals with all steps that grant nothing. In the refinement a step changes what is live at one key (`LiveMoves`), but for the clock,
which can only end it: a second never goes back when a block comes (`LaterSecond`).

Some properties are proved and in no run, as what the runs check already covers them and a run would only repeat it: `SupplyWithinMax` (the types and `IsALedger`),
`StakesAreBacked`, `RefundsAreCovered` and `DebtsAreCovered` (`IsCustody`: the vault is the sum of the claims), staking's `IsSuffrage` (`StakeBacksVotes`
and the guards), `VotesAreStaked` (voting's `IsSuffrage` and the guard of `Stake`) and `OnlyProposerCancels` (`IsConsent`).

Only model-checked, as out of the provers' reach: liveness (`RefundIsPaid` in `Staking`, `OutbidArePaid` and `AuctionsClose` in
`NameAuction`).

## 6. Not modelled

* fscio.wrap: one action that hands a transaction to the chain under an id made of the executer and the time. It keeps no state; what the chain does
  with two transactions of one id is not in this repository.
* setparams, setpriv, updtrevision, setabi: each sets one value that no other action of the contracts reads. The native actions
  updateauth to onerror and setcode are empty.
* names with a dot in newaccount, memos, notifications, who pays for the RAM of table rows, the layout of rows.
* the rounding of doubles: weights, shares, rates and prices are exact and cut where the code casts to integers.
