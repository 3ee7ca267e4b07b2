--------------------------------- MODULE Pay ---------------------------------
(***************************************************************************)
(* What fscio.system pays producers and voters: inflation fills a bucket   *)
(* for blocks and one for votes, producers take their part by the blocks   *)
(* they signed and by their votes over time, keep what their commission    *)
(* rate leaves them, and voters claim the rest by the age of their votes.  *)
(*                                                                         *)
(* The actions are those of Voting, whole: each adds what the handler does *)
(* to the shares, buckets and rewards.  Commission rates are percentages,  *)
(* and products of rates, shares and ages are exact before they are cut to *)
(* tokens.  Savings are not followed.                                      *)
(*                                                                         *)
(* A definition whose name ends in _Something is a mutant of the one next  *)
(* to it.                                                                  *)
(***************************************************************************)
EXTENDS Voting

CONSTANTS
  Rates,           \* the commission rates, in percent
  FirstSupply,     \* the supply of the core token at the start
  MaxSupply,       \* its maximum_supply
  Year,            \* the ticks in which the inflation would issue the supply again
  MinVotePay,      \* less is not paid for votes
  Lapse,           \* after so many ticks without a claim votes earn nothing
  ProdPeriod,      \* claim_prod_rewards_preiod
  AdjustPeriod,    \* min_commission_adjustment_period
  MaxUnpaid        \* how many unpaid blocks are followed

ASSUME PayAssumption ==
  /\ Rates \subseteq 0..100
  /\ FirstSupply \in Nat /\ MaxSupply \in Nat /\ Year \in Nat \ {0} /\ MinVotePay \in Nat
  /\ Lapse \in Nat /\ ProdPeriod \in Nat /\ AdjustPeriod \in Nat /\ MaxUnpaid \in Nat

VARIABLES
  supply,
  bpay, vpay,             \* the balances of fscio.bpay and fscio.vpay
  last_fill,              \* last_pervote_bucket_fill
  pervote_bucket, perblock_bucket,
  total_unpaid,           \* total_unpaid_blocks
  unpaid_blocks,          \* unpaid_blocks[p]
  claimed_at,             \* claimed_at[p]: last_claim_time of the producer
  commission_rate, adjusted_at, \* of each producer, and when it last changed
  votepay_share, share_at,      \* of each producer, and when it was updated
  total_share, share_rate, total_at, \* total_producer_votepay_share, its rate, its update
  producer_block, producer_vote,     \* what each producer has to claim
  voters_block, voters_vote          \* what its voters have

tokens   == <<supply, bpay, vpay>>
buckets  == <<last_fill, pervote_bucket, perblock_bucket>>
blocks   == <<total_unpaid, unpaid_blocks>>
terms    == <<commission_rate, adjusted_at>>
shares   == <<claimed_at, votepay_share, share_at, total_share, share_rate, total_at>>
own      == <<producer_block, producer_vote>>
rewards  == <<own, voters_block, voters_vote>>
pay      == <<tokens, buckets, blocks, terms, shares, rewards>>
payVars  == <<vars, pay>>

Zero == [p \in Producers |-> 0]

PayInit ==
  /\ Init
  /\ supply = FirstSupply /\ bpay = 0 /\ vpay = 0
  /\ last_fill = Never /\ pervote_bucket = 0 /\ perblock_bucket = 0
  /\ total_unpaid = 0 /\ unpaid_blocks = Zero
  /\ commission_rate = Zero /\ adjusted_at = Zero
  /\ claimed_at = Zero /\ votepay_share = Zero /\ share_at = Zero
  /\ total_share = 0 /\ share_rate = 0 /\ total_at = 0
  /\ producer_block = Zero /\ producer_vote = Zero
  /\ voters_block = Zero /\ voters_vote = Zero

-----------------------------------------------------------------------------
(***************************************************************************)
(* The first half of distribute_voters_rewards: the tokens of the time     *)
(* since the buckets were last filled.  They are issued and moved inline,  *)
(* which fails for no tokens and above the maximum.                        *)
(***************************************************************************)
Filling == last_fill # Never /\ now > last_fill

NewTokens == IF Filling THEN (supply * (now - last_fill)) \div Year ELSE 0
ToBlocks  == NewTokens \div 5
ToVotes   == (3 * NewTokens) \div 10

Fill ==
  /\ Filling => ToBlocks > 0 /\ ToVotes > 0 /\ supply + NewTokens <= MaxSupply
  /\ supply' = supply + NewTokens
  /\ last_fill' = IF Filling THEN now ELSE last_fill

(***************************************************************************)
(* Shares of the vote pay: votes times seconds.  A producer that has not   *)
(* claimed for a while is taken out, once, when somebody votes for it.     *)
(***************************************************************************)
Crossed(p) == claimed_at[p] + Lapse <= now

UpdatedSince(p) == claimed_at[p] + Lapse <= share_at[p]

Share(p, weight) ==
  votepay_share[p] + (IF UpdatedSince(p) THEN 0 ELSE weight * (now - share_at[p]))

AllShares == Positive(total_share + share_rate * (now - total_at))

(***************************************************************************)
(* What the producer has earned: its part of the bucket for blocks, and,   *)
(* unless it comes too late or it is too little, of the one for votes.     *)
(***************************************************************************)
BlockPay(p) ==
  IF total_unpaid > 0
  THEN ((perblock_bucket + ToBlocks) * unpaid_blocks[p]) \div total_unpaid
  ELSE 0

Part_Uncapped(p) ==
  ((pervote_bucket + ToVotes) * Share(p, total_votes[p])) \div AllShares

Part(p) ==
  LET bucket == pervote_bucket + ToVotes
      part   == (bucket * Share(p, total_votes[p])) \div AllShares
  IN  IF part > bucket THEN bucket ELSE part

VotePay(p) ==
  IF AllShares > 0 /\ ~Crossed(p) /\ Part(p) >= MinVotePay THEN Part(p) ELSE 0

ForVoters(p, amount) == (amount * commission_rate[p]) \div 100

(***************************************************************************)
(* distribute_voters_rewards: all but the accounts' balances and what the  *)
(* producer has to claim, which its callers go on with.                    *)
(***************************************************************************)
StillUnpaid_Same(p) == total_unpaid

StillUnpaid(p) == total_unpaid - unpaid_blocks[p]

Earned(p, amount) == IF p \in active THEN amount - ForVoters(p, amount) ELSE 0

Distribute(p) ==
  /\ IsActivated
  /\ Fill
  /\ \/ /\ p \notin active
        /\ pervote_bucket' = pervote_bucket + ToVotes
        /\ perblock_bucket' = perblock_bucket + ToBlocks
        /\ UNCHANGED <<blocks, shares, voters_block, voters_vote>>
     \/ /\ p \in active
        /\ pervote_bucket' = pervote_bucket + ToVotes - VotePay(p)
        /\ perblock_bucket' = perblock_bucket + ToBlocks - BlockPay(p)
        /\ total_unpaid' = StillUnpaid(p)
        /\ unpaid_blocks' = [unpaid_blocks EXCEPT ![p] = 0]
        /\ claimed_at' = [claimed_at EXCEPT ![p] = now]
        /\ votepay_share' = [votepay_share EXCEPT ![p] = 0]
        /\ share_at' = [share_at EXCEPT ![p] = now]
        /\ total_share' = Positive(AllShares - Share(p, total_votes[p]))
        /\ share_rate' = share_rate + (IF UpdatedSince(p) THEN total_votes[p] ELSE 0)
        /\ total_at' = now
        /\ voters_block' = [voters_block EXCEPT ![p] = voters_block[p] + ForVoters(p, BlockPay(p))]
        /\ voters_vote' = [voters_vote EXCEPT ![p] = voters_vote[p] + ForVoters(p, VotePay(p))]

Credited(p) ==
  /\ bpay' = bpay + ToBlocks
  /\ vpay' = vpay + ToVotes
  /\ producer_block' = [producer_block EXCEPT ![p] = producer_block[p] + Earned(p, BlockPay(p))]
  /\ producer_vote' = [producer_vote EXCEPT ![p] = producer_vote[p] + Earned(p, VotePay(p))]

(***************************************************************************)
(* claimprod: the producer is paid what is distributed now and what was    *)
(* distributed before.                                                     *)
(***************************************************************************)
Rest_Kept(p, balance) == balance

Rest(p, balance) == [balance EXCEPT ![p] = 0]

ClaimProd(p) ==
  /\ p \in registered
  /\ now - claimed_at[p] >= ProdPeriod
  /\ Distribute(p)
  /\ bpay' = bpay + ToBlocks - producer_block[p] - Earned(p, BlockPay(p))
  /\ vpay' = vpay + ToVotes - producer_vote[p] - Earned(p, VotePay(p))
  /\ producer_block' = Rest(p, producer_block)
  /\ producer_vote' = Rest(p, producer_vote)
  /\ UNCHANGED <<vars, terms>>

(***************************************************************************)
(* regproducer: a new row, the old terms again, or other terms, for which  *)
(* it must have waited, which may not fall by more than a twentieth, and   *)
(* before which an active producer is paid by the old ones.                *)
(***************************************************************************)
Enter(p, r) ==
  /\ p \notin registered
  /\ RegProducer(p)
  /\ commission_rate' = [commission_rate EXCEPT ![p] = r]
  /\ adjusted_at' = [adjusted_at EXCEPT ![p] = now]
  /\ claimed_at' = [claimed_at EXCEPT ![p] = now]
  /\ share_at' = [share_at EXCEPT ![p] = now]
  /\ UNCHANGED <<tokens, buckets, blocks, rewards, votepay_share, total_share, share_rate, total_at>>

Reenter(p) ==
  /\ p \in registered
  /\ RegProducer(p)
  /\ UNCHANGED pay

Adjust(p, r) ==
  /\ p \in registered
  /\ r # commission_rate[p]
  /\ now - adjusted_at[p] > AdjustPeriod
  /\ (commission_rate[p] - r) * 20 <= commission_rate[p]
  /\ Distribute(p)
  /\ Credited(p)
  /\ RegProducer(p)
  /\ commission_rate' = [commission_rate EXCEPT ![p] = r]
  /\ adjusted_at' = [adjusted_at EXCEPT ![p] = now]

(***************************************************************************)
(* unregprod pays the producer before it leaves, rmvproducer does not.     *)
(***************************************************************************)
Leave(p) ==
  /\ Distribute(p)
  /\ Credited(p)
  /\ UnregProd(p)
  /\ UNCHANGED terms

Remove(p) ==
  /\ RmvProducer(p)
  /\ UNCHANGED pay

(***************************************************************************)
(* onblock: the first after activation starts the pay; who signs a block   *)
(* needs a row to be paid for it.  The schedule is not always updated.     *)
(***************************************************************************)
Block(p) ==
  /\ IsActivated
  /\ last_fill' = IF last_fill = Never THEN now ELSE last_fill
  /\ IF p \in registered
     THEN /\ total_unpaid < MaxUnpaid
          /\ total_unpaid' = total_unpaid + 1
          /\ unpaid_blocks' = [unpaid_blocks EXCEPT ![p] = unpaid_blocks[p] + 1]
     ELSE UNCHANGED blocks
  /\ UNCHANGED vars \/ \E accepted \in BOOLEAN : OnBlock(accepted)
  /\ UNCHANGED <<tokens, pervote_bucket, perblock_bucket, terms, shares, rewards>>

(***************************************************************************)
(* voteproducer brings the share of the producer up to date, by the votes  *)
(* that it has now, and the rate at which all shares grow.                 *)
(***************************************************************************)
Lapses(p) == Crossed(p) /\ ~UpdatedSince(p)

Vote(v, p, k) ==
  LET share == Share(p, total_votes'[p])
      rate  == CASE ~Crossed(p) -> Gain(v, k)
                 [] Lapses(p)   -> -total_votes'[p]
                 [] OTHER       -> 0
  IN  /\ VoteProducer(v, p, k)
      /\ votepay_share' = [votepay_share EXCEPT ![p] = IF Lapses(p) THEN 0 ELSE share]
      /\ share_at' = [share_at EXCEPT ![p] = now]
      /\ total_share' = Positive(total_share + share_rate * (now - total_at)
                                 - (IF Lapses(p) THEN share ELSE 0))
      /\ share_rate' = Positive(share_rate + rate)
      /\ total_at' = now
      /\ UNCHANGED <<tokens, buckets, blocks, terms, rewards, claimed_at>>

(***************************************************************************)
(* claimvoter: the part of the voters' rewards that v's age is of all.     *)
(***************************************************************************)
Cut_RoundsUp(v, p, reward) ==
  LET rows == AllAged(votes, p)
  IN  (reward * rows[<<v, p>>].age + TotalAge(rows, p) - 1) \div TotalAge(rows, p)

Cut(v, p, reward) ==
  LET rows == AllAged(votes, p)
  IN  (reward * rows[<<v, p>>].age) \div TotalAge(rows, p)

Claim(v, p) ==
  /\ ClaimVoter(v, p)
  /\ vpay' = vpay - Cut(v, p, voters_vote[p])
  /\ bpay' = bpay - Cut(v, p, voters_block[p])
  /\ voters_vote' = [voters_vote EXCEPT ![p] = voters_vote[p] - Cut(v, p, voters_vote[p])]
  /\ voters_block' = [voters_block EXCEPT ![p] = voters_block[p] - Cut(v, p, voters_block[p])]
  /\ UNCHANGED <<supply, buckets, blocks, terms, shares, own>>

(***************************************************************************)
(* Staking and the clock move none of this.                                *)
(***************************************************************************)
Fund(v, k) == Stake(v, k) /\ UNCHANGED pay

Pass == Tick /\ UNCHANGED pay

PayNext ==
  \/ \E v \in Voters : \E k \in 0..Tokens[v] : Fund(v, k)
  \/ \E p \in Producers, r \in Rates : Enter(p, r)
  \/ \E p \in Producers : Reenter(p)
  \/ \E p \in Producers, r \in Rates : Adjust(p, r)
  \/ \E p \in Producers : Leave(p)
  \/ \E p \in Producers : Remove(p)
  \/ \E v \in Voters, p \in Producers, k \in VoteNums : Vote(v, p, k)
  \/ \E p \in Producers : ClaimProd(p)
  \/ \E v \in Voters, p \in Producers : Claim(v, p)
  \/ \E p \in Producers : Block(p)
  \/ Pass

PaySpec == PayInit /\ [][PayNext]_payVars

-----------------------------------------------------------------------------
(***************************************************************************)
(* No bucket, reward or share is negative: what a producer is paid for     *)
(* votes is in the bucket though shares and their total drift apart.       *)
(***************************************************************************)
PayTypeOK ==
  /\ supply \in Nat /\ bpay \in Nat /\ vpay \in Nat
  /\ last_fill \in Time \cup {Never} /\ (last_fill # Never => last_fill <= now)
  /\ pervote_bucket \in Nat /\ perblock_bucket \in Nat
  /\ total_unpaid \in Nat /\ unpaid_blocks \in [Producers -> Nat]
  /\ claimed_at \in [Producers -> Time]
  /\ commission_rate \in [Producers -> 0..100] /\ adjusted_at \in [Producers -> Time]
  /\ votepay_share \in [Producers -> Nat] /\ share_at \in [Producers -> Time]
  /\ \A p \in Producers : share_at[p] <= now
  /\ total_share \in Nat /\ share_rate \in Nat /\ total_at \in 0..now
  /\ producer_block \in [Producers -> Nat] /\ producer_vote \in [Producers -> Nat]
  /\ voters_block \in [Producers -> Nat] /\ voters_vote \in [Producers -> Nat]

(***************************************************************************)
(* total_unpaid_blocks are "all blocks which have been produced but not    *)
(* paid" (fscio.system.hpp:92), producer by producer, whoever registers,   *)
(* claims, leaves or is removed between the blocks.                        *)
(***************************************************************************)
UnpaidAddUp == total_unpaid = Total(unpaid_blocks, Producers)

(***************************************************************************)
(* fscio.bpay and fscio.vpay hold exactly what is owed: the bucket and the *)
(* rewards of producers and voters.  No claim can fail for want of tokens, *)
(* and nothing is left over.                                               *)
(***************************************************************************)
RewardsAreBacked ==
  /\ bpay = perblock_bucket + Total(producer_block, Producers) + Total(voters_block, Producers)
  /\ vpay = pervote_bucket + Total(producer_vote, Producers) + Total(voters_vote, Producers)

(***************************************************************************)
(* It does not pay to claim first: a claim leaves the other voters of the  *)
(* producer at least as much reward for their age as there was for all.    *)
(***************************************************************************)
ClaimsAreFair ==
  [][\A v \in Voters, p \in Producers : Claim(v, p) =>
       LET before == TotalAge(AllAged(votes, p), p)
           after  == total_voteage'[p]
       IN  /\ voters_vote'[p] * before >= voters_vote[p] * after
           /\ voters_block'[p] * before >= voters_block[p] * after]_payVars
=============================================================================
