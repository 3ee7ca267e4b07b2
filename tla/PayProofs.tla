------------------------------ MODULE PayProofs ------------------------------
(***************************************************************************)
(* Every action of Pay is one of Voting, and the pay account of the        *)
(* contract covers what it owes for all sets of voters and producers, all  *)
(* votes, commission rates, supplies and periods.                          *)
(***************************************************************************)
EXTENDS Pay, VotingProofs

(***************************************************************************)
(* The inductive invariant.  What a producer is paid is in the bucket      *)
(* because its blocks are among the unpaid ones and the part of the votes  *)
(* is capped; what a voter is paid is in the reward because the ages of    *)
(* Voting add up.                                                          *)
(***************************************************************************)
PayInv ==
  /\ Inv
  /\ PayTypeOK
  /\ UnpaidAddUp
  /\ RewardsAreBacked

-----------------------------------------------------------------------------
(***************************************************************************)
(* A part of an amount is no more than the amount, and no more than its    *)
(* share.                                                                  *)
(***************************************************************************)
LEMMA Quotient ==
  ASSUME NEW n \in Nat, NEW c \in Nat, c > 0
  PROVE  n \div c \in Nat /\ (n \div c) * c <= n
OBVIOUS

LEMMA ProductType ==
  ASSUME NEW a \in Nat, NEW b \in Nat
  PROVE  a * b \in Nat
OBVIOUS

LEMMA PartType ==
  ASSUME NEW a \in Nat, NEW b \in Nat, NEW c \in Nat, c > 0
  PROVE  (a * b) \div c \in Nat
OBVIOUS

LEMMA PartLeq ==
  ASSUME NEW a \in Nat, NEW b \in Nat, NEW c \in Nat, c > 0, b <= c
  PROVE  (a * b) \div c \in Nat /\ (a * b) \div c <= a
OBVIOUS

(***************************************************************************)
(* A part that is cut down leaves the rest at least its share.             *)
(***************************************************************************)
LEMMA RestKeepsShare ==
  ASSUME NEW V \in Nat, NEW a \in Nat, NEW T \in Nat, NEW c \in Nat, c * T <= V * a
  PROVE  (V - c) * T >= V * (T - a)
OBVIOUS

LEMMA PositiveType ==
  ASSUME NEW k \in Int
  PROVE  Positive(k) \in Nat
BY DEF Positive

LEMMA IntProduct ==
  ASSUME NEW a \in Int, NEW b \in Int
  PROVE  a * b \in Int
OBVIOUS

-----------------------------------------------------------------------------
(***************************************************************************)
(* What is issued is natural.                                              *)
(***************************************************************************)
LEMMA IssueType ==
  ASSUME PayInv
  PROVE  NewTokens \in Nat /\ ToBlocks \in Nat /\ ToVotes \in Nat
<1>1. NewTokens \in Nat
  <2>1. CASE ~Filling
    BY <2>1 DEF NewTokens
  <2>2. CASE Filling
    <3>1. now \in Nat /\ last_fill \in Nat /\ now - last_fill \in Nat
      BY <2>2 DEF Filling, PayInv, PayTypeOK, Inv, TypeOK, Time
    <3>2. supply \in Nat /\ Year \in Nat /\ Year > 0
      BY PayAssumption DEF PayInv, PayTypeOK
    <3> DEFINE d == now - last_fill
    <3>3. NewTokens = (supply * d) \div Year
      BY <2>2 DEF NewTokens
    <3>4. d \in Nat
      BY <3>1
    <3> HIDE DEF d
    <3>5. (supply * d) \div Year \in Nat
      BY <3>2, <3>4, PartType
    <3> QED
      BY <3>3, <3>5
  <2> QED
    BY <2>1, <2>2
<1> DEFINE n == NewTokens
<1>2. n \in Nat /\ ToBlocks = n \div 5 /\ ToVotes = (3 * n) \div 10
  BY <1>1 DEF ToBlocks, ToVotes
<1> HIDE DEF n
<1>3. n \div 5 \in Nat /\ (3 * n) \div 10 \in Nat
  BY <1>2
<1> QED
  BY <1>1, <1>2, <1>3

(***************************************************************************)
(* Shares are natural, of a producer and of all.                           *)
(***************************************************************************)
LEMMA ShareType ==
  ASSUME PayInv, NEW p \in Producers, NEW weight \in Nat
  PROVE  Share(p, weight) \in Nat
<1> DEFINE d == now - share_at[p]
<1>1. now \in Nat /\ share_at[p] \in Nat /\ share_at[p] <= now /\ votepay_share[p] \in Nat
  BY DEF PayInv, PayTypeOK, Inv, TypeOK, Time
<1>2. d \in Nat
  BY <1>1
<1>3. Share(p, weight) = votepay_share[p] + (IF UpdatedSince(p) THEN 0 ELSE weight * d)
  BY DEF Share
<1> HIDE DEF d
<1>4. weight * d \in Nat
  BY <1>2, ProductType
<1> QED
  BY <1>1, <1>3, <1>4

LEMMA AllSharesType ==
  ASSUME PayInv
  PROVE  share_rate * (now - total_at) \in Int /\ AllShares \in Nat
<1> DEFINE d == now - total_at
<1>1. d \in Int /\ share_rate \in Int /\ total_share \in Int
  BY DEF PayInv, PayTypeOK, Inv, TypeOK, Time
<1>2. AllShares = Positive(total_share + share_rate * d)
  BY DEF AllShares
<1>3. share_rate * d \in Int
  <2> HIDE DEF d
  <2> QED
    BY <1>1, IntProduct
<1> DEFINE e == share_rate * d
<1>4. total_share + e \in Int
  <2>1. e \in Int
    BY <1>3
  <2> HIDE DEF e
  <2> QED
    BY <1>1, <2>1
<1>5. Positive(total_share + e) \in Nat
  BY <1>4, PositiveType
<1> QED
  BY <1>2, <1>3, <1>5

(***************************************************************************)
(* What a producer has earned is in the buckets.                           *)
(***************************************************************************)
LEMMA BlockPayInBucket ==
  ASSUME PayInv, NEW p \in Producers
  PROVE  BlockPay(p) \in Nat /\ BlockPay(p) <= perblock_bucket + ToBlocks
<1> DEFINE a == perblock_bucket + ToBlocks
           b == unpaid_blocks[p]
<1>1. a \in Nat /\ b \in Nat /\ total_unpaid \in Nat
  BY IssueType DEF PayInv, PayTypeOK
<1>2. b <= total_unpaid
  <2>1. total_unpaid = Total(unpaid_blocks, Producers) /\ \A q \in Producers : unpaid_blocks[q] \in Nat
    BY DEF PayInv, PayTypeOK, UnpaidAddUp
  <2> QED
    BY <2>1, NamesAssumption, TotalBounds
<1>3. BlockPay(p) = IF total_unpaid > 0 THEN (a * b) \div total_unpaid ELSE 0
  BY DEF BlockPay
<1> HIDE DEF a, b
<1>4. total_unpaid > 0 => (a * b) \div total_unpaid \in Nat /\ (a * b) \div total_unpaid <= a
  BY <1>1, <1>2, PartLeq
<1>5. BlockPay(p) \in Nat /\ BlockPay(p) <= a
  BY <1>1, <1>3, <1>4
<1> QED
  BY <1>5 DEF a

LEMMA VotePayInBucket ==
  ASSUME PayInv, NEW p \in Producers
  PROVE  VotePay(p) \in Nat /\ VotePay(p) <= pervote_bucket + ToVotes
<1> DEFINE a == pervote_bucket + ToVotes
           s == Share(p, total_votes[p])
           n == AllShares
           part == (a * s) \div n
<1>1. a \in Nat
  BY IssueType DEF PayInv, PayTypeOK
<1>2. s \in Nat
  <2>1. total_votes[p] \in Nat
    BY DEF PayInv, Inv, TypeOK
  <2> QED
    BY <2>1, ShareType
<1>3. n \in Nat
  BY AllSharesType
<1>4. Part(p) = IF part > a THEN a ELSE part
  BY DEF Part
<1>5. VotePay(p) = Part(p) \/ VotePay(p) = 0
  BY DEF VotePay
<1>6. VotePay(p) = Part(p) => n > 0 \/ VotePay(p) = 0
  BY DEF VotePay
<1>7. n > 0 => part \in Nat
  <2> HIDE DEF a, s, n
  <2> QED
    BY <1>1, <1>2, <1>3, PartType
<1> HIDE DEF a, s, n, part
<1>8. n > 0 => Part(p) \in Nat /\ Part(p) <= a
  BY <1>1, <1>4, <1>7
<1>9. VotePay(p) \in Nat /\ VotePay(p) <= a
  BY <1>1, <1>5, <1>6, <1>8
<1> QED
  BY <1>9 DEF a

LEMMA CommissionLeaves ==
  ASSUME PayInv, NEW p \in Producers, NEW amount \in Nat
  PROVE  /\ ForVoters(p, amount) \in Nat /\ ForVoters(p, amount) <= amount
         /\ amount - ForVoters(p, amount) \in Nat
<1> DEFINE r == commission_rate[p]
<1>1. r \in Nat /\ r <= 100
  BY DEF PayInv, PayTypeOK
<1>2. ForVoters(p, amount) = (amount * r) \div 100
  BY DEF ForVoters
<1> HIDE DEF r
<1>3. (amount * r) \div 100 \in Nat /\ (amount * r) \div 100 <= amount
  BY <1>1, PartLeq
<1> DEFINE c == (amount * r) \div 100
<1> HIDE DEF c
<1>4. c \in Nat /\ c <= amount => amount - c \in Nat
  OBVIOUS
<1> QED
  BY <1>2, <1>3, <1>4 DEF c

-----------------------------------------------------------------------------
(***************************************************************************)
(* Adding to one entry of a table of rewards adds as much to its total.    *)
(***************************************************************************)
LEMMA Added ==
  ASSUME NEW f \in [Producers -> Nat], NEW p \in Producers, NEW d \in Int, f[p] + d \in Nat
  PROVE  LET g == [f EXCEPT ![p] = f[p] + d]
         IN  g \in [Producers -> Nat] /\ Total(g, Producers) = Total(f, Producers) + d
<1> DEFINE g == [f EXCEPT ![p] = f[p] + d]
<1>1. g \in [Producers -> Nat]
  OBVIOUS
<1>2. g[p] = f[p] + d /\ \A q \in Producers \ {p} : g[q] = f[q]
  OBVIOUS
<1> HIDE DEF g
<1>3. \A q \in Producers : f[q] \in Nat /\ g[q] \in Nat
  BY <1>1
<1>4. Total(g, Producers) = Total(f, Producers) + d
  BY <1>2, <1>3, ProducersTotal
<1> QED
  BY <1>1, <1>4 DEF g

LEMMA TotalsType ==
  ASSUME NEW f \in [Producers -> Nat]
  PROVE  Total(f, Producers) \in Nat
<1>1. \A q \in Producers : f[q] \in Nat
  OBVIOUS
<1> QED
  BY <1>1, NamesAssumption, TotalType

(***************************************************************************)
(* Emptying an entry takes it out of the total.                            *)
(***************************************************************************)
LEMMA Emptied ==
  ASSUME NEW f \in [Producers -> Nat], NEW p \in Producers
  PROVE  /\ [f EXCEPT ![p] = 0] \in [Producers -> Nat]
         /\ Total([f EXCEPT ![p] = 0], Producers) = Total(f, Producers) - f[p]
<1> DEFINE d == 0 - f[p]
           g == [f EXCEPT ![p] = f[p] + d]
<1>1. d \in Int /\ f[p] + d = 0 /\ f[p] \in Nat
  OBVIOUS
<1>2. [f EXCEPT ![p] = 0] = g
  BY <1>1
<1>3. f[p] + d \in Nat
  BY <1>1
<1>4. Total(f, Producers) \in Nat
  BY TotalsType
<1> HIDE DEF d
<1>5. g \in [Producers -> Nat] /\ Total(g, Producers) = Total(f, Producers) + d
  BY <1>1, <1>3, Added
<1>6. Total(f, Producers) + d = Total(f, Producers) - f[p]
  BY <1>1, <1>4 DEF d
<1> HIDE DEF g
<1> QED
  BY <1>2, <1>5, <1>6

(***************************************************************************)
(* What distribute_voters_rewards does to the rows that it updates.        *)
(***************************************************************************)
DistributeTypes ==
  /\ supply' \in Nat /\ last_fill' \in Time \cup {Never} /\ (last_fill' # Never => last_fill' <= now)
  /\ pervote_bucket' \in Nat /\ perblock_bucket' \in Nat
  /\ total_unpaid' \in Nat /\ unpaid_blocks' \in [Producers -> Nat]
  /\ claimed_at' \in [Producers -> Time]
  /\ votepay_share' \in [Producers -> Nat] /\ share_at' \in [Producers -> Time]
  /\ \A q \in Producers : share_at'[q] <= now
  /\ total_share' \in Nat /\ share_rate' \in Nat /\ total_at' \in 0..now
  /\ voters_block' \in [Producers -> Nat] /\ voters_vote' \in [Producers -> Nat]

LEMMA FillTypes ==
  ASSUME PayInv, Fill
  PROVE  supply' \in Nat /\ last_fill' \in Time \cup {Never} /\ (last_fill' # Never => last_fill' <= now)
<1>1. supply' = supply + NewTokens /\ last_fill' = IF Filling THEN now ELSE last_fill
  BY DEF Fill
<1>2. supply \in Nat /\ NewTokens \in Nat
  BY IssueType DEF PayInv, PayTypeOK
<1>3. /\ now \in Time /\ now \in Nat
      /\ last_fill \in Time \cup {Never} /\ (last_fill # Never => last_fill <= now)
  BY DEF PayInv, PayTypeOK, Inv, TypeOK, Time
<1> QED
  BY <1>1, <1>2, <1>3

(***************************************************************************)
(* Paid as the code pays an active producer.                               *)
(***************************************************************************)
LEMMA DistributeActive ==
  ASSUME PayInv, NEW p \in Producers, Distribute(p), p \in active
  PROVE  /\ DistributeTypes
         /\ UnpaidAddUp'
         /\ perblock_bucket' = perblock_bucket + ToBlocks - BlockPay(p)
         /\ pervote_bucket' = pervote_bucket + ToVotes - VotePay(p)
         /\ Total(voters_block', Producers) = Total(voters_block, Producers) + ForVoters(p, BlockPay(p))
         /\ Total(voters_vote', Producers) = Total(voters_vote, Producers) + ForVoters(p, VotePay(p))
<1> DEFINE bp == BlockPay(p)
           vp == VotePay(p)
           fb == ForVoters(p, bp)
           fv == ForVoters(p, vp)
           sh == Share(p, total_votes[p])
           all == AllShares
<1>1. /\ Fill
      /\ pervote_bucket' = pervote_bucket + ToVotes - vp
      /\ perblock_bucket' = perblock_bucket + ToBlocks - bp
      /\ total_unpaid' = total_unpaid - unpaid_blocks[p]
      /\ unpaid_blocks' = [unpaid_blocks EXCEPT ![p] = 0]
      /\ claimed_at' = [claimed_at EXCEPT ![p] = now]
      /\ votepay_share' = [votepay_share EXCEPT ![p] = 0]
      /\ share_at' = [share_at EXCEPT ![p] = now]
      /\ total_share' = Positive(all - sh)
      /\ share_rate' = share_rate + (IF UpdatedSince(p) THEN total_votes[p] ELSE 0)
      /\ total_at' = now
      /\ voters_block' = [voters_block EXCEPT ![p] = voters_block[p] + fb]
      /\ voters_vote' = [voters_vote EXCEPT ![p] = voters_vote[p] + fv]
  BY DEF Distribute, StillUnpaid
<1>2. /\ supply' \in Nat /\ last_fill' \in Time \cup {Never}
      /\ (last_fill' # Never => last_fill' <= now)
  BY <1>1, FillTypes
<1>3. /\ pervote_bucket \in Nat /\ perblock_bucket \in Nat
      /\ total_unpaid \in Nat /\ unpaid_blocks \in [Producers -> Nat]
      /\ claimed_at \in [Producers -> Time]
      /\ votepay_share \in [Producers -> Nat] /\ share_at \in [Producers -> Time]
      /\ \A q \in Producers : share_at[q] <= now
      /\ share_rate \in Nat
      /\ voters_block \in [Producers -> Nat] /\ voters_vote \in [Producers -> Nat]
  BY DEF PayInv, PayTypeOK
<1>4. now \in Time /\ now \in Nat /\ total_votes[p] \in Nat
  BY DEF PayInv, Inv, TypeOK, Time
<1>5. ToBlocks \in Nat /\ ToVotes \in Nat
  BY IssueType
<1>6. bp \in Nat /\ bp <= perblock_bucket + ToBlocks
  BY BlockPayInBucket
<1>7. vp \in Nat /\ vp <= pervote_bucket + ToVotes
  BY VotePayInBucket
<1>8. fb \in Nat /\ fv \in Nat
  <2> HIDE DEF bp, vp
  <2> QED
    BY <1>6, <1>7, CommissionLeaves
<1>9. sh \in Nat /\ all \in Nat
  BY <1>4, ShareType, AllSharesType
<1> HIDE DEF bp, vp, fb, fv, sh, all
<1>10. pervote_bucket' \in Nat /\ perblock_bucket' \in Nat
  BY <1>1, <1>3, <1>5, <1>6, <1>7
<1>11. total_share' \in Nat
  <2>1. all - sh \in Int
    BY <1>9
  <2> QED
    BY <1>1, <2>1, PositiveType
<1>12. share_rate' \in Nat /\ total_at' \in 0..now
  BY <1>1, <1>3, <1>4
<1>13. /\ claimed_at' \in [Producers -> Time] /\ votepay_share' \in [Producers -> Nat]
       /\ share_at' \in [Producers -> Time] /\ \A q \in Producers : share_at'[q] <= now
  BY <1>1, <1>3, <1>4
<1>14. /\ unpaid_blocks' \in [Producers -> Nat]
       /\ Total(unpaid_blocks', Producers) = Total(unpaid_blocks, Producers) - unpaid_blocks[p]
  BY <1>1, <1>3, Emptied
<1>15. UnpaidAddUp'
  BY <1>1, <1>14 DEF PayInv, UnpaidAddUp
<1>16. total_unpaid' \in Nat
  BY <1>14, <1>15, TotalsType DEF UnpaidAddUp
<1>17. voters_block' \in [Producers -> Nat]
       /\ Total(voters_block', Producers) = Total(voters_block, Producers) + fb
  <2> DEFINE f == voters_block
  <2>1. f \in [Producers -> Nat] /\ fb \in Int /\ f[p] + fb \in Nat
    BY <1>3, <1>8
  <2>2. voters_block' = [f EXCEPT ![p] = f[p] + fb]
    BY <1>1
  <2> HIDE DEF f
  <2>3. voters_block' \in [Producers -> Nat] /\ Total(voters_block', Producers) = Total(f, Producers) + fb
    BY <2>1, <2>2, Added
  <2> QED
    BY <2>3 DEF f
<1>18. voters_vote' \in [Producers -> Nat]
       /\ Total(voters_vote', Producers) = Total(voters_vote, Producers) + fv
  <2> DEFINE f == voters_vote
  <2>1. f \in [Producers -> Nat] /\ fv \in Int /\ f[p] + fv \in Nat
    BY <1>3, <1>8
  <2>2. voters_vote' = [f EXCEPT ![p] = f[p] + fv]
    BY <1>1
  <2> HIDE DEF f
  <2>3. voters_vote' \in [Producers -> Nat] /\ Total(voters_vote', Producers) = Total(f, Producers) + fv
    BY <2>1, <2>2, Added
  <2> QED
    BY <2>3 DEF f
<1>19. DistributeTypes
  BY <1>2, <1>10, <1>11, <1>12, <1>13, <1>14, <1>16, <1>17, <1>18 DEF DistributeTypes
<1> QED
  BY <1>1, <1>15, <1>17, <1>18, <1>19 DEF bp, vp, fb, fv

(***************************************************************************)
(* Nobody is paid when the producer is not active: the buckets grow.       *)
(***************************************************************************)
LEMMA DistributeInactive ==
  ASSUME PayInv, NEW p \in Producers, Distribute(p), p \notin active
  PROVE  /\ DistributeTypes
         /\ UnpaidAddUp'
         /\ perblock_bucket' = perblock_bucket + ToBlocks
         /\ pervote_bucket' = pervote_bucket + ToVotes
         /\ Total(voters_block', Producers) = Total(voters_block, Producers)
         /\ Total(voters_vote', Producers) = Total(voters_vote, Producers)
<1>1. /\ Fill
      /\ perblock_bucket' = perblock_bucket + ToBlocks
      /\ pervote_bucket' = pervote_bucket + ToVotes
      /\ UNCHANGED <<total_unpaid, unpaid_blocks, claimed_at, votepay_share, share_at, total_share,
                     share_rate, total_at, voters_block, voters_vote>>
  BY DEF Distribute, blocks, shares
<1>2. /\ supply' \in Nat /\ last_fill' \in Time \cup {Never}
      /\ (last_fill' # Never => last_fill' <= now)
  BY <1>1, FillTypes
<1>3. pervote_bucket' \in Nat /\ perblock_bucket' \in Nat
  BY <1>1, IssueType DEF PayInv, PayTypeOK
<1>4. DistributeTypes
  BY <1>1, <1>2, <1>3 DEF DistributeTypes, PayInv, PayTypeOK
<1>5. UnpaidAddUp'
  BY <1>1 DEF PayInv, UnpaidAddUp
<1> QED
  BY <1>1, <1>4, <1>5

(***************************************************************************)
(* Either way: what is issued goes to the buckets, the voters and the      *)
(* producer, and nowhere else.                                             *)
(***************************************************************************)
LEMMA DistributeStep ==
  ASSUME PayInv, NEW p \in Producers, Distribute(p)
  PROVE  /\ DistributeTypes
         /\ UnpaidAddUp'
         /\ Earned(p, BlockPay(p)) \in Nat /\ Earned(p, VotePay(p)) \in Nat
         /\ perblock_bucket' + Total(voters_block', Producers) + Earned(p, BlockPay(p))
              = perblock_bucket + ToBlocks + Total(voters_block, Producers)
         /\ pervote_bucket' + Total(voters_vote', Producers) + Earned(p, VotePay(p))
              = pervote_bucket + ToVotes + Total(voters_vote, Producers)
<1> DEFINE bp == BlockPay(p)
           vp == VotePay(p)
           eb == Earned(p, bp)
           ev == Earned(p, vp)
           fb == ForVoters(p, bp)
           fv == ForVoters(p, vp)
           tb == Total(voters_block, Producers)
           tv == Total(voters_vote, Producers)
<1>1. bp \in Nat /\ vp \in Nat
  BY BlockPayInBucket, VotePayInBucket
<1>2. ToBlocks \in Nat /\ ToVotes \in Nat /\ perblock_bucket \in Nat /\ pervote_bucket \in Nat
  BY IssueType DEF PayInv, PayTypeOK
<1>3. tb \in Nat /\ tv \in Nat
  BY TotalsType DEF PayInv, PayTypeOK
<1>4. CASE p \in active
  <2>1. eb = bp - fb /\ ev = vp - fv
    BY <1>4 DEF Earned
  <2>2. /\ DistributeTypes
        /\ UnpaidAddUp'
        /\ perblock_bucket' = perblock_bucket + ToBlocks - bp
        /\ pervote_bucket' = pervote_bucket + ToVotes - vp
        /\ Total(voters_block', Producers) = tb + fb
        /\ Total(voters_vote', Producers) = tv + fv
    BY <1>4, DistributeActive
  <2> HIDE DEF bp, vp
  <2>3. fb \in Nat /\ fv \in Nat /\ bp - fb \in Nat /\ vp - fv \in Nat
    BY <1>1, CommissionLeaves
  <2> HIDE DEF eb, ev, fb, fv, tb, tv
  <2>4. eb \in Nat /\ ev \in Nat
    BY <2>1, <2>3
  <2>5. perblock_bucket' + Total(voters_block', Producers) + eb = perblock_bucket + ToBlocks + tb
    BY <1>1, <1>2, <1>3, <2>1, <2>2, <2>3
  <2>6. pervote_bucket' + Total(voters_vote', Producers) + ev = pervote_bucket + ToVotes + tv
    BY <1>1, <1>2, <1>3, <2>1, <2>2, <2>3
  <2> QED
    BY <2>2, <2>4, <2>5, <2>6 DEF bp, vp, eb, ev, tb, tv
<1>5. CASE p \notin active
  <2>1. eb = 0 /\ ev = 0
    BY <1>5 DEF Earned
  <2>2. /\ DistributeTypes
        /\ UnpaidAddUp'
        /\ perblock_bucket' = perblock_bucket + ToBlocks
        /\ pervote_bucket' = pervote_bucket + ToVotes
        /\ Total(voters_block', Producers) = tb
        /\ Total(voters_vote', Producers) = tv
    BY <1>5, DistributeInactive
  <2> HIDE DEF eb, ev, tb, tv
  <2>3. perblock_bucket' + Total(voters_block', Producers) + eb = perblock_bucket + ToBlocks + tb
    BY <1>2, <1>3, <2>1, <2>2
  <2>4. pervote_bucket' + Total(voters_vote', Producers) + ev = pervote_bucket + ToVotes + tv
    BY <1>2, <1>3, <2>1, <2>2
  <2> QED
    BY <2>1, <2>2, <2>3, <2>4 DEF bp, vp, eb, ev, tb, tv
<1> QED
  BY <1>4, <1>5

(***************************************************************************)
(* After a distribution it remains to show who gets what is earned: the    *)
(* producer's balance, or the producer at once.                            *)
(***************************************************************************)
LEMMA AfterDistribute ==
  ASSUME DistributeTypes, UnpaidAddUp', Inv', now' = now,
         producer_block' \in [Producers -> Nat], producer_vote' \in [Producers -> Nat],
         commission_rate' \in [Producers -> 0..100], adjusted_at' \in [Producers -> Time],
         bpay' = perblock_bucket' + Total(producer_block', Producers) + Total(voters_block', Producers),
         vpay' = pervote_bucket' + Total(producer_vote', Producers) + Total(voters_vote', Producers)
  PROVE  PayInv'
<1>1. /\ Total(producer_block', Producers) \in Nat /\ Total(producer_vote', Producers) \in Nat
      /\ Total(voters_block', Producers) \in Nat /\ Total(voters_vote', Producers) \in Nat
  BY TotalsType DEF DistributeTypes
<1>2. bpay' \in Nat /\ vpay' \in Nat
  BY <1>1 DEF DistributeTypes
<1>3. PayTypeOK'
  BY <1>2 DEF DistributeTypes, PayTypeOK
<1>4. RewardsAreBacked'
  BY DEF RewardsAreBacked
<1> QED
  BY <1>3, <1>4 DEF PayInv

LEMMA CreditedStep ==
  ASSUME PayInv, NEW p \in Producers, Distribute(p), Credited(p), Inv', now' = now,
         commission_rate' \in [Producers -> 0..100], adjusted_at' \in [Producers -> Time]
  PROVE  PayInv'
<1> DEFINE eb == Earned(p, BlockPay(p))
           ev == Earned(p, VotePay(p))
           tb == Total(voters_block, Producers)
           tv == Total(voters_vote, Producers)
           pb == Total(producer_block, Producers)
           pv == Total(producer_vote, Producers)
<1>1. /\ DistributeTypes /\ UnpaidAddUp' /\ eb \in Nat /\ ev \in Nat
      /\ perblock_bucket' + Total(voters_block', Producers) + eb = perblock_bucket + ToBlocks + tb
      /\ pervote_bucket' + Total(voters_vote', Producers) + ev = pervote_bucket + ToVotes + tv
  BY DistributeStep
<1>2. /\ bpay' = bpay + ToBlocks /\ vpay' = vpay + ToVotes
      /\ producer_block' = [producer_block EXCEPT ![p] = producer_block[p] + eb]
      /\ producer_vote' = [producer_vote EXCEPT ![p] = producer_vote[p] + ev]
  BY DEF Credited
<1>3. /\ producer_block \in [Producers -> Nat] /\ producer_vote \in [Producers -> Nat]
      /\ bpay = perblock_bucket + pb + tb /\ vpay = pervote_bucket + pv + tv
      /\ perblock_bucket \in Nat /\ pervote_bucket \in Nat /\ ToBlocks \in Nat /\ ToVotes \in Nat
  BY IssueType DEF PayInv, PayTypeOK, RewardsAreBacked
<1>4. tb \in Nat /\ tv \in Nat /\ pb \in Nat /\ pv \in Nat
  BY TotalsType DEF PayInv, PayTypeOK
<1>5. Total(voters_block', Producers) \in Nat /\ Total(voters_vote', Producers) \in Nat
      /\ perblock_bucket' \in Nat /\ pervote_bucket' \in Nat
  BY <1>1, TotalsType DEF DistributeTypes
<1>6. producer_block' \in [Producers -> Nat] /\ Total(producer_block', Producers) = pb + eb
  <2> DEFINE f == producer_block
  <2>1. f \in [Producers -> Nat] /\ eb \in Int /\ f[p] + eb \in Nat
    BY <1>1, <1>3
  <2>2. producer_block' = [f EXCEPT ![p] = f[p] + eb]
    BY <1>2
  <2> HIDE DEF f, eb
  <2>3. producer_block' \in [Producers -> Nat] /\ Total(producer_block', Producers) = Total(f, Producers) + eb
    BY <2>1, <2>2, Added
  <2> QED
    BY <2>3 DEF f
<1>7. producer_vote' \in [Producers -> Nat] /\ Total(producer_vote', Producers) = pv + ev
  <2> DEFINE f == producer_vote
  <2>1. f \in [Producers -> Nat] /\ ev \in Int /\ f[p] + ev \in Nat
    BY <1>1, <1>3
  <2>2. producer_vote' = [f EXCEPT ![p] = f[p] + ev]
    BY <1>2
  <2> HIDE DEF f, ev
  <2>3. producer_vote' \in [Producers -> Nat] /\ Total(producer_vote', Producers) = Total(f, Producers) + ev
    BY <2>1, <2>2, Added
  <2> QED
    BY <2>3 DEF f
<1> HIDE DEF eb, ev, tb, tv, pb, pv
<1>8. bpay' = perblock_bucket' + Total(producer_block', Producers) + Total(voters_block', Producers)
  <2>1. bpay' = bpay + ToBlocks
    BY <1>2
  <2> QED
    BY <1>1, <1>3, <1>4, <1>5, <1>6, <2>1
<1>9. vpay' = pervote_bucket' + Total(producer_vote', Producers) + Total(voters_vote', Producers)
  <2>1. vpay' = vpay + ToVotes
    BY <1>2
  <2> QED
    BY <1>1, <1>3, <1>4, <1>5, <1>7, <2>1
<1> QED
  BY <1>1, <1>6, <1>7, <1>8, <1>9, AfterDistribute

(***************************************************************************)
(* claimprod.                                                              *)
(***************************************************************************)
LEMMA ClaimProdStep ==
  ASSUME PayInv, NEW p \in Producers, ClaimProd(p), Inv'
  PROVE  PayInv'
<1> DEFINE eb == Earned(p, BlockPay(p))
           ev == Earned(p, VotePay(p))
           tb == Total(voters_block, Producers)
           tv == Total(voters_vote, Producers)
           pb == Total(producer_block, Producers)
           pv == Total(producer_vote, Producers)
           ob == producer_block[p]
           ov == producer_vote[p]
<1>1. /\ Distribute(p)
      /\ bpay' = bpay + ToBlocks - ob - eb
      /\ vpay' = vpay + ToVotes - ov - ev
      /\ producer_block' = [producer_block EXCEPT ![p] = 0]
      /\ producer_vote' = [producer_vote EXCEPT ![p] = 0]
      /\ now' = now /\ UNCHANGED <<commission_rate, adjusted_at>>
  BY DEF ClaimProd, Rest, vars, terms
<1>2. /\ DistributeTypes /\ UnpaidAddUp' /\ eb \in Nat /\ ev \in Nat
      /\ perblock_bucket' + Total(voters_block', Producers) + eb = perblock_bucket + ToBlocks + tb
      /\ pervote_bucket' + Total(voters_vote', Producers) + ev = pervote_bucket + ToVotes + tv
  BY <1>1, DistributeStep
<1>3. /\ producer_block \in [Producers -> Nat] /\ producer_vote \in [Producers -> Nat]
      /\ bpay = perblock_bucket + pb + tb /\ vpay = pervote_bucket + pv + tv
      /\ perblock_bucket \in Nat /\ pervote_bucket \in Nat /\ ToBlocks \in Nat /\ ToVotes \in Nat
  BY IssueType DEF PayInv, PayTypeOK, RewardsAreBacked
<1>4. tb \in Nat /\ tv \in Nat /\ pb \in Nat /\ pv \in Nat /\ ob \in Nat /\ ov \in Nat
  BY <1>3, TotalsType DEF PayInv, PayTypeOK
<1>5. Total(voters_block', Producers) \in Nat /\ Total(voters_vote', Producers) \in Nat
      /\ perblock_bucket' \in Nat /\ pervote_bucket' \in Nat
  BY <1>2, TotalsType DEF DistributeTypes
<1>6. producer_block' \in [Producers -> Nat] /\ Total(producer_block', Producers) = pb - ob
  BY <1>1, <1>3, <1>4, Emptied
<1>7. producer_vote' \in [Producers -> Nat] /\ Total(producer_vote', Producers) = pv - ov
  BY <1>1, <1>3, <1>4, Emptied
<1>8. commission_rate' \in [Producers -> 0..100] /\ adjusted_at' \in [Producers -> Time]
  BY <1>1 DEF PayInv, PayTypeOK
<1> HIDE DEF eb, ev, tb, tv, pb, pv, ob, ov
<1>9. bpay' = perblock_bucket' + Total(producer_block', Producers) + Total(voters_block', Producers)
  <2>1. bpay' = bpay + ToBlocks - ob - eb
    BY <1>1
  <2> QED
    BY <1>2, <1>3, <1>4, <1>5, <1>6, <2>1
<1>10. vpay' = pervote_bucket' + Total(producer_vote', Producers) + Total(voters_vote', Producers)
  <2>1. vpay' = vpay + ToVotes - ov - ev
    BY <1>1
  <2> QED
    BY <1>2, <1>3, <1>4, <1>5, <1>7, <2>1
<1> QED
  BY <1>1, <1>2, <1>6, <1>7, <1>8, <1>9, <1>10, AfterDistribute

-----------------------------------------------------------------------------
(***************************************************************************)
(* Whatever leaves the pay alone, while time may pass.                     *)
(***************************************************************************)
LEMMA QuietPay ==
  ASSUME PayInv, Inv', UNCHANGED pay, now' = now \/ now' = now + 1
  PROVE  PayInv'
<1>1. /\ UNCHANGED <<supply, bpay, vpay, last_fill, pervote_bucket, perblock_bucket>>
      /\ UNCHANGED <<total_unpaid, unpaid_blocks, commission_rate, adjusted_at, claimed_at>>
      /\ UNCHANGED <<votepay_share, share_at, total_share, share_rate, total_at>>
      /\ UNCHANGED <<producer_block, producer_vote, voters_block, voters_vote>>
  BY DEF pay, tokens, buckets, blocks, terms, shares, rewards, own
<1>2. now \in Nat /\ now' \in Nat /\ now <= now'
  BY DEF PayInv, Inv, TypeOK, Time
<1>3. (last_fill # Never => last_fill \in Nat) /\ \A q \in Producers : share_at[q] \in Nat
  BY DEF PayInv, PayTypeOK, Time
<1>4. PayTypeOK'
  <2>1. last_fill' # Never => last_fill' <= now'
    BY <1>1, <1>2, <1>3 DEF PayInv, PayTypeOK
  <2>2. \A q \in Producers : share_at'[q] <= now'
    BY <1>1, <1>2, <1>3 DEF PayInv, PayTypeOK
  <2>3. total_at' \in 0..now'
    BY <1>1, <1>2 DEF PayInv, PayTypeOK
  <2> QED
    BY <1>1, <2>1, <2>2, <2>3 DEF PayInv, PayTypeOK
<1>5. UnpaidAddUp'
  BY <1>1 DEF PayInv, UnpaidAddUp
<1>6. RewardsAreBacked'
  BY <1>1 DEF PayInv, RewardsAreBacked
<1> QED
  BY <1>4, <1>5, <1>6 DEF PayInv

(***************************************************************************)
(* A new row starts with its terms and the present.                        *)
(***************************************************************************)
LEMMA EnterStep ==
  ASSUME PayInv, NEW p \in Producers, NEW r \in Rates, Enter(p, r), Inv'
  PROVE  PayInv'
<1>1. /\ UNCHANGED <<supply, bpay, vpay, last_fill, pervote_bucket, perblock_bucket>>
      /\ UNCHANGED <<total_unpaid, unpaid_blocks, votepay_share, total_share, share_rate, total_at>>
      /\ UNCHANGED <<producer_block, producer_vote, voters_block, voters_vote>>
      /\ now' = now
      /\ commission_rate' = [commission_rate EXCEPT ![p] = r]
      /\ adjusted_at' = [adjusted_at EXCEPT ![p] = now]
      /\ claimed_at' = [claimed_at EXCEPT ![p] = now]
      /\ share_at' = [share_at EXCEPT ![p] = now]
  BY DEF Enter, RegProducer, tokens, buckets, blocks, rewards, own
<1>2. now \in Time /\ now \in Nat /\ r \in 0..100
  BY PayAssumption DEF PayInv, Inv, TypeOK, Time
<1>3. PayTypeOK'
  <2>1. commission_rate' \in [Producers -> 0..100] /\ adjusted_at' \in [Producers -> Time]
    BY <1>1, <1>2 DEF PayInv, PayTypeOK
  <2>2. claimed_at' \in [Producers -> Time]
    BY <1>1, <1>2 DEF PayInv, PayTypeOK
  <2>3. share_at' \in [Producers -> Time] /\ \A q \in Producers : share_at'[q] <= now'
    BY <1>1, <1>2 DEF PayInv, PayTypeOK
  <2> QED
    BY <1>1, <2>1, <2>2, <2>3 DEF PayInv, PayTypeOK
<1>4. UnpaidAddUp'
  BY <1>1 DEF PayInv, UnpaidAddUp
<1>5. RewardsAreBacked'
  BY <1>1 DEF PayInv, RewardsAreBacked
<1> QED
  BY <1>3, <1>4, <1>5 DEF PayInv

LEMMA AdjustStep ==
  ASSUME PayInv, NEW p \in Producers, NEW r \in Rates, Adjust(p, r), Inv'
  PROVE  PayInv'
<1>1. /\ Distribute(p) /\ Credited(p) /\ now' = now
      /\ commission_rate' = [commission_rate EXCEPT ![p] = r]
      /\ adjusted_at' = [adjusted_at EXCEPT ![p] = now]
  BY DEF Adjust, RegProducer
<1>2. now \in Time /\ r \in 0..100
  BY PayAssumption DEF PayInv, Inv, TypeOK
<1>3. commission_rate' \in [Producers -> 0..100] /\ adjusted_at' \in [Producers -> Time]
  BY <1>1, <1>2 DEF PayInv, PayTypeOK
<1> QED
  BY <1>1, <1>3, CreditedStep

LEMMA LeaveStep ==
  ASSUME PayInv, NEW p \in Producers, Leave(p), Inv'
  PROVE  PayInv'
<1>1. Distribute(p) /\ Credited(p) /\ now' = now /\ UNCHANGED <<commission_rate, adjusted_at>>
  BY DEF Leave, UnregProd, terms
<1>2. commission_rate' \in [Producers -> 0..100] /\ adjusted_at' \in [Producers -> Time]
  BY <1>1 DEF PayInv, PayTypeOK
<1> QED
  BY <1>1, <1>2, CreditedStep

(***************************************************************************)
(* onblock counts a block for its producer and for all.                    *)
(***************************************************************************)
LEMMA BlockStep ==
  ASSUME PayInv, NEW p \in Producers, Block(p), Inv'
  PROVE  PayInv'
<1>1. /\ UNCHANGED <<supply, bpay, vpay, pervote_bucket, perblock_bucket>>
      /\ UNCHANGED <<commission_rate, adjusted_at, claimed_at>>
      /\ UNCHANGED <<votepay_share, share_at, total_share, share_rate, total_at>>
      /\ UNCHANGED <<producer_block, producer_vote, voters_block, voters_vote>>
      /\ last_fill' = IF last_fill = Never THEN now ELSE last_fill
      /\ \/ /\ total_unpaid' = total_unpaid + 1
            /\ unpaid_blocks' = [unpaid_blocks EXCEPT ![p] = unpaid_blocks[p] + 1]
         \/ UNCHANGED <<total_unpaid, unpaid_blocks>>
  BY DEF Block, blocks, tokens, terms, shares, rewards, own
<1>2. now' = now
  BY DEF Block, OnBlock, vars
<1>3. now \in Time /\ now \in Nat
  BY DEF PayInv, Inv, TypeOK, Time
<1>4. last_fill' \in Time \cup {Never} /\ (last_fill' # Never => last_fill' <= now')
  BY <1>1, <1>2, <1>3 DEF PayInv, PayTypeOK
<1>5. total_unpaid' \in Nat /\ unpaid_blocks' \in [Producers -> Nat] /\ UnpaidAddUp'
  <2>1. CASE UNCHANGED <<total_unpaid, unpaid_blocks>>
    BY <2>1 DEF PayInv, PayTypeOK, UnpaidAddUp
  <2>2. CASE /\ total_unpaid' = total_unpaid + 1
             /\ unpaid_blocks' = [unpaid_blocks EXCEPT ![p] = unpaid_blocks[p] + 1]
    <3> DEFINE f == unpaid_blocks
    <3>1. f \in [Producers -> Nat] /\ f[p] + 1 \in Nat /\ 1 \in Int
      BY DEF PayInv, PayTypeOK
    <3>2. unpaid_blocks' = [f EXCEPT ![p] = f[p] + 1]
      BY <2>2
    <3> HIDE DEF f
    <3>3. unpaid_blocks' \in [Producers -> Nat] /\ Total(unpaid_blocks', Producers) = Total(f, Producers) + 1
      BY <3>1, <3>2, Added
    <3>4. total_unpaid' = Total(f, Producers) + 1 /\ total_unpaid' \in Nat
      BY <2>2 DEF f, PayInv, PayTypeOK, UnpaidAddUp
    <3> QED
      BY <3>3, <3>4 DEF UnpaidAddUp
  <2> QED
    BY <1>1, <2>1, <2>2
<1>6. PayTypeOK'
  BY <1>1, <1>2, <1>4, <1>5 DEF PayInv, PayTypeOK
<1>7. RewardsAreBacked'
  BY <1>1 DEF PayInv, RewardsAreBacked
<1> QED
  BY <1>5, <1>6, <1>7 DEF PayInv

(***************************************************************************)
(* A vote changes shares only.                                             *)
(***************************************************************************)
LEMMA VoteShares ==
  ASSUME PayInv, NEW v \in Voters, NEW p \in Producers, NEW k \in VoteNums, Vote(v, p, k), Inv'
  PROVE  PayInv'
<1> DEFINE share == Share(p, total_votes'[p])
           rate == CASE ~Crossed(p) -> Gain(v, k)
                     [] Lapses(p)   -> -total_votes'[p]
                     [] OTHER       -> 0
           grown == share_rate * (now - total_at)
           lapse == IF Lapses(p) THEN share ELSE 0
<1>1. /\ UNCHANGED <<supply, bpay, vpay, last_fill, pervote_bucket, perblock_bucket>>
      /\ UNCHANGED <<total_unpaid, unpaid_blocks, commission_rate, adjusted_at, claimed_at>>
      /\ UNCHANGED <<producer_block, producer_vote, voters_block, voters_vote>>
      /\ now' = now
      /\ votepay_share' = [votepay_share EXCEPT ![p] = IF Lapses(p) THEN 0 ELSE share]
      /\ share_at' = [share_at EXCEPT ![p] = now]
      /\ total_share' = Positive(total_share + grown - lapse)
      /\ share_rate' = Positive(share_rate + rate)
      /\ total_at' = now
  BY DEF Vote, VoteProducer, tokens, buckets, blocks, terms, rewards, own
<1>2. now \in Time /\ now \in Nat /\ total_votes'[p] \in Nat
  BY DEF PayInv, Inv, TypeOK, Time
<1>3. share \in Nat
  BY <1>2, ShareType
<1>4. Gain(v, k) \in Int
  <2>1. last_vote_weight[v] \in Nat
    BY DEF PayInv, Inv, TypeOK
  <2>2. Weight(k) \in Nat
    BY <1>2, WeightType
  <2> QED
    BY <2>1, <2>2 DEF Gain
<1>5. rate \in Int
  BY <1>2, <1>4 DEF Lapses
<1>6. grown \in Int
  BY AllSharesType
<1> HIDE DEF share, rate, grown
<1>7. lapse \in Int
  BY <1>3
<1> HIDE DEF lapse
<1>8. total_share' \in Nat /\ share_rate' \in Nat
  <2>1. total_share + grown - lapse \in Int /\ share_rate + rate \in Int
    BY <1>5, <1>6, <1>7 DEF PayInv, PayTypeOK
  <2> QED
    BY <1>1, <2>1, PositiveType
<1>9. PayTypeOK'
  <2>1. votepay_share' \in [Producers -> Nat]
    BY <1>1, <1>3 DEF PayInv, PayTypeOK
  <2>2. share_at' \in [Producers -> Time] /\ \A q \in Producers : share_at'[q] <= now'
    BY <1>1, <1>2 DEF PayInv, PayTypeOK
  <2>3. total_at' \in 0..now'
    BY <1>1, <1>2
  <2> QED
    BY <1>1, <1>8, <2>1, <2>2, <2>3 DEF PayInv, PayTypeOK
<1>10. UnpaidAddUp'
  BY <1>1 DEF PayInv, UnpaidAddUp
<1>11. RewardsAreBacked'
  BY <1>1 DEF PayInv, RewardsAreBacked
<1> QED
  BY <1>9, <1>10, <1>11 DEF PayInv

-----------------------------------------------------------------------------
(***************************************************************************)
(* The age a claim is paid by is one of those it is paid from.             *)
(***************************************************************************)
LEMMA AgeInTotal ==
  ASSUME PayInv, NEW v \in Voters, NEW p \in Producers, ClaimVoter(v, p)
  PROVE  LET rows == AllAged(votes, p)
         IN  /\ rows[<<v, p>>].age \in Nat
             /\ TotalAge(rows, p) \in Nat /\ TotalAge(rows, p) > 0
             /\ rows[<<v, p>>].age <= TotalAge(rows, p)
<1> DEFINE rows == AllAged(votes, p)
           ages == [w \in Voters |-> IF w \in Range(voters[p]) THEN rows[<<w, p>>].age ELSE 0]
<1>1. Inv /\ HasVote(v, p) /\ TotalAge(rows, p) > 0
  BY DEF PayInv, ClaimVoter
<1>2. v \in Range(voters[p])
  BY <1>1, RowFacts
<1>3. rows \in Rows /\ \A c \in Pairs : rows[c] = NoVote <=> votes[c] = NoVote
  <2>1. votes \in Rows /\ now \in Time
    BY <1>1, RowFacts
  <2>2. \A c \in Pairs : votes[c] # NoVote => votes[c].at <= now
    BY <1>1, RowFacts
  <2>3. \A w \in Range(voters[p]) : w \in Voters /\ votes[<<w, p>>] # NoVote
    BY <1>1, RowFacts
  <2> QED
    BY <2>1, <2>2, <2>3, AllAgedRows
<1>4. \A w \in Range(voters[p]) : <<w, p>> \in Pairs /\ rows[<<w, p>>] # NoVote
  <2> SUFFICES ASSUME NEW w \in Range(voters[p]) PROVE <<w, p>> \in Pairs /\ rows[<<w, p>>] # NoVote
    OBVIOUS
  <2>1. w \in Voters /\ votes[<<w, p>>] # NoVote
    BY <1>1, RowFacts
  <2>2. <<w, p>> \in Pairs
    BY <2>1 DEF Pairs
  <2> HIDE DEF rows
  <2> QED
    BY <1>3, <2>1, <2>2
<1> HIDE DEF rows
<1>5. \A w \in Range(voters[p]) : rows[<<w, p>>].age \in Nat
  BY <1>3, <1>4 DEF Rows, VoteInfo
<1>6. \A w \in Voters : ages[w] \in Nat
  BY <1>5
<1>7. ages[v] = rows[<<v, p>>].age
  BY <1>2
<1>8. TotalAge(rows, p) = Total(ages, Voters)
  BY DEF TotalAge
<1> HIDE DEF ages
<1>9. ages[v] <= Total(ages, Voters)
  BY <1>6, NamesAssumption, TotalBounds
<1>10. Total(ages, Voters) \in Nat
  BY <1>6, NamesAssumption, TotalType
<1>11. rows[<<v, p>>].age \in Nat
  BY <1>2, <1>5
<1> QED
  BY <1>1, <1>7, <1>8, <1>9, <1>10, <1>11 DEF rows

(***************************************************************************)
(* What a claim takes from a reward.                                       *)
(***************************************************************************)
LEMMA CutType ==
  ASSUME PayInv, NEW v \in Voters, NEW p \in Producers, ClaimVoter(v, p), NEW reward \in Nat
  PROVE  LET rows == AllAged(votes, p)
         IN  /\ Cut(v, p, reward) \in Nat /\ Cut(v, p, reward) <= reward
             /\ Cut(v, p, reward) * TotalAge(rows, p) <= reward * rows[<<v, p>>].age
<1> DEFINE age == AllAged(votes, p)[<<v, p>>].age
           all == TotalAge(AllAged(votes, p), p)
<1>1. age \in Nat /\ all \in Nat /\ all > 0 /\ age <= all
  BY AgeInTotal
<1>2. Cut(v, p, reward) = (reward * age) \div all
  BY DEF Cut
<1> HIDE DEF age, all
<1>3. (reward * age) \div all \in Nat /\ (reward * age) \div all <= reward
  BY <1>1, PartLeq
<1> DEFINE n == reward * age
<1>4. n \in Nat
  BY <1>1, ProductType
<1> HIDE DEF n
<1>5. (n \div all) * all <= n
  BY <1>1, <1>4, Quotient
<1> QED
  BY <1>2, <1>3, <1>5 DEF n, age, all

(***************************************************************************)
(* claimvoter takes the cut from the reward and from the account.          *)
(***************************************************************************)
LEMMA ClaimPaid ==
  ASSUME PayInv, NEW v \in Voters, NEW p \in Producers, Claim(v, p), Inv'
  PROVE  PayInv'
<1> DEFINE cb == Cut(v, p, voters_block[p])
           cv == Cut(v, p, voters_vote[p])
           tb == Total(voters_block, Producers)
           tv == Total(voters_vote, Producers)
           pb == Total(producer_block, Producers)
           pv == Total(producer_vote, Producers)
<1>1. /\ ClaimVoter(v, p)
      /\ vpay' = vpay - cv /\ bpay' = bpay - cb
      /\ voters_vote' = [voters_vote EXCEPT ![p] = voters_vote[p] - cv]
      /\ voters_block' = [voters_block EXCEPT ![p] = voters_block[p] - cb]
      /\ UNCHANGED <<supply, last_fill, pervote_bucket, perblock_bucket>>
      /\ UNCHANGED <<total_unpaid, unpaid_blocks, commission_rate, adjusted_at, claimed_at>>
      /\ UNCHANGED <<votepay_share, share_at, total_share, share_rate, total_at>>
      /\ UNCHANGED <<producer_block, producer_vote>>
  BY DEF Claim, buckets, blocks, terms, shares, own
<1>2. now' = now
  BY <1>1 DEF ClaimVoter
<1>3. /\ voters_vote \in [Producers -> Nat] /\ voters_block \in [Producers -> Nat]
      /\ voters_vote[p] \in Nat /\ voters_block[p] \in Nat
      /\ bpay = perblock_bucket + pb + tb /\ vpay = pervote_bucket + pv + tv
      /\ perblock_bucket \in Nat /\ pervote_bucket \in Nat
  BY DEF PayInv, PayTypeOK, RewardsAreBacked
<1>4. tb \in Nat /\ tv \in Nat /\ pb \in Nat /\ pv \in Nat
  BY TotalsType DEF PayInv, PayTypeOK
<1>5. cb \in Nat /\ cb <= voters_block[p] /\ cv \in Nat /\ cv <= voters_vote[p]
  BY <1>1, <1>3, CutType
<1> HIDE DEF cb, cv
<1>6. voters_vote' \in [Producers -> Nat] /\ Total(voters_vote', Producers) = tv - cv
  <2> DEFINE f == voters_vote
             d == 0 - cv
  <2>1. f \in [Producers -> Nat] /\ d \in Int /\ f[p] + d \in Nat /\ f[p] - cv = f[p] + d
    BY <1>3, <1>5
  <2>2. voters_vote' = [f EXCEPT ![p] = f[p] + d]
    BY <1>1, <2>1
  <2> HIDE DEF f, d
  <2>3. voters_vote' \in [Producers -> Nat] /\ Total(voters_vote', Producers) = Total(f, Producers) + d
    BY <2>1, <2>2, Added
  <2>4. tv + d = tv - cv
    BY <1>4, <1>5 DEF d
  <2> QED
    BY <2>3, <2>4 DEF f
<1>7. voters_block' \in [Producers -> Nat] /\ Total(voters_block', Producers) = tb - cb
  <2> DEFINE f == voters_block
             d == 0 - cb
  <2>1. f \in [Producers -> Nat] /\ d \in Int /\ f[p] + d \in Nat /\ f[p] - cb = f[p] + d
    BY <1>3, <1>5
  <2>2. voters_block' = [f EXCEPT ![p] = f[p] + d]
    BY <1>1, <2>1
  <2> HIDE DEF f, d
  <2>3. voters_block' \in [Producers -> Nat] /\ Total(voters_block', Producers) = Total(f, Producers) + d
    BY <2>1, <2>2, Added
  <2>4. tb + d = tb - cb
    BY <1>4, <1>5 DEF d
  <2> QED
    BY <2>3, <2>4 DEF f
<1>8. /\ bpay' = perblock_bucket' + Total(producer_block', Producers) + Total(voters_block', Producers)
      /\ vpay' = pervote_bucket' + Total(producer_vote', Producers) + Total(voters_vote', Producers)
  <2>1. /\ bpay' = bpay - cb /\ vpay' = vpay - cv
        /\ UNCHANGED <<perblock_bucket, pervote_bucket, producer_block, producer_vote>>
    BY <1>1
  <2> QED
    BY <1>3, <1>4, <1>5, <1>6, <1>7, <2>1
<1>9. Total(voters_block', Producers) \in Nat /\ Total(voters_vote', Producers) \in Nat
  BY <1>6, <1>7, TotalsType
<1>10. bpay' \in Nat /\ vpay' \in Nat
  <2>1. UNCHANGED <<perblock_bucket, pervote_bucket, producer_block, producer_vote>>
    BY <1>1
  <2> QED
    BY <1>3, <1>4, <1>8, <1>9, <2>1
<1>11. PayTypeOK'
  BY <1>1, <1>2, <1>6, <1>7, <1>10 DEF PayInv, PayTypeOK
<1>12. UnpaidAddUp'
  BY <1>1 DEF PayInv, UnpaidAddUp
<1>13. RewardsAreBacked'
  BY <1>8 DEF RewardsAreBacked
<1> QED
  BY <1>11, <1>12, <1>13 DEF PayInv

(***************************************************************************)
(* The rest of a reward is worth no less for the ages that are left.       *)
(***************************************************************************)
LEMMA ClaimIsFair ==
  ASSUME PayInv, NEW v \in Voters, NEW p \in Producers, Claim(v, p)
  PROVE  LET before == TotalAge(AllAged(votes, p), p)
             after  == total_voteage'[p]
         IN  /\ voters_vote'[p] * before >= voters_vote[p] * after
             /\ voters_block'[p] * before >= voters_block[p] * after
<1> DEFINE age == AllAged(votes, p)[<<v, p>>].age
           all == TotalAge(AllAged(votes, p), p)
           V == voters_vote[p]
           B == voters_block[p]
           cv == Cut(v, p, V)
           cb == Cut(v, p, B)
<1>1. /\ ClaimVoter(v, p)
      /\ voters_vote' = [voters_vote EXCEPT ![p] = V - cv]
      /\ voters_block' = [voters_block EXCEPT ![p] = B - cb]
      /\ total_voteage' = [total_voteage EXCEPT ![p] = all - age]
  BY DEF Claim, ClaimVoter, RestAge
<1>2. age \in Nat /\ all \in Nat
  BY <1>1, AgeInTotal
<1>3. V \in Nat /\ B \in Nat
  BY DEF PayInv, PayTypeOK
<1>4. cv \in Nat /\ cv * all <= V * age
  <2> HIDE DEF V
  <2> QED
    BY <1>1, <1>3, CutType
<1>5. cb \in Nat /\ cb * all <= B * age
  <2> HIDE DEF B
  <2> QED
    BY <1>1, <1>3, CutType
<1>6. voters_vote'[p] = V - cv /\ voters_block'[p] = B - cb /\ total_voteage'[p] = all - age
  <2>1. /\ voters_vote \in [Producers -> Nat] /\ voters_block \in [Producers -> Nat]
        /\ total_voteage \in [Producers -> Nat]
    BY DEF PayInv, PayTypeOK, Inv, TypeOK
  <2> HIDE DEF V, B, cv, cb, age, all
  <2> QED
    BY <1>1, <2>1
<1> HIDE DEF V, B, cv, cb, age, all
<1>7. (V - cv) * all >= V * (all - age)
  BY <1>2, <1>3, <1>4, RestKeepsShare
<1>8. (B - cb) * all >= B * (all - age)
  BY <1>2, <1>3, <1>5, RestKeepsShare
<1> QED
  BY <1>6, <1>7, <1>8 DEF V, B, all

-----------------------------------------------------------------------------
(***************************************************************************)
(* Every step of Pay is one of Voting, or none to it.                      *)
(***************************************************************************)
LEMMA PayStepVotes ==
  ASSUME [PayNext]_payVars
  PROVE  [Next]_vars
<1>1. ASSUME NEW v \in Voters, NEW k \in 0..Tokens[v], Fund(v, k) PROVE Next
  BY <1>1 DEF Fund, Next
<1>2. ASSUME NEW p \in Producers, NEW r \in Rates, Enter(p, r) PROVE Next
  BY <1>2 DEF Enter, Next
<1>3. ASSUME NEW p \in Producers, Reenter(p) PROVE Next
  BY <1>3 DEF Reenter, Next
<1>4. ASSUME NEW p \in Producers, NEW r \in Rates, Adjust(p, r) PROVE Next
  BY <1>4 DEF Adjust, Next
<1>5. ASSUME NEW p \in Producers, Leave(p) PROVE Next
  BY <1>5 DEF Leave, Next
<1>6. ASSUME NEW p \in Producers, Remove(p) PROVE Next
  BY <1>6 DEF Remove, Next
<1>7. ASSUME NEW v \in Voters, NEW p \in Producers, NEW k \in VoteNums, Vote(v, p, k) PROVE Next
  <2>1. VoteProducer(v, p, k)
    BY <1>7 DEF Vote
  <2> QED
    BY <2>1 DEF Next
<1>8. ASSUME NEW p \in Producers, ClaimProd(p) PROVE UNCHANGED vars
  BY <1>8 DEF ClaimProd
<1>9. ASSUME NEW v \in Voters, NEW p \in Producers, Claim(v, p) PROVE Next
  <2>1. ClaimVoter(v, p)
    BY <1>9 DEF Claim
  <2> QED
    BY <2>1 DEF Next
<1>10. ASSUME NEW p \in Producers, Block(p) PROVE Next \/ UNCHANGED vars
  <2>1. UNCHANGED vars \/ \E accepted \in BOOLEAN : OnBlock(accepted)
    BY <1>10 DEF Block
  <2> QED
    BY <2>1 DEF Next
<1>11. ASSUME Pass PROVE Next
  BY <1>11 DEF Pass, Next
<1>12. ASSUME UNCHANGED payVars PROVE UNCHANGED vars
  BY <1>12 DEF payVars
<1> QED
  BY <1>1, <1>2, <1>3, <1>4, <1>5, <1>6, <1>7, <1>8, <1>9, <1>10, <1>11, <1>12 DEF PayNext

LEMMA PayInitInv == PayInit => PayInv
<1> SUFFICES ASSUME PayInit PROVE PayInv
  OBVIOUS
<1>1. Inv
  BY InitInv DEF PayInit
<1>2. now = 0 /\ now \in Time /\ Zero \in [Producers -> Nat] /\ Zero \in [Producers -> Time]
  <2>1. now = 0
    BY DEF PayInit, Init
  <2>2. 0 \in Time
    BY NumbersAssumption DEF Time
  <2>3. Zero \in [Producers -> Nat] /\ Zero \in [Producers -> Time]
    BY <2>2 DEF Zero
  <2> QED
    BY <2>1, <2>2, <2>3
<1>3. Zero \in [Producers -> 0..100] /\ \A p \in Producers : Zero[p] = 0
  BY DEF Zero
<1>4. Total(Zero, Producers) = 0
  BY <1>3, TotalZero
<1> HIDE DEF Zero
<1>5. PayTypeOK
  BY <1>2, <1>3, PayAssumption DEF PayInit, PayTypeOK
<1>6. UnpaidAddUp /\ RewardsAreBacked
  BY <1>4 DEF PayInit, UnpaidAddUp, RewardsAreBacked
<1> QED
  BY <1>1, <1>5, <1>6 DEF PayInv

LEMMA PayNextInv == PayInv /\ [PayNext]_payVars => PayInv'
<1> SUFFICES ASSUME PayInv, [PayNext]_payVars PROVE PayInv'
  OBVIOUS
<1>1. Inv'
  <2>1. Inv /\ [Next]_vars
    BY PayStepVotes DEF PayInv
  <2> QED
    BY <2>1, NextInv
<1>2. ASSUME NEW v \in Voters, NEW k \in 0..Tokens[v], Fund(v, k) PROVE PayInv'
  BY <1>1, <1>2, QuietPay DEF Fund, Stake
<1>3. ASSUME NEW p \in Producers, NEW r \in Rates, Enter(p, r) PROVE PayInv'
  BY <1>1, <1>3, EnterStep
<1>4. ASSUME NEW p \in Producers, Reenter(p) PROVE PayInv'
  BY <1>1, <1>4, QuietPay DEF Reenter, RegProducer
<1>5. ASSUME NEW p \in Producers, NEW r \in Rates, Adjust(p, r) PROVE PayInv'
  BY <1>1, <1>5, AdjustStep
<1>6. ASSUME NEW p \in Producers, Leave(p) PROVE PayInv'
  BY <1>1, <1>6, LeaveStep
<1>7. ASSUME NEW p \in Producers, Remove(p) PROVE PayInv'
  BY <1>1, <1>7, QuietPay DEF Remove, RmvProducer
<1>8. ASSUME NEW v \in Voters, NEW p \in Producers, NEW k \in VoteNums, Vote(v, p, k) PROVE PayInv'
  BY <1>1, <1>8, VoteShares
<1>9. ASSUME NEW p \in Producers, ClaimProd(p) PROVE PayInv'
  BY <1>1, <1>9, ClaimProdStep
<1>10. ASSUME NEW v \in Voters, NEW p \in Producers, Claim(v, p) PROVE PayInv'
  BY <1>1, <1>10, ClaimPaid
<1>11. ASSUME NEW p \in Producers, Block(p) PROVE PayInv'
  BY <1>1, <1>11, BlockStep
<1>12. ASSUME Pass PROVE PayInv'
  BY <1>1, <1>12, QuietPay DEF Pass, Tick
<1>13. ASSUME UNCHANGED payVars PROVE PayInv'
  BY <1>1, <1>13, QuietPay DEF payVars, vars
<1> QED
  BY <1>2, <1>3, <1>4, <1>5, <1>6, <1>7, <1>8, <1>9, <1>10, <1>11, <1>12, <1>13 DEF PayNext

LEMMA PayInvariant == PaySpec => []PayInv
BY PayInitInv, PayNextInv, PTL DEF PaySpec

(***************************************************************************)
(* Pay behaves as Voting: what the handlers do to the buckets and rewards  *)
(* takes nothing from what they do to votes, and whatever holds of Voting  *)
(* holds of the two together.                                              *)
(***************************************************************************)
THEOREM PayIsVoting == PaySpec => Spec
<1>1. PayInit => Init
  BY DEF PayInit
<1>2. [PayNext]_payVars => [Next]_vars
  BY PayStepVotes
<1> QED
  BY <1>1, <1>2, PTL DEF PaySpec, Spec

(***************************************************************************)
(* No bucket, reward or share is ever negative: distribute_voters_rewards  *)
(* pays no more than the buckets hold, claimvoter no more than the reward. *)
(***************************************************************************)
THEOREM PayTypeCorrect == PaySpec => []PayTypeOK
<1>1. PayInv => PayTypeOK
  BY DEF PayInv
<1> QED
  BY <1>1, PayInvariant, PTL

(***************************************************************************)
(* total_unpaid_blocks is the sum of the producers' unpaid blocks through  *)
(* onblock and every way of being paid.                                    *)
(***************************************************************************)
THEOREM UnpaidAgree == PaySpec => []UnpaidAddUp
<1>1. PayInv => UnpaidAddUp
  BY DEF PayInv
<1> QED
  BY <1>1, PayInvariant, PTL

(***************************************************************************)
(* fscio.bpay and fscio.vpay always hold what is in the buckets and what   *)
(* producers and voters have to claim, to the last unit.                   *)
(***************************************************************************)
THEOREM PayIsBacked == PaySpec => []RewardsAreBacked
<1>1. PayInv => RewardsAreBacked
  BY DEF PayInv
<1> QED
  BY <1>1, PayInvariant, PTL

(***************************************************************************)
(* Of two voters of a producer the one who calls claimvoter second is not  *)
(* worse off for it.                                                       *)
(***************************************************************************)
THEOREM SecondClaimIsFair == PaySpec => ClaimsAreFair
<1> DEFINE Fair ==
      \A v \in Voters, p \in Producers : Claim(v, p) =>
        LET before == TotalAge(AllAged(votes, p), p)
            after  == total_voteage'[p]
        IN  /\ voters_vote'[p] * before >= voters_vote[p] * after
            /\ voters_block'[p] * before >= voters_block[p] * after
<1>1. PayInv => Fair
  BY ClaimIsFair
<1>2. ClaimsAreFair <=> [][Fair]_payVars
  BY PTL DEF ClaimsAreFair
<1> HIDE DEF Fair
<1>3. PayInv /\ [PayNext]_payVars => [Fair]_payVars
  BY <1>1
<1> QED
  BY <1>2, <1>3, PayInvariant, PTL DEF PaySpec
=============================================================================
