-------------------------------- MODULE Voting --------------------------------
(***************************************************************************)
(* Voting in fscio.system: voters put staked tokens on producers, votes    *)
(* age, claims consume the age, and the producers with the most votes are  *)
(* proposed as the schedule.                                               *)
(*                                                                         *)
(* Votes and stakes are whole core tokens, as voteproducer demands of      *)
(* votes.  Weights are exact: Growth[t] is the factor of stake2vote at     *)
(* time t, 2 to the number of years, and rounding is left out.  A tick of  *)
(* the clock is longer than the minute between two schedules.  The shares  *)
(* of vote pay and the rewards, which these actions move too, are read by  *)
(* nothing here.  Producers are numbers, the values the chain sorts their  *)
(* names by.                                                               *)
(*                                                                         *)
(* A definition whose name ends in _Something is a mutant of the one next  *)
(* to it.                                                                  *)
(***************************************************************************)
EXTENDS Integers, Sequences, FiniteSets, Functions, Totals

CONSTANTS
  Voters,
  Producers,       \* the accounts that may register as producers
  VoteNums,        \* the numbers of votes voteproducer may be called with
  Tokens,          \* Tokens[v]: the tokens v may stake
  MaxTime,         \* when the clock stops
  MaxTotal,        \* how far total_votes are followed: they can grow without end
  Growth,          \* the factor of stake2vote
  TickTime, Basis, \* a tick, and voteage_basis, in the same unit
  ClaimPeriod,     \* claim_voter_rewards_preiod, in ticks
  TopSize,         \* top_producers_size
  MinActivated,    \* get_min_activated_stake()
  NoVoter,         \* no row in voters
  NoVote,          \* no row in votes
  Never            \* last_claim_time is not set

Time  == 0..MaxTime
Pairs == Voters \X Producers
VoteInfo == [num : Nat, weight : Nat, age : Nat, at : Time]

ASSUME NamesAssumption ==
  IsFiniteSet(Voters) /\ IsFiniteSet(Producers) /\ Producers \subseteq Nat
ASSUME NumbersAssumption ==
  /\ VoteNums \subseteq Nat /\ Tokens \in [Voters -> Nat]
  /\ MaxTime \in Nat /\ MaxTotal \in Nat /\ TickTime \in Nat /\ Basis \in Nat \ {0}
  /\ ClaimPeriod \in Nat /\ TopSize \in Nat /\ MinActivated \in Nat
ASSUME GrowthAssumption == Growth \in [Time -> Nat]
ASSUME SentinelAssumption == NoVoter \notin Nat /\ NoVote \notin VoteInfo /\ Never \notin Time

VARIABLES
  now,                \* current_time_point()
  staked,             \* staked[v]: staked_balance of v's voters row
  last_vote_weight,   \* last_vote_weight[v], in that row
  last_claim_time,    \* last_claim_time[v], in that row
  votes,              \* votes[v, p]: v's row for p in votes
  registered,         \* the producers with a row
  active,             \* those of them with is_active
  voters,             \* voters[p]: the vector of p's voters
  total_votes,        \* total_votes[p]
  total_vote_num,     \* total_vote_num[p]
  total_voteage,      \* total_voteage[p]
  voteage_at,         \* voteage_at[p]: voteage_update_time of the producer
  total_weight,       \* total_producer_vote_weight
  activated,          \* total_activated_stake
  launched,           \* thresh_activated_stake_time is set
  schedule            \* the producers last proposed; last_producer_schedule_size is their number

chain    == <<total_weight, activated, launched>>
tallies  == <<total_votes, total_vote_num, total_voteage, voteage_at, voters>>
registry == <<registered, active>>
purse    == <<staked, last_vote_weight, last_claim_time>>
vars     == <<now, purse, votes, registry, tallies, chain, schedule>>

Positive(k) == IF k > 0 THEN k ELSE 0
HasVote(v, p) == votes[<<v, p>>] # NoVote
Num(v, p) == IF HasVote(v, p) THEN votes[<<v, p>>].num ELSE 0
Age(v, p) == IF HasVote(v, p) THEN votes[<<v, p>>].age ELSE 0

IsActivated_Launched == launched

IsActivated == activated >= MinActivated

Init ==
  /\ now = 0
  /\ staked = [v \in Voters |-> NoVoter]
  /\ last_vote_weight = [v \in Voters |-> 0]
  /\ last_claim_time = [v \in Voters |-> Never]
  /\ votes = [c \in Pairs |-> NoVote]
  /\ registered = {} /\ active = {}
  /\ voters = [p \in Producers |-> <<>>]
  /\ total_votes = [p \in Producers |-> 0]
  /\ total_vote_num = [p \in Producers |-> 0]
  /\ total_voteage = [p \in Producers |-> 0]
  /\ voteage_at = [p \in Producers |-> 0]
  /\ total_weight = 0 /\ activated = 0 /\ launched = FALSE
  /\ schedule = {}

-----------------------------------------------------------------------------
(***************************************************************************)
(* What staking does to the voter: changebw creates the row and brings its *)
(* staked_balance to k; unstaking waits for the chain to be activated.     *)
(***************************************************************************)
StakedOf(v) == IF staked[v] = NoVoter THEN 0 ELSE staked[v]

Bound(v) == Total([p \in Producers |-> Num(v, p)], Producers)

Stake(v, k) ==
  /\ k + Bound(v) <= Tokens[v]
  /\ staked[v] # NoVoter => k # staked[v] /\ (k < staked[v] => IsActivated)
  /\ staked' = [staked EXCEPT ![v] = k]
  /\ UNCHANGED <<now, last_vote_weight, last_claim_time, votes, registry, tallies, chain, schedule>>

(***************************************************************************)
(* Registering, and the two ways out.  A row stays when its producer       *)
(* leaves, with the voters and votes it has.                               *)
(***************************************************************************)
RegProducer(p) ==
  /\ registered' = registered \cup {p}
  /\ active' = active \cup {p}
  /\ UNCHANGED <<now, purse, votes, tallies, chain, schedule>>

UnregProd(p) ==
  /\ IsActivated
  /\ p \in registered
  /\ active' = active \ {p}
  /\ UNCHANGED <<now, purse, votes, registered, tallies, chain, schedule>>

RmvProducer(p) ==
  /\ p \in registered
  /\ active' = active \ {p}
  /\ UNCHANGED <<now, purse, votes, registered, tallies, chain, schedule>>

(***************************************************************************)
(* calculate_prod_all_voter_age: the rows of the voters in p's vector,     *)
(* aged to the present.  The part of a basis that has passed is lost.      *)
(***************************************************************************)
Aged(row) ==
  [num |-> row.num, weight |-> row.weight,
   age |-> row.age + row.num * (((now - row.at) * TickTime) \div Basis), at |-> now]

AllAged(rows, p) ==
  [c \in Pairs |-> IF c[2] = p /\ c[1] \in Range(voters[p]) THEN Aged(rows[c]) ELSE rows[c]]

TotalAge(rows, p) ==
  Total([v \in Voters |-> IF v \in Range(voters[p]) THEN rows[<<v, p>>].age ELSE 0], Voters)

(***************************************************************************)
(* voteproducer: v's votes for p come to k.                                *)
(***************************************************************************)
Change_WholeNumber(v, p, k) == k

Change(v, p, k) == k - Num(v, p)

Affords_AnyStake(v, p, k) == staked[v] >= 0

Affords(v, p, k) == Change(v, p, k) <= staked[v]

Debited(v, p, k) == [staked EXCEPT ![v] = staked[v] - Change(v, p, k)]

Weight(k) == k * Growth[now]

Gain_NoUndo(v, k) == Weight(k)

Gain(v, k) == Weight(k) - last_vote_weight[v]

WithVote(v, p, k) ==
  [votes EXCEPT ![<<v, p>>] =
     IF HasVote(v, p)
     THEN [num |-> k, weight |-> Weight(k), age |-> votes[<<v, p>>].age, at |-> votes[<<v, p>>].at]
     ELSE [num |-> k, weight |-> Weight(k), age |-> 0, at |-> now]]

Enrolled_Again(v, p) == Append(voters[p], v)

Enrolled(v, p) == IF v \in Range(voters[p]) THEN voters[p] ELSE Append(voters[p], v)

VoteProducer(v, p, k) ==
  LET rows == AllAged(WithVote(v, p, k), p)
  IN  /\ staked[v] # NoVoter
      /\ p \in active
      /\ Affords(v, p, k)
      /\ total_votes[p] + Gain(v, k) <= MaxTotal
      /\ votes' = rows
      /\ staked' = Debited(v, p, k)
      /\ last_vote_weight' = [last_vote_weight EXCEPT ![v] = Weight(k)]
      /\ total_vote_num' = [total_vote_num EXCEPT ![p] = total_vote_num[p] + Change(v, p, k)]
      /\ total_voteage' = [total_voteage EXCEPT ![p] = TotalAge(rows, p)]
      /\ voteage_at' = [voteage_at EXCEPT ![p] = now]
      /\ total_votes' = [total_votes EXCEPT ![p] = Positive(total_votes[p] + Gain(v, k))]
      /\ voters' = [voters EXCEPT ![p] = Enrolled(v, p)]
      /\ total_weight' = total_weight + Gain(v, k)
      /\ activated' = Positive(activated + Change(v, p, k))
      /\ launched' = (launched \/ activated' >= MinActivated)
      /\ UNCHANGED <<now, last_claim_time, registry, schedule>>

(***************************************************************************)
(* claimvoter: v is paid in proportion to his age among all of p's voters  *)
(* and starts anew.  All others age to the present.                        *)
(***************************************************************************)
RestAge_All(rows, v, p) == TotalAge(rows, p)

RestAge(rows, v, p) == TotalAge(rows, p) - rows[<<v, p>>].age

ClaimVoter(v, p) ==
  LET rows == AllAged(votes, p)
  IN  /\ IsActivated
      /\ staked[v] # NoVoter /\ p \in registered
      /\ last_claim_time[v] # Never => now - last_claim_time[v] >= ClaimPeriod
      /\ HasVote(v, p)
      /\ TotalAge(rows, p) > 0
      /\ last_claim_time' = [last_claim_time EXCEPT ![v] = now]
      /\ votes' = [rows EXCEPT ![<<v, p>>] =
                     [num |-> rows[<<v, p>>].num, weight |-> rows[<<v, p>>].weight, age |-> 0, at |-> now]]
      /\ total_voteage' = [total_voteage EXCEPT ![p] = RestAge(rows, v, p)]
      /\ voteage_at' = [voteage_at EXCEPT ![p] = now]
      /\ UNCHANGED <<now, staked, last_vote_weight, registry, total_votes, total_vote_num, voters,
                     chain, schedule>>

(***************************************************************************)
(* update_elected_producers goes through the index by by_votes, in which   *)
(* inactive producers stand behind the active ones, and takes rows as long *)
(* as they are active and have votes.  The chain takes the proposal or     *)
(* does not, as when the schedule would not change.                        *)
(***************************************************************************)
ByVotes_Unsigned(p) == -total_votes[p]

ByVotes(p) == IF p \in active THEN -total_votes[p] ELSE total_votes[p]

Before(q, p) == ByVotes(q) < ByVotes(p) \/ (ByVotes(q) = ByVotes(p) /\ q < p)

Front(p) == {q \in registered : Before(q, p)}

TopProducers ==
  {p \in registered :
     /\ Cardinality(Front(p)) < TopSize
     /\ \A q \in Front(p) \cup {p} : total_votes[q] > 0 /\ q \in active}

OnBlock(accepted) ==
  /\ IsActivated
  /\ schedule' = IF accepted /\ Cardinality(TopProducers) >= Cardinality(schedule)
                 THEN TopProducers ELSE schedule
  /\ UNCHANGED <<now, purse, votes, registry, tallies, chain>>

Tick ==
  /\ now < MaxTime
  /\ now' = now + 1
  /\ UNCHANGED <<purse, votes, registry, tallies, chain, schedule>>

Next ==
  \/ \E v \in Voters : \E k \in 0..Tokens[v] : Stake(v, k)
  \/ \E p \in Producers : RegProducer(p)
  \/ \E p \in Producers : UnregProd(p)
  \/ \E p \in Producers : RmvProducer(p)
  \/ \E v \in Voters, p \in Producers, k \in VoteNums : VoteProducer(v, p, k)
  \/ \E v \in Voters, p \in Producers : ClaimVoter(v, p)
  \/ \E accepted \in BOOLEAN : OnBlock(accepted)
  \/ Tick

Spec == Init /\ [][Next]_vars

-----------------------------------------------------------------------------
(***************************************************************************)
(* Every table holds what its type says: no stake, vote, weight or age is  *)
(* negative, and no row is from the future.                                *)
(***************************************************************************)
TypeOK ==
  /\ now \in Time
  /\ staked \in [Voters -> Nat \cup {NoVoter}]
  /\ last_vote_weight \in [Voters -> Nat]
  /\ last_claim_time \in [Voters -> Time \cup {Never}]
  /\ votes \in [Pairs -> VoteInfo \cup {NoVote}]
  /\ \A c \in Pairs : votes[c] # NoVote => votes[c].at <= now
  /\ registered \subseteq Producers /\ active \subseteq registered
  /\ voters \in [Producers -> Seq(Voters)]
  /\ total_votes \in [Producers -> Nat]
  /\ total_vote_num \in [Producers -> Nat]
  /\ total_voteage \in [Producers -> Nat]
  /\ voteage_at \in [Producers -> Time]
  /\ total_weight \in Nat /\ activated \in Nat /\ launched \in BOOLEAN
  /\ schedule \subseteq Producers

(***************************************************************************)
(* The number of votes is kept three times, in the votes rows, the         *)
(* producer and the global state, and the three agree, whoever votes for   *)
(* whom, more or less: the chain is activated by real votes.               *)
(***************************************************************************)
VotesAddUp ==
  /\ \A p \in Producers : total_vote_num[p] = Total([v \in Voters |-> Num(v, p)], Voters)
  /\ activated = Total(total_vote_num, Producers)

(***************************************************************************)
(* No token votes twice: what a voter has in votes, for all producers      *)
(* together, and what he may still vote with come out of his tokens.       *)
(***************************************************************************)
VotesAreStaked ==
  \A v \in Voters : StakedOf(v) + Bound(v) <= Tokens[v]

(***************************************************************************)
(* What voters have staked and what they have in votes, for all producers  *)
(* together, move as Suffrage says.  Staking, which has the tables of the  *)
(* delegations and none of the votes, keeps the same promise of the same   *)
(* purse: each of the two may take the steps of the other for granted, and *)
(* total_activated_stake, which the code keeps, is the sum that an unstake *)
(* has to wait for.                                                        *)
(***************************************************************************)
Purse == INSTANCE Suffrage WITH
  Citizens <- Voters, Threshold <- MinActivated,
  free <- [v \in Voters |-> StakedOf(v)], cast <- [v \in Voters |-> Bound(v)]

IsSuffrage == Purse!Spec

(***************************************************************************)
(* The vector of a producer has each account with a votes row for it, once,*)
(* and no other: calculate_prod_all_voter_age finds a row for every voter  *)
(* and counts no age twice.                                                *)
(***************************************************************************)
VotersMatchVotes ==
  \A p \in Producers :
    /\ Range(voters[p]) = {v \in Voters : HasVote(v, p)}
    /\ Len(voters[p]) = Cardinality(Range(voters[p]))

(***************************************************************************)
(* The age of a producer is the sum of the ages of its votes, all taken at *)
(* the same time: what claims share out is never more than the whole.      *)
(***************************************************************************)
AgesAddUp ==
  \A p \in Producers :
    /\ total_voteage[p] = Total([v \in Voters |-> Age(v, p)], Voters)
    /\ \A v \in Voters : HasVote(v, p) => votes[<<v, p>>].at = voteage_at[p]

(***************************************************************************)
(* What total_producer_vote_weight is: the sum of every voter's last vote. *)
(* As long as nobody has voted for more than one producer, it is also the  *)
(* sum of the total_votes, and these are the sums of their votes' weights. *)
(***************************************************************************)
Loyal == \A v \in Voters : Cardinality({p \in Producers : HasVote(v, p)}) <= 1

WeightsOfLastVotes ==
  /\ total_weight = Total(last_vote_weight, Voters)
  /\ Loyal => \A p \in Producers :
       total_votes[p] = Total([v \in Voters |-> IF HasVote(v, p) THEN votes[<<v, p>>].weight ELSE 0], Voters)

(***************************************************************************)
(* What is proposed as the schedule are the active producers with the most *)
(* votes, as many as there are seats for: an unregistered producer that    *)
(* still has votes, for nobody can take them back, is not among them and   *)
(* keeps nobody out.                                                       *)
(***************************************************************************)
BestAreProposed ==
  LET top  == TopProducers
      rest == {q \in active : total_votes[q] > 0} \ top
  IN  /\ top \subseteq active
      /\ Cardinality(top) <= TopSize
      /\ \A p \in top, q \in rest : total_votes[q] <= total_votes[p]
      /\ rest # {} => Cardinality(top) = TopSize

(***************************************************************************)
(* "every producer previously voted for will have vote reduced by previous *)
(* vote weight" (voting.cpp:239): the total_votes of a producer are the    *)
(* weights of the votes for it.                                            *)
(***************************************************************************)
TotalsAreOfOwnVotes ==
  \A p \in Producers :
    total_votes[p] = Total([v \in Voters |-> IF HasVote(v, p) THEN votes[<<v, p>>].weight ELSE 0], Voters)
=============================================================================
