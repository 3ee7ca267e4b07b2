----------------------------- MODULE VotingProofs -----------------------------
(***************************************************************************)
(* The tables of voting agree with one another for every set of voters and *)
(* producers, every stake and every growth of the weights.                 *)
(***************************************************************************)
EXTENDS Voting, TotalProofs

(***************************************************************************)
(* The part of WeightsOfLastVotes that holds whoever votes for whom.       *)
(***************************************************************************)
TotalWeight == total_weight = Total(last_vote_weight, Voters)

(***************************************************************************)
(* The inductive invariant.  That a voter's row is in the vector exactly   *)
(* when it exists is what makes the ages add up; that nobody votes with    *)
(* more than he staked, what keeps stakes natural.                         *)
(***************************************************************************)
Inv ==
  /\ TypeOK
  /\ VotesAddUp
  /\ VotesAreStaked
  /\ VotersMatchVotes
  /\ AgesAddUp
  /\ TotalWeight

(***************************************************************************)
(* A sum over the producers follows a change of one of its terms.          *)
(***************************************************************************)
LEMMA ProducersTotal ==
  ASSUME NEW f, NEW g, NEW p \in Producers, NEW d \in Int,
         \A q \in Producers : f[q] \in Nat /\ g[q] \in Nat,
         \A q \in Producers \ {p} : g[q] = f[q],
         g[p] = f[p] + d
  PROVE  Total(g, Producers) = Total(f, Producers) + d
<1>1. IsFiniteSet(Producers)
  BY NamesAssumption
<1> QED
  BY <1>1, TotalChange

USE NamesAssumption, NumbersAssumption, GrowthAssumption, SentinelAssumption

Rows == [Pairs -> VoteInfo \cup {NoVote}]

NumsFor(p) == [v \in Voters |-> Num(v, p)]
AgesFor(p) == [v \in Voters |-> Age(v, p)]
NumsOf(v)  == [p \in Producers |-> Num(v, p)]

WeightOf(v, p) == IF HasVote(v, p) THEN votes[<<v, p>>].weight ELSE 0

-----------------------------------------------------------------------------
(***************************************************************************)
(* Ageing changes the age and the time of a row, and nothing else.         *)
(***************************************************************************)
LEMMA AgedRow ==
  ASSUME NEW row \in VoteInfo, row.at <= now, now \in Time
  PROVE  /\ Aged(row) \in VoteInfo
         /\ Aged(row).num = row.num /\ Aged(row).weight = row.weight /\ Aged(row).at = now
<1> DEFINE passed == (now - row.at) * TickTime
           units == passed \div Basis
<1>1. row.num \in Nat /\ row.age \in Nat /\ row.at \in Nat /\ now \in Nat
  BY DEF VoteInfo, Time
<1>2. passed \in Nat
  <2>1. now - row.at \in Nat
    BY <1>1
  <2> QED
    BY <2>1
<1>3. units \in Nat
  <2> HIDE DEF passed
  <2> QED
    BY <1>2
<1>4. row.age + row.num * units \in Nat
  <2> HIDE DEF units
  <2> QED
    BY <1>1, <1>3
<1> DEFINE new == [num |-> row.num, weight |-> row.weight, age |-> row.age + row.num * units, at |-> now]
<1>5. new = Aged(row)
  BY DEF Aged
<1> HIDE DEF units
<1>6. new \in VoteInfo
  BY <1>1, <1>4 DEF VoteInfo
<1>7. new.num = row.num /\ new.weight = row.weight /\ new.at = now
  OBVIOUS
<1> QED
  BY <1>5, <1>6, <1>7

(***************************************************************************)
(* Ageing all rows of a producer's voters.                                 *)
(***************************************************************************)
LEMMA AllAgedRows ==
  ASSUME NEW rows \in Rows, NEW p \in Producers, now \in Time,
         \A c \in Pairs : rows[c] # NoVote => rows[c].at <= now,
         \A v \in Range(voters[p]) : v \in Voters /\ rows[<<v, p>>] # NoVote
  PROVE  LET aged == AllAged(rows, p)
         IN  /\ aged \in Rows
             /\ \A c \in Pairs :
                  /\ aged[c] = NoVote <=> rows[c] = NoVote
                  /\ aged[c] # NoVote => aged[c].num = rows[c].num /\ aged[c].weight = rows[c].weight
                  /\ aged[c] # NoVote => aged[c].at <= now
                  /\ c[2] # p => aged[c] = rows[c]
             /\ \A v \in Range(voters[p]) : aged[<<v, p>>].at = now
             /\ \A v \in Voters \ Range(voters[p]) : aged[<<v, p>>] = rows[<<v, p>>]
<1> DEFINE aged == AllAged(rows, p)
           hit(c) == c[2] = p /\ c[1] \in Range(voters[p])
<1>1. \A c \in Pairs : aged[c] = IF hit(c) THEN Aged(rows[c]) ELSE rows[c]
  BY DEF AllAged
<1>2. \A c \in Pairs : hit(c) => rows[c] \in VoteInfo /\ rows[c].at <= now
  BY DEF Rows, Pairs
<1>3. \A c \in Pairs : hit(c) => /\ aged[c] \in VoteInfo
                                 /\ aged[c].num = rows[c].num /\ aged[c].weight = rows[c].weight
                                 /\ aged[c].at = now
  <2> SUFFICES ASSUME NEW c \in Pairs, hit(c)
               PROVE  /\ aged[c] \in VoteInfo
                      /\ aged[c].num = rows[c].num /\ aged[c].weight = rows[c].weight
                      /\ aged[c].at = now
    OBVIOUS
  <2>1. aged[c] = Aged(rows[c])
    BY <1>1
  <2>2. rows[c] \in VoteInfo /\ rows[c].at <= now
    BY <1>2
  <2> HIDE DEF aged, hit
  <2> QED
    BY <2>1, <2>2, AgedRow
<1>4. \A c \in Pairs : ~hit(c) => aged[c] = rows[c]
  BY <1>1
<1>5. \A c \in Pairs : hit(c) => rows[c] # NoVote /\ aged[c] # NoVote
  BY <1>2, <1>3
<1>6. aged \in Rows
  <2>1. aged = [c \in Pairs |-> aged[c]]
    BY DEF AllAged
  <2>2. \A c \in Pairs : aged[c] \in VoteInfo \cup {NoVote}
    BY <1>3, <1>4 DEF Rows
  <2> HIDE DEF aged, hit
  <2> QED
    BY <2>1, <2>2 DEF Rows
<1>7. \A v \in Voters : <<v, p>> \in Pairs /\ (hit(<<v, p>>) <=> v \in Range(voters[p]))
  BY DEF Pairs
<1>8. \A c \in Pairs : c[2] # p => ~hit(c)
  OBVIOUS
<1>9. now \in Int /\ \A c \in Pairs : aged[c] # NoVote => aged[c].at <= now
  BY <1>3, <1>4 DEF Time
<1> HIDE DEF aged, hit
<1> QED
  BY <1>3, <1>4, <1>5, <1>6, <1>7, <1>8, <1>9 DEF aged

(***************************************************************************)
(* What the invariant says of single rows.                                 *)
(***************************************************************************)
LEMMA RowFacts ==
  ASSUME Inv
  PROVE  /\ votes \in Rows /\ now \in Time
         /\ \A c \in Pairs : votes[c] # NoVote => votes[c] \in VoteInfo /\ votes[c].at <= now
         /\ \A w \in Voters, q \in Producers : <<w, q>> \in Pairs /\ Num(w, q) \in Nat /\ Age(w, q) \in Nat
         /\ \A q \in Producers : \A w \in Voters : w \in Range(voters[q]) <=> HasVote(w, q)
         /\ \A q \in Producers : \A w \in Range(voters[q]) : w \in Voters /\ votes[<<w, q>>] # NoVote
<1>1. votes \in Rows /\ now \in Time
  BY DEF Inv, TypeOK, Rows
<1>2. \A c \in Pairs : votes[c] # NoVote => votes[c] \in VoteInfo /\ votes[c].at <= now
  BY DEF Inv, TypeOK
<1>3. \A w \in Voters, q \in Producers : <<w, q>> \in Pairs
  BY DEF Pairs
<1>4. \A w \in Voters, q \in Producers : Num(w, q) \in Nat /\ Age(w, q) \in Nat
  BY <1>2, <1>3 DEF Num, Age, HasVote, VoteInfo
<1>5. \A q \in Producers : Range(voters[q]) = {w \in Voters : HasVote(w, q)}
  BY DEF Inv, VotersMatchVotes
<1> QED
  BY <1>1, <1>2, <1>3, <1>4, <1>5 DEF HasVote

LEMMA BoundType ==
  ASSUME Inv, NEW v \in Voters
  PROVE  Bound(v) \in Nat
<1> DEFINE f == NumsOf(v)
<1>1. \A q \in Producers : f[q] \in Nat
  BY RowFacts DEF NumsOf
<1> HIDE DEF f
<1>2. Total(f, Producers) \in Nat
  BY <1>1, TotalType
<1> QED
  BY <1>2 DEF Bound, f, NumsOf

(***************************************************************************)
(* Weights are natural.                                                    *)
(***************************************************************************)
LEMMA WeightType ==
  ASSUME now \in Time, NEW k \in VoteNums
  PROVE  k \in Nat /\ Weight(k) \in Nat
<1>1. k \in Nat
  OBVIOUS
<1> DEFINE g == Growth[now]
<1>2. g \in Nat
  OBVIOUS
<1>3. k * g \in Nat
  <2> HIDE DEF g
  <2> QED
    BY <1>1, <1>2
<1> QED
  BY <1>1, <1>3 DEF Weight

(***************************************************************************)
(* The rows after a vote: v's has k votes, all of p's voters are aged to   *)
(* the present, and the rows for other producers are as before.            *)
(***************************************************************************)
LEMMA VoteRows ==
  ASSUME Inv, NEW v \in Voters, NEW p \in Producers, NEW k \in VoteNums, VoteProducer(v, p, k)
  PROVE  /\ votes' \in Rows
         /\ \A c \in Pairs : votes'[c] # NoVote => votes'[c].at <= now
         /\ \A q \in Producers \ {p}, w \in Voters : votes'[<<w, q>>] = votes[<<w, q>>]
         /\ \A w \in Voters \ {v} : HasVote(w, p)' = HasVote(w, p) /\ Num(w, p)' = Num(w, p)
         /\ HasVote(v, p)' /\ Num(v, p)' = k
         /\ WeightOf(v, p)' = Weight(k) /\ \A w \in Voters \ {v} : WeightOf(w, p)' = WeightOf(w, p)
         /\ \A w \in Voters : HasVote(w, p)' => votes'[<<w, p>>].at = now
         /\ v \notin Range(voters[p]) => Age(v, p)' = 0
<1> DEFINE with == WithVote(v, p, k)
           rows == AllAged(with, p)
           mine == IF HasVote(v, p)
                   THEN [num |-> k, weight |-> Weight(k), age |-> votes[<<v, p>>].age, at |-> votes[<<v, p>>].at]
                   ELSE [num |-> k, weight |-> Weight(k), age |-> 0, at |-> now]
<1>1. votes' = rows
  BY DEF VoteProducer
<1>2. k \in Nat /\ Weight(k) \in Nat /\ now \in Time
  BY RowFacts, WeightType
<1>3. <<v, p>> \in Pairs
  BY DEF Pairs
<1>4. mine \in VoteInfo /\ mine.at <= now /\ mine.num = k /\ mine.weight = Weight(k)
  <2>1. CASE HasVote(v, p)
    BY <1>2, <1>3, <2>1, RowFacts DEF HasVote, VoteInfo
  <2>2. CASE ~HasVote(v, p)
    BY <1>2, <2>2 DEF VoteInfo, Time
  <2> QED
    BY <2>1, <2>2
<1>5. with = [c \in Pairs |-> IF c = <<v, p>> THEN mine ELSE votes[c]]
  BY RowFacts, <1>3 DEF WithVote, Rows
<1>6. with \in Rows
  <2> HIDE DEF mine
  <2> QED
    BY <1>4, <1>5, RowFacts DEF Rows
<1>7. \A c \in Pairs : with[c] # NoVote => with[c].at <= now
  <2> HIDE DEF mine
  <2> QED
    BY <1>4, <1>5, RowFacts
<1>8. \A w \in Range(voters[p]) : w \in Voters /\ with[<<w, p>>] # NoVote
  <2> HIDE DEF mine
  <2>1. mine # NoVote
    BY <1>4
  <2> QED
    BY <1>5, <2>1, RowFacts
<1>9. /\ rows \in Rows
      /\ \A c \in Pairs :
           /\ rows[c] = NoVote <=> with[c] = NoVote
           /\ rows[c] # NoVote => rows[c].num = with[c].num /\ rows[c].weight = with[c].weight
           /\ rows[c] # NoVote => rows[c].at <= now
           /\ c[2] # p => rows[c] = with[c]
      /\ \A w \in Range(voters[p]) : rows[<<w, p>>].at = now
      /\ \A w \in Voters \ Range(voters[p]) : rows[<<w, p>>] = with[<<w, p>>]
  <2> HIDE DEF with
  <2> QED
    BY <1>2, <1>6, <1>7, <1>8, AllAgedRows
<1>10. with[<<v, p>>] = mine /\ \A c \in Pairs : c # <<v, p>> => with[c] = votes[c]
  <2> HIDE DEF mine
  <2> QED
    BY <1>3, <1>5
<1>11. \A c \in Pairs : c[2] # p => c # <<v, p>>
  OBVIOUS
<1>12. \A w \in Voters \ {v} : <<w, p>> \in Pairs /\ <<w, p>> # <<v, p>>
  BY DEF Pairs
<1>13. v \notin Range(voters[p]) => mine.age = 0 /\ mine.at = now
  BY RowFacts
<1> HIDE DEF mine, with, rows
<1>14. \A w \in Voters \ {v} : HasVote(w, p)' = HasVote(w, p) /\ Num(w, p)' = Num(w, p)
  BY <1>1, <1>9, <1>10, <1>12 DEF HasVote, Num
<1>15. HasVote(v, p)' /\ Num(v, p)' = k
  BY <1>1, <1>3, <1>4, <1>9, <1>10 DEF HasVote, Num
<1>16. \A w \in Voters : HasVote(w, p)' => votes'[<<w, p>>].at = now
  <2> SUFFICES ASSUME NEW w \in Voters, HasVote(w, p)' PROVE rows[<<w, p>>].at = now
    BY <1>1
  <2>1. CASE w \in Range(voters[p])
    BY <1>9, <2>1
  <2>2. CASE w \notin Range(voters[p]) /\ w = v
    BY <1>9, <1>10, <1>13, <2>2
  <2>3. CASE w \notin Range(voters[p]) /\ w # v
    <3>1. HasVote(w, p)
      BY <1>14, <2>3
    <3> QED
      BY <2>3, <3>1, RowFacts
  <2> QED
    BY <2>1, <2>2, <2>3
<1>17. v \notin Range(voters[p]) => Age(v, p)' = 0
  BY <1>1, <1>9, <1>10, <1>13 DEF Age, HasVote
<1>18. ASSUME NEW q \in Producers \ {p}, NEW w \in Voters PROVE votes'[<<w, q>>] = votes[<<w, q>>]
  <2> DEFINE c == <<w, q>>
  <2>1. c \in Pairs /\ c[2] # p
    BY DEF Pairs
  <2> HIDE DEF c
  <2>2. votes'[c] = votes[c]
    BY <1>1, <1>9, <1>10, <1>11, <2>1
  <2> QED
    BY <2>2 DEF c
<1>19. WeightOf(v, p)' = Weight(k) /\ \A w \in Voters \ {v} : WeightOf(w, p)' = WeightOf(w, p)
  <2>1. WeightOf(v, p)' = Weight(k)
    BY <1>1, <1>3, <1>4, <1>9, <1>10, <1>15 DEF HasVote, WeightOf
  <2>2. \A w \in Voters \ {v} : WeightOf(w, p)' = WeightOf(w, p)
    BY <1>1, <1>9, <1>10, <1>12 DEF HasVote, WeightOf
  <2> QED
    BY <2>1, <2>2
<1> QED
  BY <1>1, <1>9, <1>14, <1>15, <1>16, <1>17, <1>18, <1>19

(***************************************************************************)
(* A vote moves the number of votes and the stake by the same amount.      *)
(***************************************************************************)
LEMMA VoteNumbers ==
  ASSUME Inv, NEW v \in Voters, NEW p \in Producers, NEW k \in VoteNums, VoteProducer(v, p, k)
  PROVE  /\ VotesAddUp' /\ total_vote_num' \in [Producers -> Nat] /\ activated' \in Nat
         /\ activated' = activated + (k - Num(v, p))
<1> DEFINE d == k - Num(v, p)
           nums(q)  == [w \in Voters |-> Num(w, q)]
           after(q) == [w \in Voters |-> Num(w, q)']
<1>1. k \in Nat /\ Num(v, p) \in Nat /\ d \in Int
  <2>1. k \in Nat
    OBVIOUS
  <2>2. Num(v, p) \in Nat
    BY RowFacts
  <2> QED
    BY <2>1, <2>2
<1>2. \A q \in Producers : q # p => \A w \in Voters : Num(w, q)' = Num(w, q)
  <2>1. \A q \in Producers \ {p}, w \in Voters : votes'[<<w, q>>] = votes[<<w, q>>]
    BY VoteRows
  <2> QED
    BY <2>1 DEF Num, HasVote
<1>3. \A w \in Voters \ {v} : Num(w, p)' = Num(w, p)
  BY VoteRows
<1>4. Num(v, p)' = k
  BY VoteRows
<1>5. \A q \in Producers, w \in Voters : Num(w, q) \in Nat
  BY RowFacts
<1>6. Total(after(p), Voters) = Total(nums(p), Voters) + d
  <2> DEFINE f == nums(p)
             g == after(p)
  <2>1. \A w \in Voters : f[w] \in Nat /\ g[w] \in Nat
    BY <1>1, <1>3, <1>4, <1>5
  <2>2. \A w \in Voters \ {v} : g[w] = f[w]
    BY <1>3
  <2>3. g[v] = f[v] + d
    BY <1>1, <1>4
  <2> HIDE DEF f, g, d
  <2>4. Total(g, Voters) = Total(f, Voters) + d
    BY <1>1, <2>1, <2>2, <2>3, TotalChange
  <2> QED
    BY <2>4 DEF f, g
<1>7. \A q \in Producers \ {p} : Total(after(q), Voters) = Total(nums(q), Voters)
  <2> SUFFICES ASSUME NEW q \in Producers \ {p} PROVE Total(after(q), Voters) = Total(nums(q), Voters)
    OBVIOUS
  <2>1. after(q) = nums(q)
    BY <1>2
  <2> QED
    BY <2>1
<1>8. \A q \in Producers : total_vote_num[q] = Total(nums(q), Voters)
  BY DEF Inv, VotesAddUp
<1>9. total_vote_num' = [total_vote_num EXCEPT ![p] = total_vote_num[p] + d]
  BY DEF VoteProducer, Change
<1>10. total_vote_num \in [Producers -> Nat] /\ activated = Total(total_vote_num, Producers)
  BY DEF Inv, TypeOK, VotesAddUp
<1>11. total_vote_num'[p] = total_vote_num[p] + d
       /\ \A q \in Producers \ {p} : total_vote_num'[q] = total_vote_num[q]
  <2> HIDE DEF d
  <2> QED
    BY <1>9, <1>10
<1>12. \A q \in Producers : total_vote_num'[q] = Total(after(q), Voters)
  <2> HIDE DEF d, nums, after
  <2> QED
    BY <1>6, <1>7, <1>8, <1>11
<1>13. \A q \in Producers : Total(after(q), Voters) \in Nat
  <2> SUFFICES ASSUME NEW q \in Producers PROVE Total(after(q), Voters) \in Nat
    OBVIOUS
  <2>1. \A w \in Voters : after(q)[w] \in Nat
    BY <1>1, <1>2, <1>3, <1>4, <1>5
  <2> HIDE DEF after
  <2> QED
    BY <2>1, TotalType
<1>14. \A q \in Producers : total_vote_num'[q] \in Nat
  <2> HIDE DEF after
  <2> QED
    BY <1>12, <1>13
<1>15. total_vote_num' \in [Producers -> Nat]
  <2> HIDE DEF d
  <2> QED
    BY <1>9, <1>10, <1>14
<1>16. Total(total_vote_num', Producers) = Total(total_vote_num, Producers) + d
  <2> DEFINE f == total_vote_num
             g == total_vote_num'
  <2>1. \A q \in Producers : f[q] \in Nat /\ g[q] \in Nat
    BY <1>10, <1>14
  <2>2. \A q \in Producers \ {p} : g[q] = f[q]
    BY <1>11
  <2>3. g[p] = f[p] + d
    BY <1>11
  <2> HIDE DEF f, g, d
  <2>4. Total(g, Producers) = Total(f, Producers) + d
    BY <1>1, <2>1, <2>2, <2>3, ProducersTotal
  <2> QED
    BY <2>4 DEF f, g
<1>17. Total(total_vote_num', Producers) \in Nat
  BY <1>14, TotalType
<1>18. activated' = Positive(activated + d)
  BY DEF VoteProducer, Change
<1>19. activated' = Total(total_vote_num', Producers)
  <2> HIDE DEF d
  <2> QED
    BY <1>10, <1>16, <1>17, <1>18 DEF Positive
<1>20. activated' = activated + d
  BY <1>10, <1>16, <1>19
<1> HIDE DEF nums
<1> QED
  BY <1>12, <1>15, <1>17, <1>19, <1>20 DEF VotesAddUp

(***************************************************************************)
(* What a voter adds to his votes comes out of his stake.                  *)
(***************************************************************************)
MovesToVotes(v, d) ==
  /\ d \in Int
  /\ Bound(v) \in Nat /\ Bound(v) + d \in Nat
  /\ Bound(v)' = Bound(v) + d /\ \A w \in Voters \ {v} : Bound(w)' = Bound(w)
  /\ staked[v] # NoVoter /\ staked[v] \in Nat /\ staked[v] - d \in Nat
  /\ staked' = [staked EXCEPT ![v] = staked[v] - d]

LEMMA VoteMoves ==
  ASSUME Inv, NEW v \in Voters, NEW p \in Producers, NEW k \in VoteNums, VoteProducer(v, p, k)
  PROVE  MovesToVotes(v, k - Num(v, p))
<1> DEFINE d == k - Num(v, p)
           nums(w)  == [q \in Producers |-> Num(w, q)]
           after(w) == [q \in Producers |-> Num(w, q)']
<1>1. k \in Nat /\ Num(v, p) \in Nat /\ d \in Int
  <2>1. k \in Nat
    OBVIOUS
  <2>2. Num(v, p) \in Nat
    BY RowFacts
  <2> QED
    BY <2>1, <2>2
<1>2. \A q \in Producers : q # p => \A w \in Voters : Num(w, q)' = Num(w, q)
  <2>1. \A q \in Producers \ {p}, w \in Voters : votes'[<<w, q>>] = votes[<<w, q>>]
    BY VoteRows
  <2> QED
    BY <2>1 DEF Num, HasVote
<1>3. \A w \in Voters \ {v} : Num(w, p)' = Num(w, p)
  BY VoteRows
<1>4. Num(v, p)' = k
  BY VoteRows
<1>5. \A q \in Producers, w \in Voters : Num(w, q) \in Nat
  BY RowFacts
<1>6. Total(after(v), Producers) = Total(nums(v), Producers) + d
  <2> DEFINE f == nums(v)
             g == after(v)
  <2>1. \A q \in Producers : f[q] \in Nat /\ g[q] \in Nat
    BY <1>1, <1>2, <1>4, <1>5
  <2>2. \A q \in Producers \ {p} : g[q] = f[q]
    BY <1>2
  <2>3. g[p] = f[p] + d
    BY <1>1, <1>4
  <2> HIDE DEF f, g, d
  <2>4. Total(g, Producers) = Total(f, Producers) + d
    BY <1>1, <2>1, <2>2, <2>3, ProducersTotal
  <2> QED
    BY <2>4 DEF f, g
<1>7. \A w \in Voters \ {v} : Bound(w)' = Bound(w)
  <2> SUFFICES ASSUME NEW w \in Voters \ {v} PROVE Bound(w)' = Bound(w)
    OBVIOUS
  <2>1. after(w) = nums(w)
    BY <1>2, <1>3
  <2> QED
    BY <2>1 DEF Bound
<1>8. Bound(v)' = Bound(v) + d
  BY <1>6 DEF Bound
<1>9. Bound(v) \in Nat
  <2> DEFINE f == nums(v)
  <2>1. \A q \in Producers : f[q] \in Nat
    BY <1>5
  <2> HIDE DEF f
  <2>2. Total(f, Producers) \in Nat
    BY <2>1, TotalType
  <2> QED
    BY <2>2 DEF Bound, f
<1>10. staked \in [Voters -> Nat \cup {NoVoter}] /\ staked[v] # NoVoter
  BY DEF Inv, TypeOK, VoteProducer
<1>11. staked[v] \in Nat /\ d <= staked[v]
  BY <1>10 DEF VoteProducer, Affords, Change
<1>12. staked' = [staked EXCEPT ![v] = staked[v] - d]
  BY DEF VoteProducer, Debited, Change
<1>13. staked[v] - d \in Nat
  <2> HIDE DEF d
  <2> QED
    BY <1>1, <1>11
<1>14. Bound(v) + d \in Nat
  <2> DEFINE g == after(v)
  <2>1. \A q \in Producers : g[q] \in Nat
    BY <1>1, <1>2, <1>4, <1>5
  <2> HIDE DEF g, d
  <2>2. Total(g, Producers) \in Nat
    BY <2>1, TotalType
  <2> QED
    BY <1>8, <2>2 DEF Bound, g
<1> HIDE DEF d
<1>15. MovesToVotes(v, d)
  BY <1>1, <1>7, <1>8, <1>9, <1>10, <1>11, <1>12, <1>13, <1>14 DEF MovesToVotes
<1> QED
  BY <1>15 DEF d

LEMMA VoteStake ==
  ASSUME Inv, NEW v \in Voters, NEW p \in Producers, NEW k \in VoteNums, VoteProducer(v, p, k)
  PROVE  VotesAreStaked' /\ staked' \in [Voters -> Nat \cup {NoVoter}]
<1> DEFINE d == k - Num(v, p)
<1>1. MovesToVotes(v, d)
  BY VoteMoves
<1> HIDE DEF d
<1>2. /\ d \in Int /\ Bound(v) \in Nat /\ Bound(v)' = Bound(v) + d
      /\ \A w \in Voters \ {v} : Bound(w)' = Bound(w)
      /\ staked[v] # NoVoter /\ staked[v] \in Nat /\ staked[v] - d \in Nat
  BY <1>1 DEF MovesToVotes
<1>3. /\ staked' \in [Voters -> Nat \cup {NoVoter}]
      /\ staked'[v] = staked[v] - d /\ staked'[v] # NoVoter
      /\ \A w \in Voters \ {v} : staked'[w] = staked[w]
  BY <1>1 DEF MovesToVotes, Inv, TypeOK
<1>4. staked[v] + Bound(v) <= Tokens[v] /\ Tokens[v] \in Nat
  BY <1>2 DEF Inv, VotesAreStaked, StakedOf
<1>5. staked'[v] + Bound(v)' <= Tokens[v]
  BY <1>2, <1>3, <1>4
<1>6. \A w \in Voters \ {v} : (IF staked'[w] = NoVoter THEN 0 ELSE staked'[w]) + Bound(w)' <= Tokens[w]
  BY <1>2, <1>3 DEF Inv, VotesAreStaked, StakedOf
<1> QED
  BY <1>3, <1>5, <1>6 DEF VotesAreStaked, StakedOf

(***************************************************************************)
(* A voter is enrolled once.                                               *)
(***************************************************************************)
LEMMA VoteVector ==
  ASSUME Inv, NEW v \in Voters, NEW p \in Producers, NEW k \in VoteNums, VoteProducer(v, p, k)
  PROVE  VotersMatchVotes' /\ voters' \in [Producers -> Seq(Voters)]
<1>1. voters \in [Producers -> Seq(Voters)] /\ voters[p] \in Seq(Voters)
  BY DEF Inv, TypeOK
<1>2. voters' = [voters EXCEPT ![p] = Enrolled(v, p)]
  BY DEF VoteProducer
<1>3. Enrolled(v, p) \in Seq(Voters)
  BY <1>1 DEF Enrolled
<1>4. voters' \in [Producers -> Seq(Voters)]
  BY <1>1, <1>2, <1>3
<1>5. voters'[p] = Enrolled(v, p) /\ \A q \in Producers \ {p} : voters'[q] = voters[q]
  BY <1>1, <1>2
<1> DEFINE R == Range(voters[p])
           L == Len(voters[p])
<1>6. R = {w \in Voters : HasVote(w, p)} /\ L = Cardinality(R)
  BY DEF Inv, VotersMatchVotes
<1>7. {w \in Voters : HasVote(w, p)'} = R \cup {v}
  <2>1. HasVote(v, p)'
    BY VoteRows
  <2>2. \A w \in Voters \ {v} : HasVote(w, p)' = HasVote(w, p)
    BY VoteRows
  <2>3. \A w \in Voters : w \in R <=> HasVote(w, p)
    BY <1>6
  <2>4. R \subseteq Voters
    BY <1>6
  <2>5. \A w \in Voters : HasVote(w, p)' <=> w \in R \cup {v}
    <3> HIDE DEF R
    <3> QED
      BY <2>1, <2>2, <2>3
  <2> HIDE DEF R
  <2> QED
    BY <2>4, <2>5
<1>8. Range(Enrolled(v, p)) = R \cup {v} /\ Len(Enrolled(v, p)) = Cardinality(R \cup {v})
  <2>1. CASE v \in R
    <3>1. Enrolled(v, p) = voters[p]
      BY <2>1 DEF Enrolled
    <3>2. R \cup {v} = R
      BY <2>1
    <3> QED
      BY <1>6, <3>1, <3>2
  <2>2. CASE v \notin R
    <3> DEFINE s == voters[p]
               t == Append(s, v)
    <3>1. Enrolled(v, p) = t
      BY <2>2 DEF Enrolled
    <3>2. /\ Len(t) = Len(s) + 1 /\ DOMAIN t = 1..(Len(s) + 1) /\ DOMAIN s = 1..Len(s)
          /\ Len(s) \in Nat
          /\ t[Len(s) + 1] = v
          /\ \A i \in 1..Len(s) : t[i] = s[i]
      BY <1>1
    <3>3. Range(t) = Range(s) \cup {v}
      <4>1. Range(t) \subseteq Range(s) \cup {v}
        <5> SUFFICES ASSUME NEW i \in 1..(Len(s) + 1) PROVE t[i] \in Range(s) \cup {v}
          BY <3>2 DEF Range
        <5>1. CASE i = Len(s) + 1
          BY <3>2, <5>1
        <5>2. CASE i # Len(s) + 1
          <6>1. i \in 1..Len(s)
            BY <3>2, <5>2
          <6> QED
            BY <3>2, <6>1 DEF Range
        <5> QED
          BY <5>1, <5>2
      <4>2. v \in Range(t)
        <5>1. Len(s) + 1 \in DOMAIN t
          BY <3>2
        <5> QED
          BY <3>2, <5>1 DEF Range
      <4>3. Range(s) \subseteq Range(t)
        <5> SUFFICES ASSUME NEW i \in 1..Len(s) PROVE s[i] \in Range(t)
          BY <3>2 DEF Range
        <5>1. i \in DOMAIN t
          BY <3>2
        <5> QED
          BY <3>2, <5>1 DEF Range
      <4> HIDE DEF s, t
      <4> QED
        BY <4>1, <4>2, <4>3
    <3>4. IsFiniteSet(R)
      <4>1. R \subseteq Voters
        BY <1>6
      <4> HIDE DEF R
      <4> QED
        BY <4>1, FS_Subset
    <3>5. Cardinality(R \cup {v}) = Cardinality(R) + 1
      <4> HIDE DEF R
      <4> QED
        BY <2>2, <3>4, FS_AddElement
    <3>6. Len(t) = Cardinality(R \cup {v})
      BY <1>6, <3>2, <3>5
    <3> QED
      BY <3>1, <3>3, <3>6
  <2> QED
    BY <2>1, <2>2
<1>9. Range(voters'[p]) = {w \in Voters : HasVote(w, p)'} /\ Len(voters'[p]) = Cardinality(Range(voters'[p]))
  BY <1>5, <1>7, <1>8
<1>10. ASSUME NEW q \in Producers \ {p}
       PROVE  /\ Range(voters'[q]) = {w \in Voters : HasVote(w, q)'}
              /\ Len(voters'[q]) = Cardinality(Range(voters'[q]))
  <2>1. \A w \in Voters : votes'[<<w, q>>] = votes[<<w, q>>]
    BY VoteRows
  <2>2. \A w \in Voters : HasVote(w, q)' = HasVote(w, q)
    BY <2>1 DEF HasVote
  <2>3. Range(voters[q]) = {w \in Voters : HasVote(w, q)} /\ Len(voters[q]) = Cardinality(Range(voters[q]))
    BY DEF Inv, VotersMatchVotes
  <2>4. voters'[q] = voters[q]
    BY <1>5
  <2> QED
    BY <2>2, <2>3, <2>4
<1> QED
  BY <1>4, <1>9, <1>10 DEF VotersMatchVotes

(***************************************************************************)
(* A vote brings the producer's age up to date.  A voter who was not in    *)
(* the vector has no age yet.                                              *)
(***************************************************************************)
LEMMA VoteAges ==
  ASSUME Inv, NEW v \in Voters, NEW p \in Producers, NEW k \in VoteNums, VoteProducer(v, p, k)
  PROVE  AgesAddUp' /\ total_voteage' \in [Producers -> Nat] /\ voteage_at' \in [Producers -> Time]
<1> DEFINE ages(q)  == [w \in Voters |-> Age(w, q)]
           after(q) == [w \in Voters |-> Age(w, q)']
<1>1. votes' \in Rows /\ now \in Time
  BY RowFacts, VoteRows
<1>2. ASSUME NEW w \in Voters, NEW q \in Producers PROVE Age(w, q)' \in Nat
  BY <1>1 DEF Age, HasVote, Rows, VoteInfo, Pairs
<1>3. Total(after(p), Voters) \in Nat
  <2> DEFINE f == after(p)
  <2>1. \A w \in Voters : f[w] \in Nat
    BY <1>2
  <2> HIDE DEF f
  <2>2. Total(f, Voters) \in Nat
    BY <2>1, TotalType
  <2> QED
    BY <2>2 DEF f
<1>4. TotalAge(votes', p) = Total(after(p), Voters)
  <2> DEFINE f == [w \in Voters |-> IF w \in Range(voters[p]) THEN votes'[<<w, p>>].age ELSE 0]
             g == after(p)
  <2>1. ASSUME NEW w \in Voters PROVE f[w] = g[w]
    <3>1. CASE w \in Range(voters[p])
      <4>1. HasVote(w, p)'
        BY <3>1, RowFacts, VoteRows
      <4> QED
        BY <3>1, <4>1 DEF Age
    <3>2. CASE w \notin Range(voters[p]) /\ w = v
      BY <3>2, VoteRows
    <3>3. CASE w \notin Range(voters[p]) /\ w # v
      <4>1. ~HasVote(w, p)
        BY <3>3, RowFacts
      <4>2. HasVote(w, p)' = HasVote(w, p)
        BY <3>3, VoteRows
      <4> QED
        BY <3>3, <4>1, <4>2 DEF Age
    <3> QED
      BY <3>1, <3>2, <3>3
  <2> HIDE DEF f, g
  <2>2. Total(f, Voters) = Total(g, Voters)
    BY <2>1, TotalSame
  <2> QED
    BY <2>2 DEF TotalAge, f, g
<1>5. /\ total_voteage' = [total_voteage EXCEPT ![p] = TotalAge(votes', p)]
      /\ voteage_at' = [voteage_at EXCEPT ![p] = now]
  BY DEF VoteProducer
<1>6. total_voteage \in [Producers -> Nat] /\ voteage_at \in [Producers -> Time]
  BY DEF Inv, TypeOK
<1> HIDE DEF after
<1>7. total_voteage' \in [Producers -> Nat] /\ voteage_at' \in [Producers -> Time]
  BY <1>1, <1>3, <1>4, <1>5, <1>6
<1>8. /\ total_voteage'[p] = Total(after(p), Voters) /\ voteage_at'[p] = now
      /\ \A q \in Producers \ {p} : total_voteage'[q] = total_voteage[q] /\ voteage_at'[q] = voteage_at[q]
  BY <1>4, <1>5, <1>6
<1>9. ASSUME NEW q \in Producers \ {p}
      PROVE  /\ total_voteage'[q] = Total(after(q), Voters)
             /\ \A w \in Voters : HasVote(w, q)' => votes'[<<w, q>>].at = voteage_at'[q]
  <2>1. \A w \in Voters : votes'[<<w, q>>] = votes[<<w, q>>]
    BY VoteRows
  <2>2. after(q) = ages(q)
    BY <2>1 DEF Age, HasVote, after
  <2>3. /\ total_voteage[q] = Total(ages(q), Voters)
        /\ \A w \in Voters : HasVote(w, q) => votes[<<w, q>>].at = voteage_at[q]
    BY DEF Inv, AgesAddUp
  <2> HIDE DEF ages
  <2> QED
    BY <1>8, <2>1, <2>2, <2>3 DEF HasVote
<1>10. \A w \in Voters : HasVote(w, p)' => votes'[<<w, p>>].at = voteage_at'[p]
  BY <1>8, VoteRows
<1> QED
  BY <1>7, <1>8, <1>9, <1>10 DEF AgesAddUp, after

(***************************************************************************)
(* A vote replaces the weight of the voter's last one.                     *)
(***************************************************************************)
LEMMA VoteWeight ==
  ASSUME Inv, NEW v \in Voters, NEW p \in Producers, NEW k \in VoteNums, VoteProducer(v, p, k)
  PROVE  /\ TotalWeight' /\ total_weight' \in Nat
         /\ last_vote_weight' \in [Voters -> Nat]
         /\ total_votes' \in [Producers -> Nat]
<1> DEFINE d == Weight(k) - last_vote_weight[v]
           f == last_vote_weight
           g == last_vote_weight'
<1>1. Weight(k) \in Nat
  BY RowFacts, WeightType
<1>2. f \in [Voters -> Nat] /\ total_votes \in [Producers -> Nat] /\ total_weight = Total(f, Voters)
  BY DEF Inv, TypeOK, TotalWeight
<1>3. g = [f EXCEPT ![v] = Weight(k)]
  BY DEF VoteProducer
<1>4. d \in Int
  BY <1>1, <1>2
<1>5. g \in [Voters -> Nat]
  BY <1>1, <1>2, <1>3
<1>6. g[v] = f[v] + d /\ \A w \in Voters \ {v} : g[w] = f[w]
  BY <1>1, <1>2, <1>3
<1>7. \A w \in Voters : f[w] \in Nat /\ g[w] \in Nat
  BY <1>2, <1>5
<1>8. Total(g, Voters) = Total(f, Voters) + d
  <2> HIDE DEF d, f, g
  <2> QED
    BY <1>4, <1>6, <1>7, TotalChange
<1>9. Total(g, Voters) \in Nat
  <2> HIDE DEF f, g
  <2> QED
    BY <1>7, TotalType
<1>10. total_weight' = total_weight + d
  BY DEF VoteProducer, Gain
<1>11. total_votes' = [total_votes EXCEPT ![p] = Positive(total_votes[p] + d)]
  BY DEF VoteProducer, Gain
<1>12. Positive(total_votes[p] + d) \in Nat
  <2> HIDE DEF d
  <2> QED
    BY <1>2, <1>4 DEF Positive
<1>13. total_votes' \in [Producers -> Nat]
  BY <1>2, <1>11, <1>12
<1> HIDE DEF d
<1> QED
  BY <1>2, <1>5, <1>8, <1>9, <1>10, <1>13 DEF TotalWeight

LEMMA VoteStep ==
  ASSUME Inv, NEW v \in Voters, NEW p \in Producers, NEW k \in VoteNums, VoteProducer(v, p, k)
  PROVE  Inv'
<1>1. TypeOK'
  <2>1. /\ votes' \in [Pairs -> VoteInfo \cup {NoVote}]
        /\ \A c \in Pairs : votes'[c] # NoVote => votes'[c].at <= now
    BY VoteRows DEF Rows
  <2>2. UNCHANGED <<now, last_claim_time, registered, active, schedule>> /\ launched' \in BOOLEAN
    BY DEF VoteProducer, registry
  <2> QED
    BY <2>1, <2>2, VoteNumbers, VoteStake, VoteVector, VoteAges, VoteWeight DEF Inv, TypeOK
<1> QED
  BY <1>1, VoteNumbers, VoteStake, VoteVector, VoteAges, VoteWeight DEF Inv

-----------------------------------------------------------------------------
(***************************************************************************)
(* When neither the number of votes in the rows nor the tables they are    *)
(* compared with change, they go on to agree.                              *)
(***************************************************************************)
LEMMA SameVotes ==
  ASSUME Inv, \A w \in Voters, q \in Producers : HasVote(w, q)' = HasVote(w, q) /\ Num(w, q)' = Num(w, q),
         UNCHANGED <<total_vote_num, activated, voters>>
  PROVE  VotesAddUp' /\ VotersMatchVotes' /\ \A w \in Voters : Bound(w)' = Bound(w)
<1>1. ASSUME NEW q \in Producers PROVE [w \in Voters |-> Num(w, q)]' = [w \in Voters |-> Num(w, q)]
  OBVIOUS
<1>2. ASSUME NEW w \in Voters PROVE [q \in Producers |-> Num(w, q)]' = [q \in Producers |-> Num(w, q)]
  OBVIOUS
<1>3. VotesAddUp'
  BY <1>1 DEF Inv, VotesAddUp
<1>4. ASSUME NEW q \in Producers
      PROVE  {w \in Voters : HasVote(w, q)'} = {w \in Voters : HasVote(w, q)}
  OBVIOUS
<1>5. VotersMatchVotes'
  BY <1>4 DEF Inv, VotersMatchVotes
<1> QED
  BY <1>2, <1>3, <1>5 DEF Bound

(***************************************************************************)
(* The rows after a claim: all of p's voters are aged to the present, and  *)
(* the claimer's age is gone.                                              *)
(***************************************************************************)
LEMMA ClaimRows ==
  ASSUME Inv, NEW v \in Voters, NEW p \in Producers, ClaimVoter(v, p)
  PROVE  LET rows == AllAged(votes, p)
         IN  /\ rows \in Rows /\ votes' \in Rows
             /\ \A c \in Pairs : votes'[c] # NoVote => votes'[c].at <= now
             /\ \A w \in Voters, q \in Producers : HasVote(w, q)' = HasVote(w, q) /\ Num(w, q)' = Num(w, q)
             /\ \A w \in Voters, q \in Producers : WeightOf(w, q)' = WeightOf(w, q)
             /\ \A q \in Producers \ {p}, w \in Voters : votes'[<<w, q>>] = votes[<<w, q>>]
             /\ \A w \in Voters \ {v} : votes'[<<w, p>>] = rows[<<w, p>>]
             /\ votes'[<<v, p>>].age = 0
             /\ \A w \in Voters : HasVote(w, p) => rows[<<w, p>>] # NoVote /\ votes'[<<w, p>>].at = now
<1> DEFINE rows == AllAged(votes, p)
           mine == [num |-> rows[<<v, p>>].num, weight |-> rows[<<v, p>>].weight, age |-> 0, at |-> now]
<1>1. /\ rows \in Rows
      /\ \A c \in Pairs :
           /\ rows[c] = NoVote <=> votes[c] = NoVote
           /\ rows[c] # NoVote => rows[c].num = votes[c].num /\ rows[c].weight = votes[c].weight
           /\ rows[c] # NoVote => rows[c].at <= now
           /\ c[2] # p => rows[c] = votes[c]
      /\ \A w \in Range(voters[p]) : rows[<<w, p>>].at = now
  <2>1. now \in Time /\ votes \in Rows /\ \A c \in Pairs : votes[c] # NoVote => votes[c].at <= now
    BY RowFacts
  <2>2. \A w \in Range(voters[p]) : w \in Voters /\ votes[<<w, p>>] # NoVote
    BY RowFacts
  <2> QED
    BY <2>1, <2>2, AllAgedRows
<1>2. <<v, p>> \in Pairs /\ votes[<<v, p>>] # NoVote
  BY DEF ClaimVoter, HasVote, Pairs
<1>3. now \in Time /\ now \in Nat
  BY RowFacts DEF Time
<1>4. votes' = [rows EXCEPT ![<<v, p>>] = mine]
  BY DEF ClaimVoter
<1>5. mine.num = rows[<<v, p>>].num /\ mine.weight = rows[<<v, p>>].weight /\ mine.age = 0 /\ mine.at = now
  OBVIOUS
<1>6. rows[<<v, p>>] \in VoteInfo
  <2> HIDE DEF rows
  <2> QED
    BY <1>1, <1>2 DEF Rows
<1>7. mine \in VoteInfo
  <2> HIDE DEF rows
  <2> QED
    BY <1>3, <1>6 DEF VoteInfo
<1> HIDE DEF rows, mine
<1>8. mine # NoVote /\ mine.at <= now
  BY <1>3, <1>5, <1>7
<1>9. votes'[<<v, p>>] = mine /\ \A c \in Pairs : c # <<v, p>> => votes'[c] = rows[c]
  BY <1>1, <1>2, <1>4 DEF Rows
<1>10. votes' \in Rows
  BY <1>1, <1>4, <1>7 DEF Rows
<1>11. \A c \in Pairs : votes'[c] # NoVote => votes'[c].at <= now
  BY <1>1, <1>8, <1>9
<1>12. ASSUME NEW q \in Producers \ {p}, NEW w \in Voters PROVE votes'[<<w, q>>] = votes[<<w, q>>]
  <2> DEFINE c == <<w, q>>
  <2>1. c \in Pairs /\ c[2] # p /\ c # <<v, p>>
    BY DEF Pairs
  <2> HIDE DEF c
  <2>2. votes'[c] = votes[c]
    BY <1>1, <1>9, <2>1
  <2> QED
    BY <2>2 DEF c
<1>13. \A w \in Voters \ {v} : votes'[<<w, p>>] = rows[<<w, p>>]
  BY <1>9 DEF Pairs
<1>14. ASSUME NEW w \in Voters, NEW q \in Producers PROVE HasVote(w, q)' = HasVote(w, q) /\ Num(w, q)' = Num(w, q)
  <2>1. <<w, q>> \in Pairs
    BY DEF Pairs
  <2>2. CASE <<w, q>> = <<v, p>>
    BY <1>1, <1>2, <1>5, <1>8, <1>9, <2>2 DEF HasVote, Num
  <2>3. CASE <<w, q>> # <<v, p>>
    BY <1>1, <1>9, <2>1, <2>3 DEF HasVote, Num
  <2> QED
    BY <2>2, <2>3
<1>15. ASSUME NEW w \in Voters, HasVote(w, p)
       PROVE  rows[<<w, p>>] # NoVote /\ votes'[<<w, p>>].at = now
  <2>1. <<w, p>> \in Pairs /\ w \in Range(voters[p])
    BY <1>15, RowFacts
  <2>2. rows[<<w, p>>] # NoVote /\ rows[<<w, p>>].at = now
    BY <1>1, <1>15, <2>1 DEF HasVote
  <2>3. CASE w = v
    BY <1>5, <1>9, <2>2, <2>3
  <2>4. CASE w # v
    BY <1>13, <2>2, <2>4
  <2> QED
    BY <2>3, <2>4
<1>16. votes'[<<v, p>>].age = 0
  BY <1>5, <1>9
<1>17. ASSUME NEW w \in Voters, NEW q \in Producers PROVE WeightOf(w, q)' = WeightOf(w, q)
  <2>1. <<w, q>> \in Pairs
    BY DEF Pairs
  <2>2. CASE <<w, q>> = <<v, p>>
    BY <1>1, <1>2, <1>5, <1>8, <1>9, <2>2 DEF HasVote, WeightOf
  <2>3. CASE <<w, q>> # <<v, p>>
    BY <1>1, <1>9, <2>1, <2>3 DEF HasVote, WeightOf
  <2> QED
    BY <2>2, <2>3
<1> QED
  BY <1>1, <1>10, <1>11, <1>12, <1>13, <1>14, <1>15, <1>16, <1>17 DEF rows

(***************************************************************************)
(* A claim takes the claimer's age from the producer's.                    *)
(***************************************************************************)
LEMMA ClaimAges ==
  ASSUME Inv, NEW v \in Voters, NEW p \in Producers, ClaimVoter(v, p)
  PROVE  AgesAddUp' /\ total_voteage' \in [Producers -> Nat] /\ voteage_at' \in [Producers -> Time]
<1> DEFINE rows == AllAged(votes, p)
           f == [w \in Voters |-> IF w \in Range(voters[p]) THEN rows[<<w, p>>].age ELSE 0]
           g == [w \in Voters |-> Age(w, p)']
           d == 0 - f[v]
<1>1. rows \in Rows /\ votes' \in Rows /\ now \in Time
  BY RowFacts, ClaimRows
<1>2. v \in Range(voters[p])
  BY RowFacts DEF ClaimVoter
<1>3. ASSUME NEW w \in Voters PROVE f[w] \in Nat /\ (w # v => g[w] = f[w])
  <2>1. <<w, p>> \in Pairs
    BY RowFacts
  <2>2. HasVote(w, p)' = HasVote(w, p)
    BY ClaimRows
  <2>3. CASE w \in Range(voters[p])
    <3>1. HasVote(w, p) /\ rows[<<w, p>>] # NoVote
      BY <2>3, RowFacts, ClaimRows
    <3>2. rows[<<w, p>>] \in VoteInfo
      <4> HIDE DEF rows
      <4> QED
        BY <1>1, <2>1, <3>1 DEF Rows
    <3>3. f[w] = rows[<<w, p>>].age
      BY <2>3
    <3>4. rows[<<w, p>>].age \in Nat
      <4> HIDE DEF rows
      <4> QED
        BY <3>2 DEF VoteInfo
    <3>5. ASSUME w # v PROVE votes'[<<w, p>>] = rows[<<w, p>>]
      <4>1. \A x \in Voters \ {v} : votes'[<<x, p>>] = rows[<<x, p>>]
        BY ClaimRows
      <4> QED
        BY <3>5, <4>1
    <3>6. g[w] = votes'[<<w, p>>].age
      BY <2>2, <3>1 DEF Age
    <3> HIDE DEF rows, f, g
    <3> QED
      BY <3>3, <3>4, <3>5, <3>6
  <2>4. CASE w \notin Range(voters[p])
    <3>1. ~HasVote(w, p)'
      BY <2>2, <2>4, RowFacts
    <3>2. g[w] = 0 /\ f[w] = 0
      BY <2>4, <3>1 DEF Age
    <3> HIDE DEF f, g
    <3> QED
      BY <3>2
  <2> QED
    BY <2>3, <2>4
<1>4. g[v] = 0
  <2>1. HasVote(v, p)' = HasVote(v, p) /\ HasVote(v, p)
    BY ClaimRows DEF ClaimVoter
  <2>2. votes'[<<v, p>>].age = 0
    BY ClaimRows
  <2> QED
    BY <2>1, <2>2 DEF Age
<1>5. f[v] = rows[<<v, p>>].age
  BY <1>2
<1>6. total_voteage' = [total_voteage EXCEPT ![p] = Total(f, Voters) - rows[<<v, p>>].age]
      /\ voteage_at' = [voteage_at EXCEPT ![p] = now]
  BY DEF ClaimVoter, RestAge, TotalAge
<1> HIDE DEF rows, f, g
<1>7. d \in Int /\ g[v] = f[v] + d
  BY <1>3, <1>4
<1>8. \A w \in Voters : f[w] \in Nat /\ g[w] \in Nat
  BY <1>3, <1>4
<1>9. \A w \in Voters \ {v} : g[w] = f[w]
  BY <1>3
<1>10. Total(g, Voters) = Total(f, Voters) + d
  <2> HIDE DEF d
  <2> QED
    BY <1>7, <1>8, <1>9, TotalChange
<1>11. Total(g, Voters) \in Nat /\ Total(f, Voters) \in Nat
  <2>1. Total(g, Voters) \in Nat
    BY <1>8, TotalType
  <2>2. Total(f, Voters) \in Nat
    BY <1>8, TotalType
  <2> QED
    BY <2>1, <2>2
<1>12. Total(f, Voters) - rows[<<v, p>>].age = Total(g, Voters)
  BY <1>3, <1>5, <1>10, <1>11
<1>13. total_voteage \in [Producers -> Nat] /\ voteage_at \in [Producers -> Time]
  BY DEF Inv, TypeOK
<1>14. total_voteage' \in [Producers -> Nat] /\ voteage_at' \in [Producers -> Time]
  BY <1>1, <1>6, <1>11, <1>12, <1>13
<1>15. /\ total_voteage'[p] = Total(g, Voters) /\ voteage_at'[p] = now
       /\ \A q \in Producers \ {p} : total_voteage'[q] = total_voteage[q] /\ voteage_at'[q] = voteage_at[q]
  BY <1>6, <1>12, <1>13
<1>16. ASSUME NEW q \in Producers \ {p}
       PROVE  /\ total_voteage'[q] = Total([w \in Voters |-> Age(w, q)'], Voters)
              /\ \A w \in Voters : HasVote(w, q)' => votes'[<<w, q>>].at = voteage_at'[q]
  <2>1. \A w \in Voters : votes'[<<w, q>>] = votes[<<w, q>>]
    BY ClaimRows
  <2>2. [w \in Voters |-> Age(w, q)'] = [w \in Voters |-> Age(w, q)]
    BY <2>1 DEF Age, HasVote
  <2>3. /\ total_voteage[q] = Total([w \in Voters |-> Age(w, q)], Voters)
        /\ \A w \in Voters : HasVote(w, q) => votes[<<w, q>>].at = voteage_at[q]
    BY DEF Inv, AgesAddUp
  <2> QED
    BY <1>15, <2>1, <2>2, <2>3 DEF HasVote
<1>17. \A w \in Voters : HasVote(w, p)' => votes'[<<w, p>>].at = voteage_at'[p]
  BY <1>15, ClaimRows
<1> QED
  BY <1>14, <1>15, <1>16, <1>17 DEF AgesAddUp, g

LEMMA ClaimStep ==
  ASSUME Inv, NEW v \in Voters, NEW p \in Producers, ClaimVoter(v, p)
  PROVE  Inv'
<1>1. UNCHANGED <<now, staked, last_vote_weight, registered, active, total_votes, total_vote_num, voters,
                  total_weight, activated, launched, schedule>>
  BY DEF ClaimVoter, registry, chain
<1>2. VotesAddUp' /\ VotersMatchVotes' /\ \A w \in Voters : Bound(w)' = Bound(w)
  BY <1>1, ClaimRows, SameVotes
<1>3. VotesAreStaked'
  BY <1>1, <1>2 DEF Inv, VotesAreStaked, StakedOf
<1>4. TotalWeight'
  BY <1>1 DEF Inv, TotalWeight
<1>5. TypeOK'
  <2>1. votes' \in [Pairs -> VoteInfo \cup {NoVote}]
    BY ClaimRows DEF Rows
  <2>2. \A c \in Pairs : votes'[c] # NoVote => votes'[c].at <= now'
    BY <1>1, ClaimRows
  <2>3. last_claim_time' \in [Voters -> Time \cup {Never}]
    BY DEF Inv, TypeOK, ClaimVoter
  <2> QED
    BY <1>1, <2>1, <2>2, <2>3, ClaimAges DEF Inv, TypeOK
<1> QED
  BY <1>2, <1>3, <1>4, <1>5, ClaimAges DEF Inv

LEMMA StakeStep ==
  ASSUME Inv, NEW v \in Voters, NEW k \in 0..Tokens[v], Stake(v, k)
  PROVE  Inv'
<1>1. UNCHANGED <<now, last_vote_weight, last_claim_time, votes, registered, active, total_votes, total_vote_num,
                  total_voteage, voteage_at, voters, total_weight, activated, launched, schedule>>
  BY DEF Stake, registry, tallies, chain
<1>2. \A w \in Voters, q \in Producers : HasVote(w, q)' = HasVote(w, q) /\ Num(w, q)' = Num(w, q)
  BY <1>1 DEF HasVote, Num
<1>3. VotesAddUp' /\ VotersMatchVotes' /\ \A w \in Voters : Bound(w)' = Bound(w)
  BY <1>1, <1>2, SameVotes
<1>4. k \in Nat /\ Tokens[v] \in Nat
  OBVIOUS
<1>5. staked \in [Voters -> Nat \cup {NoVoter}] /\ staked' = [staked EXCEPT ![v] = k]
  BY DEF Inv, TypeOK, Stake
<1>6. staked' \in [Voters -> Nat \cup {NoVoter}]
  BY <1>4, <1>5
<1>7. staked'[v] = k /\ k # NoVoter /\ \A w \in Voters \ {v} : staked'[w] = staked[w]
  BY <1>4, <1>5
<1>8. k + Bound(v) <= Tokens[v]
  BY DEF Stake
<1>9. VotesAreStaked'
  BY <1>3, <1>7, <1>8 DEF Inv, VotesAreStaked, StakedOf
<1>10. AgesAddUp'
  BY <1>1 DEF Inv, AgesAddUp, Age, HasVote
<1>11. TotalWeight'
  BY <1>1 DEF Inv, TotalWeight
<1>12. TypeOK'
  BY <1>1, <1>6 DEF Inv, TypeOK
<1> QED
  BY <1>3, <1>9, <1>10, <1>11, <1>12 DEF Inv

(***************************************************************************)
(* Registering, leaving, proposing a schedule and the clock touch no table *)
(* of the votes.                                                           *)
(***************************************************************************)
LEMMA QuietStep ==
  ASSUME Inv, TypeOK', UNCHANGED <<staked, last_vote_weight, votes, total_vote_num, total_voteage, voteage_at,
                                   voters, total_weight, activated>>
  PROVE  Inv'
<1>1. \A w \in Voters, q \in Producers : HasVote(w, q)' = HasVote(w, q) /\ Num(w, q)' = Num(w, q)
  BY DEF HasVote, Num
<1>2. VotesAddUp' /\ VotersMatchVotes' /\ \A w \in Voters : Bound(w)' = Bound(w)
  BY <1>1, SameVotes
<1>3. VotesAreStaked'
  BY <1>2 DEF Inv, VotesAreStaked, StakedOf
<1>4. AgesAddUp'
  BY DEF Inv, AgesAddUp, Age, HasVote
<1>5. TotalWeight'
  BY DEF Inv, TotalWeight
<1> QED
  BY <1>2, <1>3, <1>4, <1>5 DEF Inv

-----------------------------------------------------------------------------
LEMMA InitInv == Init => Inv
<1> SUFFICES ASSUME Init PROVE Inv
  OBVIOUS
<1>1. TypeOK
  <2>1. voters \in [Producers -> Seq(Voters)]
    BY DEF Init
  <2>2. 0 \in Time
    BY DEF Time
  <2> QED
    BY <2>1, <2>2 DEF Init, TypeOK
<1>2. \A v \in Voters, p \in Producers : ~HasVote(v, p) /\ Num(v, p) = 0 /\ Age(v, p) = 0
  BY DEF Init, HasVote, Num, Age, Pairs
<1>3. ASSUME NEW p \in Producers
      PROVE  /\ Total([v \in Voters |-> Num(v, p)], Voters) = 0
             /\ Total([v \in Voters |-> Age(v, p)], Voters) = 0
  <2> DEFINE f == [v \in Voters |-> Num(v, p)]
             g == [v \in Voters |-> Age(v, p)]
  <2>1. \A v \in Voters : f[v] = 0 /\ g[v] = 0
    BY <1>2
  <2> HIDE DEF f, g
  <2>2. Total(f, Voters) = 0
    BY <2>1, TotalZero
  <2>3. Total(g, Voters) = 0
    BY <2>1, TotalZero
  <2> QED
    BY <2>2, <2>3 DEF f, g
<1>4. ASSUME NEW v \in Voters PROVE Bound(v) = 0
  <2> DEFINE f == [p \in Producers |-> Num(v, p)]
  <2>1. \A p \in Producers : f[p] = 0
    BY <1>2
  <2> HIDE DEF f
  <2>2. Total(f, Producers) = 0
    BY <2>1, TotalZero
  <2> QED
    BY <2>2 DEF f, Bound
<1>5. VotesAddUp
  <2>1. \A p \in Producers : total_vote_num[p] = 0
    BY DEF Init
  <2>2. Total(total_vote_num, Producers) = 0
    BY <2>1, TotalZero
  <2> QED
    BY <1>3, <2>1, <2>2 DEF Init, VotesAddUp
<1>6. VotesAreStaked
  BY <1>4 DEF Init, VotesAreStaked, StakedOf
<1>7. VotersMatchVotes
  <2> SUFFICES ASSUME NEW p \in Producers
               PROVE  /\ Range(voters[p]) = {v \in Voters : HasVote(v, p)}
                      /\ Len(voters[p]) = Cardinality(Range(voters[p]))
    BY DEF VotersMatchVotes
  <2>1. voters[p] = <<>>
    BY DEF Init
  <2>2. Len(voters[p]) = 0 /\ DOMAIN voters[p] = {}
    BY <2>1
  <2>3. Range(voters[p]) = {}
    BY <2>2 DEF Range
  <2> QED
    BY <1>2, <2>2, <2>3, FS_EmptySet
<1>8. AgesAddUp
  BY <1>2, <1>3 DEF Init, AgesAddUp
<1>9. TotalWeight
  <2>1. \A v \in Voters : last_vote_weight[v] = 0
    BY DEF Init
  <2>2. Total(last_vote_weight, Voters) = 0
    BY <2>1, TotalZero
  <2> QED
    BY <2>2 DEF Init, TotalWeight
<1> QED
  BY <1>1, <1>5, <1>6, <1>7, <1>8, <1>9 DEF Inv

LEMMA NextInv == Inv /\ [Next]_vars => Inv'
<1> SUFFICES ASSUME Inv, [Next]_vars PROVE Inv'
  OBVIOUS
<1> USE DEF chain, tallies, registry, purse
<1>1. ASSUME NEW v \in Voters, NEW k \in 0..Tokens[v], Stake(v, k) PROVE Inv'
  BY <1>1, StakeStep
<1>2. ASSUME NEW p \in Producers, RegProducer(p) PROVE Inv'
  <2>1. TypeOK'
    BY <1>2 DEF Inv, TypeOK, RegProducer
  <2> QED
    BY <1>2, <2>1, QuietStep DEF RegProducer
<1>3. ASSUME NEW p \in Producers, UnregProd(p) PROVE Inv'
  <2>1. TypeOK'
    BY <1>3 DEF Inv, TypeOK, UnregProd
  <2> QED
    BY <1>3, <2>1, QuietStep DEF UnregProd
<1>4. ASSUME NEW p \in Producers, RmvProducer(p) PROVE Inv'
  <2>1. TypeOK'
    BY <1>4 DEF Inv, TypeOK, RmvProducer
  <2> QED
    BY <1>4, <2>1, QuietStep DEF RmvProducer
<1>5. ASSUME NEW v \in Voters, NEW p \in Producers, NEW k \in VoteNums, VoteProducer(v, p, k) PROVE Inv'
  BY <1>5, VoteStep
<1>6. ASSUME NEW v \in Voters, NEW p \in Producers, ClaimVoter(v, p) PROVE Inv'
  BY <1>6, ClaimStep
<1>7. ASSUME NEW accepted \in BOOLEAN, OnBlock(accepted) PROVE Inv'
  <2>1. TopProducers \subseteq Producers
    BY DEF Inv, TypeOK, TopProducers
  <2>2. TypeOK'
    BY <1>7, <2>1 DEF Inv, TypeOK, OnBlock
  <2> QED
    BY <1>7, <2>2, QuietStep DEF OnBlock
<1>8. ASSUME Tick PROVE Inv'
  <2>1. now \in Nat /\ now' = now + 1 /\ now' \in Time
    BY <1>8 DEF Inv, TypeOK, Tick, Time
  <2>2. ASSUME NEW c \in Pairs, votes'[c] # NoVote PROVE votes'[c].at <= now'
    <3>1. votes' = votes /\ votes[c] \in VoteInfo /\ votes[c].at <= now
      BY <1>8, <2>2 DEF Inv, TypeOK, Tick
    <3>2. votes[c].at \in Nat
      BY <3>1 DEF VoteInfo, Time
    <3> QED
      BY <2>1, <3>1, <3>2
  <2>3. TypeOK'
    BY <1>8, <2>1, <2>2 DEF Inv, TypeOK, Tick
  <2> QED
    BY <1>8, <2>3, QuietStep DEF Tick
<1>9. ASSUME UNCHANGED vars PROVE Inv'
  <2>1. TypeOK'
    BY <1>9 DEF Inv, TypeOK, vars
  <2> QED
    BY <1>9, <2>1, QuietStep DEF vars
<1> QED
  BY <1>1, <1>2, <1>3, <1>4, <1>5, <1>6, <1>7, <1>8, <1>9 DEF Next

LEMMA Invariant == Spec => []Inv
BY InitInv, NextInv, PTL DEF Spec

(***************************************************************************)
(* No table of voting leaves its type: voteproducer never takes a stake,   *)
(* and claimvoter never an age, below zero.                                *)
(***************************************************************************)
THEOREM TypeCorrect == Spec => []TypeOK
<1>1. Inv => TypeOK
  BY DEF Inv
<1> QED
  BY <1>1, Invariant, PTL

(***************************************************************************)
(* The votes of the rows, of the producers and of the chain agree through  *)
(* every voteproducer.                                                     *)
(***************************************************************************)
THEOREM Activation == Spec => []VotesAddUp
<1>1. Inv => VotesAddUp
  BY DEF Inv
<1> QED
  BY <1>1, Invariant, PTL

(***************************************************************************)
(* Votes and stake together are never more than a voter's tokens, however  *)
(* many producers voteproducer is called for.                              *)
(***************************************************************************)
THEOREM OneTokenOneVote == Spec => []VotesAreStaked
<1>1. Inv => VotesAreStaked
  BY DEF Inv
<1> QED
  BY <1>1, Invariant, PTL

(***************************************************************************)
(* The vectors that voteproducer appends to hold just the voters with      *)
(* rows, each once.                                                        *)
(***************************************************************************)
THEOREM VectorsMatchRows == Spec => []VotersMatchVotes
<1>1. Inv => VotersMatchVotes
  BY DEF Inv
<1> QED
  BY <1>1, Invariant, PTL

(***************************************************************************)
(* The age a producer's rewards are shared out by is the sum of its voters'*)
(* ages after every voteproducer and claimvoter.                           *)
(***************************************************************************)
THEOREM AgesMatchRows == Spec => []AgesAddUp
<1>1. Inv => AgesAddUp
  BY DEF Inv
<1> QED
  BY <1>1, Invariant, PTL

-----------------------------------------------------------------------------
(***************************************************************************)
(* total_activated_stake, counted by producer, is the sum of what the      *)
(* voters have in votes: the sum Suffrage asks for.                        *)
(***************************************************************************)
Bounds == [v \in Voters |-> Bound(v)]

VotersAddUp == activated = Total(Bounds, Voters)

LEMMA VoteBounds ==
  ASSUME Inv, VotersAddUp, NEW v \in Voters, NEW p \in Producers, NEW k \in VoteNums, VoteProducer(v, p, k)
  PROVE  VotersAddUp'
<1> DEFINE d == k - Num(v, p)
           f == Bounds
           g == Bounds'
<1>1. MovesToVotes(v, d) /\ activated' = activated + d
  BY VoteMoves, VoteNumbers
<1> HIDE DEF d
<1>2. d \in Int /\ activated = Total(f, Voters)
  BY <1>1 DEF MovesToVotes, VotersAddUp
<1>3. /\ f[v] \in Nat /\ g[v] = f[v] + d /\ g[v] \in Nat
      /\ \A w \in Voters \ {v} : g[w] = f[w]
  BY <1>1 DEF MovesToVotes, Bounds
<1>4. \A w \in Voters : f[w] \in Nat
  BY BoundType DEF Bounds
<1>5. Total(g, Voters) = Total(f, Voters) + d
  <2> HIDE DEF f, g
  <2>1. \A w \in Voters : f[w] \in Nat /\ g[w] \in Nat
    BY <1>3, <1>4
  <2> QED
    BY <1>2, <1>3, <2>1, TotalChange
<1> QED
  BY <1>1, <1>2, <1>5 DEF VotersAddUp

LEMMA SameBounds ==
  ASSUME \A w \in Voters : Bound(w)' = Bound(w)
  PROVE  Bounds' = Bounds
BY DEF Bounds

(***************************************************************************)
(* All but voteproducer leave the numbers of votes alone.                  *)
(***************************************************************************)
LEMMA OthersBounds ==
  ASSUME Inv, [Next]_vars
  PROVE  \/ \E v \in Voters, p \in Producers, k \in VoteNums : VoteProducer(v, p, k)
         \/ /\ activated' = activated /\ \A w \in Voters : Bound(w)' = Bound(w)
            /\ staked' = staked \/ \E v \in Voters : \E k \in 0..Tokens[v] : Stake(v, k)
<1>1. ASSUME NEW v \in Voters, NEW p \in Producers, ClaimVoter(v, p)
      PROVE  staked' = staked /\ activated' = activated /\ \A w \in Voters : Bound(w)' = Bound(w)
  <2>1. UNCHANGED <<staked, total_vote_num, activated, voters>>
    BY <1>1 DEF ClaimVoter, chain
  <2>2. \A w \in Voters, q \in Producers : HasVote(w, q)' = HasVote(w, q) /\ Num(w, q)' = Num(w, q)
    BY <1>1, ClaimRows
  <2> QED
    BY <2>1, <2>2, SameVotes
<1>2. ASSUME votes' = votes
      PROVE  \A w \in Voters : Bound(w)' = Bound(w)
  BY <1>2 DEF Bound, Num, HasVote
<1>3. \/ \E v \in Voters, p \in Producers, k \in VoteNums : VoteProducer(v, p, k)
      \/ \E v \in Voters, p \in Producers : ClaimVoter(v, p)
      \/ /\ votes' = votes /\ activated' = activated
         /\ staked' = staked \/ \E v \in Voters : \E k \in 0..Tokens[v] : Stake(v, k)
  BY DEF Next, vars, purse, chain, Stake, RegProducer, UnregProd, RmvProducer, OnBlock, Tick
<1> QED
  BY <1>1, <1>2, <1>3

LEMMA NextBounds == Inv /\ VotersAddUp /\ [Next]_vars => VotersAddUp'
<1> SUFFICES ASSUME Inv, VotersAddUp, [Next]_vars
             PROVE  VotersAddUp'
  OBVIOUS
<1>1. ASSUME NEW v \in Voters, NEW p \in Producers, NEW k \in VoteNums, VoteProducer(v, p, k)
      PROVE  VotersAddUp'
  BY <1>1, VoteBounds
<1>2. CASE activated' = activated /\ \A w \in Voters : Bound(w)' = Bound(w)
  BY <1>2, SameBounds DEF VotersAddUp
<1> QED
  BY <1>1, <1>2, OthersBounds

LEMMA InitBounds == Init => VotersAddUp /\ Purse!Init
<1> SUFFICES ASSUME Init
             PROVE  VotersAddUp /\ Purse!Init
  OBVIOUS
<1>1. \A v \in Voters, p \in Producers : Num(v, p) = 0
  BY DEF Init, Num, HasVote, Pairs
<1>2. ASSUME NEW v \in Voters
      PROVE  Bound(v) = 0
  <2> DEFINE f == [p \in Producers |-> Num(v, p)]
  <2>1. \A p \in Producers : f[p] = 0
    BY <1>1
  <2> HIDE DEF f
  <2>2. Total(f, Producers) = 0
    BY <2>1, TotalZero
  <2> QED
    BY <2>2 DEF f, Bound
<1>3. \A v \in Voters : Bounds[v] = 0
  BY <1>2 DEF Bounds
<1>4. VotersAddUp
  BY <1>3, TotalZero DEF VotersAddUp, Init
<1>5. [v \in Voters |-> StakedOf(v)] = [v \in Voters |-> 0]
  BY DEF Init, StakedOf
<1>6. [v \in Voters |-> Bound(v)] = [v \in Voters |-> 0]
  BY <1>2
<1> QED
  BY <1>4, <1>5, <1>6 DEF Purse!Init

-----------------------------------------------------------------------------
LEMMA PurseTotal ==
  ASSUME NEW f, NEW S
  PROVE  Purse!Total(f, S) = Total(f, S)
<1>1. Purse!Units(f, S) = Units(f, S)
  BY DEF Units, UnitsOf, Purse!Units, Purse!UnitsOf
<1>2. Purse!Cardinality(Units(f, S)) = Cardinality(Units(f, S))
  BY DEF Cardinality, Purse!Cardinality
<1> QED
  BY <1>1, <1>2 DEF Total, Purse!Total

(***************************************************************************)
(* Suffrage's view: votes come out of the stake and go back to it, and     *)
(* what staking makes of the stake it makes of one citizen's alone.        *)
(***************************************************************************)
Stakes == [v \in Voters |-> StakedOf(v)]

LEMMA VoteIsSuffrage ==
  ASSUME Inv, NEW v \in Voters, NEW p \in Producers, NEW k \in VoteNums, VoteProducer(v, p, k)
  PROVE  Purse!Vote(v)
<1> DEFINE d == k - Num(v, p)
           free == Stakes
           after == Stakes'
           cast == Bounds
           then == Bounds'
<1>1. MovesToVotes(v, d)
  BY VoteMoves
<1> HIDE DEF d
<1>2. staked' = [staked EXCEPT ![v] = staked[v] - d] /\ staked \in [Voters -> Nat \cup {NoVoter}]
  BY <1>1 DEF MovesToVotes, Inv, TypeOK
<1>3. staked[v] # NoVoter /\ staked[v] \in Nat /\ staked[v] - d \in Nat /\ d \in Int
  BY <1>1 DEF MovesToVotes
<1>4. staked'[v] = staked[v] - d /\ \A w \in Voters \ {v} : staked'[w] = staked[w]
  BY <1>2
<1>5. /\ free[v] = staked[v] /\ after[v] = staked[v] - d
      /\ \A w \in Voters \ {v} : after[w] = free[w]
  BY <1>3, <1>4 DEF Stakes, StakedOf
<1>6. /\ cast[v] = Bound(v) /\ then[v] = Bound(v) + d
      /\ \A w \in Voters \ {v} : then[w] = cast[w]
  BY <1>1 DEF MovesToVotes, Bounds
<1>7. Bound(v) \in Nat /\ Bound(v) + d \in Nat
  BY <1>1 DEF MovesToVotes
<1>8. after[v] >= 0 /\ then[v] >= 0 /\ after[v] + then[v] = free[v] + cast[v]
  BY <1>3, <1>5, <1>6, <1>7
<1>9. DOMAIN free = Voters /\ DOMAIN after = Voters /\ DOMAIN cast = Voters /\ DOMAIN then = Voters
      /\ free = [w \in Voters |-> free[w]] /\ after = [w \in Voters |-> after[w]]
      /\ cast = [w \in Voters |-> cast[w]] /\ then = [w \in Voters |-> then[w]]
  BY DEF Stakes, Bounds
<1> HIDE DEF free, after, cast, then
<1>10. after = [free EXCEPT ![v] = after[v]]
  BY <1>5, <1>9
<1>11. then = [cast EXCEPT ![v] = then[v]]
  BY <1>6, <1>9
<1> QED
  BY <1>8, <1>10, <1>11 DEF Purse!Vote, free, after, cast, then, Stakes, Bounds

LEMMA StakeIsSuffrage ==
  ASSUME Inv, VotersAddUp, NEW v \in Voters, NEW k \in 0..Tokens[v], Stake(v, k),
         \A w \in Voters : Bound(w)' = Bound(w)
  PROVE  [Purse!Next]_Purse!vars
<1> DEFINE free == Stakes
           after == Stakes'
<1>1. Bounds' = Bounds
  BY SameBounds
<1>2. k \in Nat /\ k # NoVoter
  OBVIOUS
<1>3. staked \in [Voters -> Nat \cup {NoVoter}] /\ staked' = [staked EXCEPT ![v] = k]
  BY DEF Inv, TypeOK, Stake
<1>4. staked'[v] = k /\ \A w \in Voters \ {v} : staked'[w] = staked[w]
  BY <1>3
<1>5. /\ free[v] = StakedOf(v) /\ after[v] = k
      /\ \A w \in Voters \ {v} : after[w] = free[w]
  BY <1>2, <1>4 DEF Stakes, StakedOf
<1>6. free = [w \in Voters |-> free[w]] /\ after = [w \in Voters |-> after[w]]
  BY DEF Stakes
<1>7. StakedOf(v) \in Nat
  BY <1>3 DEF StakedOf
<1>8. after = [free EXCEPT ![v] = after[v]]
  <2> HIDE DEF free, after
  <2> QED
    BY <1>5, <1>6
<1>9. CASE k = StakedOf(v)
  <2>1. after = free
    <3> HIDE DEF free, after
    <3> QED
      BY <1>5, <1>6, <1>9
  <2> QED
    BY <1>1, <2>1 DEF Purse!vars, Stakes, Bounds
<1>10. CASE k > StakedOf(v)
  <2>1. Purse!Stake(v)
    BY <1>1, <1>5, <1>8, <1>10 DEF Purse!Stake, Stakes, Bounds
  <2> QED
    BY <2>1 DEF Purse!Next
<1>11. CASE k < StakedOf(v)
  <2>1. IsActivated
    BY <1>2, <1>11 DEF Stake, StakedOf
  <2>2. Purse!Total(Bounds, Voters) >= MinActivated
    BY <2>1, PurseTotal DEF IsActivated, VotersAddUp
  <2>3. Purse!Unstake(v)
    BY <1>1, <1>2, <1>5, <1>8, <1>11, <2>2 DEF Purse!Unstake, Stakes, Bounds
  <2> QED
    BY <2>3 DEF Purse!Next
<1> QED
  BY <1>2, <1>7, <1>9, <1>10, <1>11

LEMMA PurseStep == Inv /\ VotersAddUp /\ [Next]_vars => [Purse!Next]_Purse!vars
<1> SUFFICES ASSUME Inv, VotersAddUp, [Next]_vars
             PROVE  [Purse!Next]_Purse!vars
  OBVIOUS
<1>1. ASSUME NEW v \in Voters, NEW p \in Producers, NEW k \in VoteNums, VoteProducer(v, p, k)
      PROVE  Purse!Next
  BY <1>1, VoteIsSuffrage DEF Purse!Next
<1>2. ASSUME \A w \in Voters : Bound(w)' = Bound(w), NEW v \in Voters, NEW k \in 0..Tokens[v], Stake(v, k)
      PROVE  [Purse!Next]_Purse!vars
  BY <1>2, StakeIsSuffrage
<1>3. CASE staked' = staked /\ \A w \in Voters : Bound(w)' = Bound(w)
  BY <1>3 DEF Purse!vars, StakedOf
<1> QED
  BY <1>1, <1>2, <1>3, OthersBounds

(***************************************************************************)
(* voteproducer, called for as many producers as there are and with more   *)
(* or fewer votes than before, moves a voter's tokens between his stake    *)
(* and his votes and makes none; and no stake can leave before the votes   *)
(* of all, which the chain counts by producer, are what activates it.      *)
(***************************************************************************)
THEOREM KeepsSuffrage == Spec => IsSuffrage
<1>1. Spec => []VotersAddUp
  BY InitBounds, NextBounds, Invariant, PTL DEF Spec
<1>2. Spec => Purse!Init /\ [][Purse!Next]_Purse!vars
  BY <1>1, InitBounds, PurseStep, Invariant, PTL DEF Spec
<1> QED
  BY <1>2 DEF IsSuffrage, Purse!Spec

-----------------------------------------------------------------------------
(***************************************************************************)
(* A set of at most one element.                                           *)
(***************************************************************************)
LEMMA AtMostOne ==
  ASSUME NEW S, IsFiniteSet(S), Cardinality(S) <= 1, NEW x \in S, NEW y \in S
  PROVE  x = y
<1>1. {x} \subseteq S
  OBVIOUS
<1>2. Cardinality({x}) = 1 /\ IsFiniteSet({x})
  BY FS_Singleton
<1>3. Cardinality({x}) <= Cardinality(S)
  BY <1>1, FS_Subset
<1>4. Cardinality(S) \in Nat
  BY FS_CardinalityType
<1>5. Cardinality({x}) = Cardinality(S)
  BY <1>2, <1>3, <1>4
<1>6. {x} = S
  BY <1>1, <1>5, FS_Subset
<1> QED
  BY <1>6

(***************************************************************************)
(* While nobody has voted for two producers: the total_votes of a producer *)
(* are the weights of its votes, and last_vote_weight is the weight of a   *)
(* voter's only vote, or 0.  It is this last part that makes the second    *)
(* part of WeightsOfLastVotes inductive, for voteproducer takes back       *)
(* last_vote_weight from the producer voted for.                           *)
(***************************************************************************)
ChoiceOf(v) == {p \in Producers : HasVote(v, p)}
WeightsFor(p) == [v \in Voters |-> WeightOf(v, p)]

LoyalWeights ==
  Loyal => /\ \A p \in Producers : total_votes[p] = Total(WeightsFor(p), Voters)
           /\ \A v \in Voters : \A p \in ChoiceOf(v) : last_vote_weight[v] = WeightOf(v, p)
           /\ \A v \in Voters : ChoiceOf(v) = {} => last_vote_weight[v] = 0

(***************************************************************************)
(* No vote is ever withdrawn, so who is loyal has always been.             *)
(***************************************************************************)
LEMMA LoyalBefore ==
  ASSUME \A v \in Voters, p \in Producers : HasVote(v, p) => HasVote(v, p)', Loyal'
  PROVE  Loyal
<1> SUFFICES ASSUME NEW v \in Voters PROVE Cardinality(ChoiceOf(v)) <= 1
  BY DEF Loyal, ChoiceOf
<1> DEFINE S == ChoiceOf(v)
           T == ChoiceOf(v)'
<1>1. S \subseteq T /\ T \subseteq Producers
  BY DEF ChoiceOf
<1>2. Cardinality(T) <= 1
  BY DEF Loyal, ChoiceOf
<1> HIDE DEF S, T
<1>3. IsFiniteSet(T)
  BY <1>1, FS_Subset
<1>4. IsFiniteSet(S) /\ Cardinality(S) <= Cardinality(T)
  BY <1>1, <1>3, FS_Subset
<1>5. Cardinality(S) \in Nat /\ Cardinality(T) \in Nat
  BY <1>3, <1>4, FS_CardinalityType
<1>6. Cardinality(S) <= 1
  BY <1>2, <1>4, <1>5
<1> QED
  BY <1>6 DEF S

(***************************************************************************)
(* A step that changes no weight keeps the agreement.                      *)
(***************************************************************************)
LEMMA SameWeights ==
  ASSUME LoyalWeights,
         \A v \in Voters, p \in Producers : HasVote(v, p)' = HasVote(v, p) /\ WeightOf(v, p)' = WeightOf(v, p),
         UNCHANGED <<total_votes, last_vote_weight>>
  PROVE  LoyalWeights'
<1>1. \A v \in Voters : ChoiceOf(v)' = ChoiceOf(v)
  BY DEF ChoiceOf
<1>2. \A p \in Producers : WeightsFor(p)' = WeightsFor(p)
  BY DEF WeightsFor
<1>3. Loyal' => Loyal
  BY LoyalBefore
<1>4. \A v \in Voters : \A p \in ChoiceOf(v) : WeightOf(v, p)' = WeightOf(v, p)
  BY DEF ChoiceOf
<1> QED
  BY <1>1, <1>2, <1>3, <1>4 DEF LoyalWeights

(***************************************************************************)
(* A vote of a loyal voter takes back the weight of his last vote for the  *)
(* same producer.                                                          *)
(***************************************************************************)
LEMMA VoteLoyal ==
  ASSUME Inv, LoyalWeights, NEW v \in Voters, NEW p \in Producers, NEW k \in VoteNums, VoteProducer(v, p, k)
  PROVE  LoyalWeights'
<1> SUFFICES ASSUME Loyal'
             PROVE  /\ \A q \in Producers : total_votes'[q] = Total(WeightsFor(q)', Voters)
                    /\ \A w \in Voters : \A q \in ChoiceOf(w)' : last_vote_weight'[w] = WeightOf(w, q)'
                    /\ \A w \in Voters : ChoiceOf(w)' = {} => last_vote_weight'[w] = 0
  BY DEF LoyalWeights
<1>1. /\ \A q \in Producers \ {p}, w \in Voters : votes'[<<w, q>>] = votes[<<w, q>>]
      /\ \A w \in Voters \ {v} : HasVote(w, p)' = HasVote(w, p) /\ WeightOf(w, p)' = WeightOf(w, p)
      /\ HasVote(v, p)' /\ WeightOf(v, p)' = Weight(k)
  BY VoteRows
<1>2. \A q \in Producers \ {p}, w \in Voters : HasVote(w, q)' = HasVote(w, q) /\ WeightOf(w, q)' = WeightOf(w, q)
  BY <1>1 DEF HasVote, WeightOf
<1>3. \A w \in Voters, q \in Producers : HasVote(w, q) => HasVote(w, q)'
  BY <1>1, <1>2
<1>4. Loyal
  BY <1>3, LoyalBefore
<1>5. /\ \A q \in Producers : total_votes[q] = Total(WeightsFor(q), Voters)
      /\ \A w \in Voters : \A q \in ChoiceOf(w) : last_vote_weight[w] = WeightOf(w, q)
      /\ \A w \in Voters : ChoiceOf(w) = {} => last_vote_weight[w] = 0
  BY <1>4 DEF LoyalWeights
<1>6. ChoiceOf(v)' = {p}
  <2> DEFINE T == ChoiceOf(v)'
  <2>1. T \subseteq Producers /\ p \in T
    BY <1>1 DEF ChoiceOf
  <2>2. Cardinality(T) <= 1
    BY DEF Loyal, ChoiceOf
  <2> HIDE DEF T
  <2>3. IsFiniteSet(T)
    BY <2>1, FS_Subset
  <2>4. \A q \in T : q = p
    BY <2>1, <2>2, <2>3, AtMostOne
  <2>5. T = {p}
    BY <2>1, <2>4
  <2> QED
    BY <2>5 DEF T
<1>7. last_vote_weight[v] = WeightOf(v, p)
  <2>1. CASE HasVote(v, p)
    BY <1>5, <2>1 DEF ChoiceOf
  <2>2. CASE ~HasVote(v, p)
    <3>1. ASSUME NEW q \in Producers, HasVote(v, q) PROVE FALSE
      <4>1. HasVote(v, q)'
        BY <1>3, <3>1
      <4>2. q \in ChoiceOf(v)'
        BY <4>1 DEF ChoiceOf
      <4>3. q = p
        BY <1>6, <4>2
      <4> QED
        BY <2>2, <3>1, <4>3
    <3>2. ChoiceOf(v) = {}
      BY <3>1 DEF ChoiceOf
    <3> QED
      BY <1>5, <2>2, <3>2 DEF WeightOf
  <2> QED
    BY <2>1, <2>2
<1>8. Weight(k) \in Nat
  BY RowFacts, WeightType
<1>9. \A w \in Voters, q \in Producers : WeightOf(w, q) \in Nat
  BY RowFacts DEF WeightOf, HasVote, VoteInfo
<1>10. /\ last_vote_weight \in [Voters -> Nat] /\ total_votes \in [Producers -> Nat]
  BY DEF Inv, TypeOK
<1> DEFINE d == Weight(k) - WeightOf(v, p)
           f == WeightsFor(p)
           g == WeightsFor(p)'
<1>11. d \in Int
  BY <1>8, <1>9
<1>12. \A w \in Voters : f[w] \in Nat /\ g[w] \in Nat
  BY <1>1, <1>8, <1>9 DEF WeightsFor
<1>13. g[v] = f[v] + d /\ \A w \in Voters \ {v} : g[w] = f[w]
  BY <1>1, <1>8, <1>9 DEF WeightsFor
<1>14. total_votes[p] = Total(f, Voters)
  BY <1>5
<1>15. total_votes' = [total_votes EXCEPT ![p] = Positive(total_votes[p] + d)]
  BY <1>7 DEF VoteProducer, Gain
<1>16. total_votes'[p] = Total(g, Voters)
  <2> HIDE DEF d, f, g
  <2>1. Total(g, Voters) = Total(f, Voters) + d
    BY <1>11, <1>12, <1>13, TotalChange
  <2>2. Total(g, Voters) \in Nat /\ Total(f, Voters) \in Nat
    BY <1>12, TotalType
  <2>3. total_votes'[p] = Positive(total_votes[p] + d)
    BY <1>10, <1>15
  <2> QED
    BY <1>14, <2>1, <2>2, <2>3 DEF Positive
<1>17. \A q \in Producers \ {p} : total_votes'[q] = Total(WeightsFor(q)', Voters)
  <2>1. ASSUME NEW q \in Producers \ {p} PROVE WeightsFor(q)' = WeightsFor(q)
    BY <1>2 DEF WeightsFor
  <2>2. \A q \in Producers \ {p} : total_votes'[q] = total_votes[q]
    BY <1>10, <1>15
  <2> QED
    BY <1>5, <2>1, <2>2
<1>18. last_vote_weight'[v] = Weight(k) /\ \A w \in Voters \ {v} : last_vote_weight'[w] = last_vote_weight[w]
  BY <1>10 DEF VoteProducer
<1>19. \A w \in Voters \ {v} : ChoiceOf(w)' = ChoiceOf(w)
  BY <1>1, <1>2 DEF ChoiceOf
<1>20. \A w \in Voters \ {v} : \A q \in ChoiceOf(w) : q \in Producers /\ WeightOf(w, q)' = WeightOf(w, q)
  BY <1>1, <1>2 DEF ChoiceOf
<1>21. \A w \in Voters : \A q \in ChoiceOf(w)' : last_vote_weight'[w] = WeightOf(w, q)'
  BY <1>1, <1>5, <1>6, <1>18, <1>19, <1>20
<1>22. \A w \in Voters : ChoiceOf(w)' = {} => last_vote_weight'[w] = 0
  BY <1>5, <1>6, <1>18, <1>19
<1> QED
  BY <1>14, <1>16, <1>17, <1>21, <1>22

LEMMA NextWeights == Inv /\ LoyalWeights /\ [Next]_vars => LoyalWeights'
<1> SUFFICES ASSUME Inv, LoyalWeights, [Next]_vars PROVE LoyalWeights'
  OBVIOUS
<1>1. ASSUME NEW v \in Voters, NEW p \in Producers, NEW k \in VoteNums, VoteProducer(v, p, k) PROVE LoyalWeights'
  BY <1>1, VoteLoyal
<1>2. ASSUME NEW v \in Voters, NEW p \in Producers, ClaimVoter(v, p) PROVE LoyalWeights'
  <2>1. \A w \in Voters, q \in Producers : HasVote(w, q)' = HasVote(w, q) /\ WeightOf(w, q)' = WeightOf(w, q)
    BY <1>2, ClaimRows
  <2>2. UNCHANGED <<total_votes, last_vote_weight>>
    BY <1>2 DEF ClaimVoter
  <2> QED
    BY <2>1, <2>2, SameWeights
<1>3. ASSUME UNCHANGED <<votes, total_votes, last_vote_weight>> PROVE LoyalWeights'
  <2>1. \A w \in Voters, q \in Producers : HasVote(w, q)' = HasVote(w, q) /\ WeightOf(w, q)' = WeightOf(w, q)
    BY <1>3 DEF HasVote, WeightOf
  <2> QED
    BY <1>3, <2>1, SameWeights
<1>4. \/ \E v \in Voters, p \in Producers, k \in VoteNums : VoteProducer(v, p, k)
      \/ \E v \in Voters, p \in Producers : ClaimVoter(v, p)
      \/ UNCHANGED <<votes, total_votes, last_vote_weight>>
  BY DEF Next, vars, purse, tallies, Stake, RegProducer, UnregProd, RmvProducer, OnBlock, Tick
<1> QED
  BY <1>1, <1>2, <1>3, <1>4

LEMMA InitWeights == Init => LoyalWeights
<1> SUFFICES ASSUME Init PROVE LoyalWeights
  OBVIOUS
<1>1. \A v \in Voters, p \in Producers : <<v, p>> \in Pairs /\ ~HasVote(v, p) /\ WeightOf(v, p) = 0
  BY DEF Init, Pairs, HasVote, WeightOf
<1>2. \A v \in Voters : ChoiceOf(v) = {} /\ last_vote_weight[v] = 0
  BY <1>1 DEF ChoiceOf, Init
<1>3. ASSUME NEW p \in Producers PROVE total_votes[p] = Total(WeightsFor(p), Voters)
  <2> DEFINE f == WeightsFor(p)
  <2>1. \A v \in Voters : f[v] = 0
    BY <1>1 DEF WeightsFor
  <2> HIDE DEF f
  <2>2. Total(f, Voters) = 0
    BY <2>1, TotalZero
  <2> QED
    BY <2>2 DEF f, Init
<1> QED
  BY <1>2, <1>3 DEF LoyalWeights

(***************************************************************************)
(* The chain's weight is the sum of all voters' last votes, and as long as *)
(* nobody has voted for two producers voteproducer keeps the total_votes   *)
(* of each the sum of its votes' weights, whenever they were cast.         *)
(***************************************************************************)
THEOREM WeightsMatchVotes == Spec => []WeightsOfLastVotes
<1>1. Inv /\ LoyalWeights => WeightsOfLastVotes
  BY DEF Inv, TotalWeight, LoyalWeights, WeightsFor, WeightOf, WeightsOfLastVotes
<1>2. Spec => []LoyalWeights
  BY InitWeights, NextWeights, Invariant, PTL DEF Spec
<1> QED
  BY <1>1, <1>2, Invariant, PTL

-----------------------------------------------------------------------------
(***************************************************************************)
(* The index by by_votes is a strict order on the producers.  A producer's *)
(* rank is the number of rows before it.                                   *)
(***************************************************************************)
Rank(p) == Cardinality(Front(p))
Elected(p) == p \in active /\ total_votes[p] > 0

LEMMA ByVotesType ==
  ASSUME TypeOK
  PROVE  \A p \in Producers : p \in Nat /\ total_votes[p] \in Nat /\ ByVotes(p) \in Int
<1>1. \A p \in Producers : total_votes[p] \in Nat
  BY DEF TypeOK
<1>2. \A p \in Producers : -total_votes[p] \in Int /\ total_votes[p] \in Int
  BY <1>1
<1> QED
  BY <1>1, <1>2 DEF ByVotes

LEMMA BeforeIsOrder ==
  ASSUME TypeOK, NEW p \in Producers, NEW q \in Producers
  PROVE  /\ ~Before(p, p)
         /\ p = q \/ Before(p, q) \/ Before(q, p)
         /\ \A r \in Producers : Before(r, q) /\ Before(q, p) => Before(r, p)
<1>1. \A x \in Producers : x \in Nat /\ ByVotes(x) \in Int
  BY ByVotesType
<1>2. ~Before(p, p)
  BY <1>1 DEF Before
<1>3. p = q \/ Before(p, q) \/ Before(q, p)
  BY <1>1 DEF Before
<1>4. ASSUME NEW r \in Producers, Before(r, q), Before(q, p) PROVE Before(r, p)
  BY <1>1, <1>4 DEF Before
<1> QED
  BY <1>2, <1>3, <1>4

LEMMA Fronts ==
  ASSUME TypeOK, NEW p \in registered
  PROVE  /\ p \in Producers /\ p \notin Front(p) /\ Front(p) \subseteq registered
         /\ IsFiniteSet(Front(p)) /\ Rank(p) \in Nat
<1>1. registered \subseteq Producers
  BY DEF TypeOK
<1>2. p \notin Front(p)
  BY <1>1, BeforeIsOrder DEF Front
<1>3. Front(p) \subseteq registered
  BY DEF Front
<1>4. IsFiniteSet(Front(p))
  BY <1>1, <1>3, FS_Subset
<1>5. Rank(p) \in Nat
  BY <1>4, FS_CardinalityType DEF Rank
<1> QED
  BY <1>1, <1>2, <1>3, <1>4, <1>5

(***************************************************************************)
(* Who stands before another has all that stand before it before the other,*)
(* and itself: its rank is smaller.                                        *)
(***************************************************************************)
LEMMA RankGrows ==
  ASSUME TypeOK, NEW p \in registered, NEW q \in Front(p)
  PROVE  q \in registered /\ Front(q) \subseteq Front(p) /\ Rank(q) < Rank(p)
<1> DEFINE F == Front(q)
           G == Front(p)
<1>1. q \in registered /\ Before(q, p)
  BY DEF Front
<1>2. p \in Producers /\ q \in Producers
  BY <1>1 DEF TypeOK
<1>3. F \subseteq G
  <2> SUFFICES ASSUME NEW r \in F PROVE r \in G
    OBVIOUS
  <2>1. r \in registered /\ r \in Producers /\ Before(r, q)
    BY DEF Front, TypeOK
  <2>2. Before(r, p)
    BY <1>1, <1>2, <2>1, BeforeIsOrder
  <2> QED
    BY <2>1, <2>2 DEF Front
<1>4. q \notin F /\ q \in G
  BY <1>1, Fronts
<1>5. IsFiniteSet(F) /\ IsFiniteSet(G) /\ Cardinality(F) \in Nat /\ Cardinality(G) \in Nat
  BY <1>1, Fronts DEF Rank
<1> HIDE DEF F, G
<1>6. F # G
  BY <1>4
<1>7. Cardinality(F) < Cardinality(G)
  <2>1. Cardinality(F) <= Cardinality(G)
    BY <1>3, <1>5, FS_Subset
  <2>2. Cardinality(F) # Cardinality(G)
    BY <1>3, <1>5, <1>6, FS_Subset
  <2> QED
    BY <1>5, <2>1, <2>2
<1> QED
  BY <1>1, <1>3, <1>7 DEF Rank, F, G

(***************************************************************************)
(* Whoever stands before a producer that may be elected may be, too, with  *)
(* as many votes: inactive producers and those without votes are behind.   *)
(***************************************************************************)
LEMMA BeforeElected ==
  ASSUME TypeOK, NEW p \in Producers, NEW q \in Producers, Elected(p), Before(q, p)
  PROVE  Elected(q) /\ total_votes[q] >= total_votes[p]
<1> DEFINE x == total_votes[p]
           y == total_votes[q]
<1>1. x \in Nat /\ y \in Nat
  BY ByVotesType
<1>2. x > 0 /\ ByVotes(p) = -x
  BY DEF Elected, ByVotes
<1>3. ByVotes(q) \in Int /\ ByVotes(p) \in Int /\ ByVotes(q) <= ByVotes(p)
  BY ByVotesType DEF Before
<1>4. q \in active => ByVotes(q) = -y
  BY DEF ByVotes
<1>5. q \notin active => ByVotes(q) = y
  BY DEF ByVotes
<1> HIDE DEF x, y
<1>6. q \in active
  BY <1>1, <1>2, <1>3, <1>5
<1>7. y >= x /\ y > 0
  BY <1>1, <1>2, <1>3, <1>4, <1>6
<1> QED
  BY <1>6, <1>7 DEF Elected, x, y

(***************************************************************************)
(* The loop stops at the first row that is inactive or has no votes, so it *)
(* takes the producers that may be elected and have a small rank.          *)
(***************************************************************************)
LEMMA TopAre ==
  ASSUME TypeOK
  PROVE  \A p \in Producers : p \in TopProducers <=> p \in registered /\ Elected(p) /\ Rank(p) < TopSize
<1> SUFFICES ASSUME NEW p \in Producers
             PROVE  p \in TopProducers <=> p \in registered /\ Elected(p) /\ Rank(p) < TopSize
  OBVIOUS
<1>1. p \in TopProducers => p \in registered /\ Elected(p) /\ Rank(p) < TopSize
  BY DEF TopProducers, Elected, Rank
<1>2. ASSUME p \in registered, Elected(p), Rank(p) < TopSize PROVE p \in TopProducers
  <2>1. ASSUME NEW q \in Front(p) PROVE Elected(q)
    <3>1. q \in Producers /\ Before(q, p)
      BY DEF Front, TypeOK
    <3> QED
      BY <1>2, <3>1, BeforeElected
  <2> QED
    BY <1>2, <2>1 DEF TopProducers, Elected, Rank
<1> QED
  BY <1>1, <1>2

(***************************************************************************)
(* Some producer of a set that is not empty has the smallest rank, and     *)
(* none of the set stands before it.                                       *)
(***************************************************************************)
LEMMA FirstOf ==
  ASSUME TypeOK, NEW S, S \subseteq registered, S # {}
  PROVE  \E p \in S : \A q \in S : ~Before(q, p)
<1> DEFINE T == {Rank(p) : p \in S}
<1>1. T \subseteq Nat /\ T # {}
  BY Fronts
<1> HIDE DEF T
<1>2. PICK m \in T : \A n \in T : m <= n
  BY <1>1, LeastNatural
<1>3. PICK p \in S : m = Rank(p)
  BY DEF T
<1>4. ASSUME NEW q \in S, Before(q, p) PROVE FALSE
  <2>1. q \in Front(p) /\ p \in registered /\ q \in registered
    BY <1>4 DEF Front
  <2>2. Rank(q) < Rank(p) /\ Rank(p) \in Nat /\ Rank(q) \in Nat
    BY <2>1, RankGrows, Fronts
  <2>3. Rank(q) \in T
    BY DEF T
  <2> QED
    BY <1>2, <1>3, <2>2, <2>3
<1> QED
  BY <1>4

(***************************************************************************)
(* No more are proposed than there are seats: all others stand before the  *)
(* one that comes last among them.                                         *)
(***************************************************************************)
LEMMA LastOfTop ==
  ASSUME TypeOK, TopProducers # {}
  PROVE  \E p \in TopProducers : TopProducers \ {p} \subseteq Front(p)
<1> DEFINE T == {TopSize - Rank(p) : p \in TopProducers}
<1>1. TopProducers \subseteq registered /\ registered \subseteq Producers
  BY DEF TopProducers, TypeOK
<1>2. \A p \in TopProducers : Rank(p) \in Nat /\ Rank(p) < TopSize
  BY <1>1, Fronts DEF TopProducers, Rank
<1>3. T \subseteq Nat /\ T # {}
  BY <1>2
<1> HIDE DEF T
<1>4. PICK m \in T : \A n \in T : m <= n
  BY <1>3, LeastNatural
<1>5. PICK p \in TopProducers : m = TopSize - Rank(p)
  BY DEF T
<1>6. ASSUME NEW q \in TopProducers, q # p PROVE q \in Front(p)
  <2>1. p \in registered /\ q \in registered /\ p \in Producers /\ q \in Producers
    BY <1>1
  <2>2. ASSUME Before(p, q) PROVE FALSE
    <3>1. p \in Front(q)
      BY <2>1, <2>2 DEF Front
    <3>2. Rank(p) < Rank(q)
      BY <2>1, <3>1, RankGrows
    <3>3. TopSize - Rank(q) \in T
      BY DEF T
    <3>4. Rank(p) \in Nat /\ Rank(q) \in Nat /\ TopSize - Rank(p) <= TopSize - Rank(q)
      BY <1>2, <1>4, <1>5, <3>3
    <3> QED
      BY <3>2, <3>4
  <2> QED
    BY <1>6, <2>1, <2>2, BeforeIsOrder DEF Front
<1> QED
  BY <1>6

LEMMA SeatsBound ==
  ASSUME TypeOK
  PROVE  IsFiniteSet(TopProducers) /\ Cardinality(TopProducers) <= TopSize
<1>1. TopProducers \subseteq registered /\ registered \subseteq Producers
  BY DEF TopProducers, TypeOK
<1>2. IsFiniteSet(TopProducers)
  BY <1>1, FS_Subset
<1>3. CASE TopProducers = {}
  BY <1>2, <1>3, FS_EmptySet
<1>4. CASE TopProducers # {}
  <2> DEFINE S == TopProducers
  <2>1. PICK p \in S : S \ {p} \subseteq Front(p)
    BY <1>4, LastOfTop
  <2>2. p \in registered /\ Rank(p) < TopSize
    BY <1>1 DEF TopProducers, Rank
  <2>3. IsFiniteSet(Front(p)) /\ Cardinality(Front(p)) < TopSize /\ Cardinality(Front(p)) \in Nat
    BY <2>2, Fronts DEF Rank
  <2> HIDE DEF S
  <2>4. IsFiniteSet(S \ {p}) /\ Cardinality(S \ {p}) <= Cardinality(Front(p))
    BY <2>1, <2>3, FS_Subset
  <2>5. IsFiniteSet(S)
    BY <1>2 DEF S
  <2>6. Cardinality(S \ {p}) = Cardinality(S) - 1 /\ Cardinality(S) \in Nat
    BY <2>1, <2>5, FS_RemoveElement, FS_CardinalityType
  <2>7. Cardinality(S) <= TopSize
    BY <2>3, <2>4, <2>6
  <2> QED
    BY <1>2, <2>7 DEF S
<1> QED
  BY <1>3, <1>4

LEMMA BestFollows == TypeOK => BestAreProposed
<1> SUFFICES ASSUME TypeOK PROVE BestAreProposed
  OBVIOUS
<1> DEFINE top == TopProducers
           rest == {q \in active : total_votes[q] > 0} \ top
<1>1. registered \subseteq Producers /\ active \subseteq registered
  BY DEF TypeOK
<1>2. \A p \in top : p \in registered /\ p \in Producers /\ Elected(p) /\ Rank(p) < TopSize
  BY <1>1, TopAre DEF TopProducers
<1>3. \A q \in rest : q \in registered /\ q \in Producers /\ Elected(q) /\ q \notin top
  BY <1>1 DEF Elected
<1>4. \A q \in rest : ~(Rank(q) < TopSize)
  BY <1>3, TopAre
<1>5. \A q \in Producers : q \in registered /\ Elected(q) /\ q \notin top => q \in rest
  BY DEF Elected
<1>6. ASSUME NEW p \in top, NEW q \in rest PROVE total_votes[q] <= total_votes[p]
  <2>1. p \in registered /\ p \in Producers /\ Rank(p) < TopSize /\ q \in registered /\ q \in Producers /\ Elected(q)
    BY <1>2, <1>3
  <2>2. ~Before(q, p)
    <3> SUFFICES ASSUME Before(q, p) PROVE FALSE
      OBVIOUS
    <3>1. q \in Front(p)
      BY <2>1 DEF Front
    <3>2. Rank(q) < Rank(p) /\ Rank(q) \in Nat /\ Rank(p) \in Nat
      BY <2>1, <3>1, RankGrows, Fronts
    <3>3. Rank(q) < TopSize
      BY <2>1, <3>2
    <3> QED
      BY <1>4, <3>3
  <2>3. p # q
    BY <1>3
  <2>4. Before(p, q)
    BY <2>1, <2>2, <2>3, BeforeIsOrder
  <2>5. total_votes[p] >= total_votes[q]
    BY <2>1, <2>4, BeforeElected
  <2>6. total_votes[p] \in Nat /\ total_votes[q] \in Nat
    BY <2>1, ByVotesType
  <2> QED
    BY <2>5, <2>6
<1>7. ASSUME rest # {} PROVE Cardinality(top) = TopSize
  <2>1. rest \subseteq registered
    BY <1>3
  <2>2. PICK q \in rest : \A r \in rest : ~Before(r, q)
    <3> HIDE DEF rest
    <3> QED
      BY <1>7, <2>1, FirstOf
  <2>3. q \in registered /\ q \in Producers /\ Elected(q) /\ ~(Rank(q) < TopSize)
    BY <1>3, <1>4
  <2>4. Front(q) \subseteq top
    <3> SUFFICES ASSUME NEW r \in Front(q), r \notin top PROVE FALSE
      OBVIOUS
    <3>1. r \in registered /\ r \in Producers /\ Before(r, q)
      BY <1>1 DEF Front
    <3>2. Elected(r)
      BY <2>3, <3>1, BeforeElected
    <3>3. r \in rest
      BY <1>5, <3>1, <3>2
    <3> QED
      BY <2>2, <3>1, <3>3
  <2>5. IsFiniteSet(top) /\ Cardinality(top) <= TopSize
    BY SeatsBound
  <2>6. Cardinality(Front(q)) <= Cardinality(top) /\ Cardinality(top) \in Nat
    BY <2>4, <2>5, FS_Subset, FS_CardinalityType
  <2>7. Rank(q) \in Nat
    BY <2>3, Fronts
  <2> HIDE DEF top
  <2> QED
    BY <2>3, <2>5, <2>6, <2>7 DEF Rank
<1>8. top \subseteq active
  BY <1>2 DEF Elected
<1>9. Cardinality(top) <= TopSize
  BY SeatsBound
<1> QED
  BY <1>6, <1>7, <1>8, <1>9 DEF BestAreProposed

(***************************************************************************)
(* What update_elected_producers proposes are the active producers with the*)
(* most votes, as many as there are seats for, in every reachable state.   *)
(***************************************************************************)
THEOREM BestAreElected == Spec => []BestAreProposed
BY TypeCorrect, BestFollows, PTL
=============================================================================
