\* Two voters, two producers; what the comments of the code say of total_votes.
CONSTANTS
  Voters = {v1, v2}
  Producers = {1, 2}
  VoteNums = {0, 1}
  Tokens <- OneEach
  MaxTime = 1
  MaxTotal = 2
  Growth <- LateDouble
  TickTime = 3
  Basis = 2
  ClaimPeriod = 1
  TopSize = 1
  MinActivated = 2
  NoVoter = NoVoter
  NoVote = NoVote
  Never = Never
SPECIFICATION Spec
INVARIANT TotalsAreOfOwnVotes
