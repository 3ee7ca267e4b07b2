\* Two producers, paid by their blocks and by the vote of one voter.
CONSTANTS
  Voters = {v1}
  Producers = {1, 2}
  VoteNums = {1}
  Tokens <- OneEach
  MaxTime = 2
  MaxTotal = 2
  Growth <- Steady
  TickTime = 1
  Basis = 1
  ClaimPeriod = 1
  TopSize = 0
  MinActivated = 1
  NoVoter = NoVoter
  NoVote = NoVote
  Never = Never
  Rates = {50}
  FirstSupply = 100
  MaxSupply = 121
  Year = 10
  MinVotePay = 1
  Lapse = 2
  ProdPeriod = 1
  AdjustPeriod = 1
  MaxUnpaid = 2
SPECIFICATION PaySpec
CHECK_DEADLOCK FALSE
INVARIANT UnpaidAddUp
INVARIANT RewardsAreBacked
