\* Two voters of one producer, which changes its commission rate.
CONSTANTS
  Voters = {v1, v2}
  Producers = {1}
  VoteNums = {1}
  Tokens <- OneEach
  MaxTime = 3
  MaxTotal = 2
  Growth <- Steady
  TickTime = 1
  Basis = 1
  ClaimPeriod = 1
  TopSize = 0
  MinActivated = 2
  NoVoter = NoVoter
  NoVote = NoVote
  Never = Never
  Rates = {95, 100}
  FirstSupply = 100
  MaxSupply = 120
  Year = 10
  MinVotePay = 1
  Lapse = 3
  ProdPeriod = 1
  AdjustPeriod = 1
  MaxUnpaid = 2
SPECIFICATION PaySpec
CHECK_DEADLOCK FALSE
INVARIANT PayTypeOK
PROPERTY ClaimsAreFair
SYMMETRY Symmetric
