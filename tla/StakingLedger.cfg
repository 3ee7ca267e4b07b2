\* alice, a genesis account, is fscio.resad and has the tokens; bob has an airdrop row, may be
\* managed and holds RAM now and then.  What alice drops with transfer is bob's to unstake and
\* to stake again, for himself or for alice, and owners claim what is due.
CONSTANTS
  alice = alice
  bob = bob
  Accounts = {alice, bob}
  Resad = alice
  Dropped = {bob}
  Manageable = {bob}
  Genesis = {alice}
  Traders = {bob}
  Endowment <- AllAlices
  Amounts = {0, 1, 2}
  LimitValues <- Unlimited
  DropLimits <- TwoNetOneCpu
  MinActivated = 1
  RefundDelay = 1
  MayDrop = TRUE
  NoRefund = NoRefund
  NoTrx = NoTrx
SPECIFICATION FairSpec
INVARIANT TypeOK
INVARIANT ReceiverTotals
INVARIANT StakeBacksVotes
INVARIANT LimitsFollowStake
INVARIANT AirdropIsRecorded
PROPERTY NoEarlyRefund
PROPERTY IsCustody
PROPERTY RefundIsPaid
