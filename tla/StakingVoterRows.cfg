\* A voter row that staking did not create.
CONSTANTS
  alice = alice
  bob = bob
  Accounts = {alice, bob}
  Resad = alice
  Dropped = {bob}
  Manageable = {alice, bob}
  Genesis = {}
  Traders = {}
  Endowment <- OneEach
  Amounts = {0, 1}
  LimitValues <- Unlimited
  DropLimits = {}
  MinActivated = 1
  RefundDelay = 1
  MayDrop = FALSE
  NoRefund = NoRefund
  NoTrx = NoTrx
SPECIFICATION Spec
INVARIANT VoterRowsComeFromStaking
