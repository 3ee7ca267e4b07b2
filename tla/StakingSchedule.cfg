\* A pending refund whose deferred transaction is gone.
CONSTANTS
  alice = alice
  bob = bob
  Accounts = {alice, bob}
  Resad = resad
  Dropped = {}
  Manageable = {}
  Genesis = {}
  Traders = {}
  Endowment <- TwoAndOne
  Amounts = {0, 1}
  LimitValues <- Unlimited
  DropLimits = {}
  MinActivated = 1
  RefundDelay = 2
  MayDrop = FALSE
  NoRefund = NoRefund
  NoTrx = NoTrx
SPECIFICATION Spec
INVARIANT PendingRefundIsScheduled
