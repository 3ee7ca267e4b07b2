\* One proposal name; a level may be requested twice.
CONSTANTS
  alice = alice
  bob = bob
  aliceActive = aliceActive
  bobActive = bobActive
  both = both
  single = single
  Levels = {aliceActive, bobActive}
  Accounts = {alice, bob}
  ActorOf <- LevelActors
  Proposers = {alice}
  ProposalNames = {pay}
  Trxs = {both, single}
  Expiration <- TrxExpirations
  Quorums <- TrxQuorums
  BlocksPerSecond = 2
  MaxSeats = 2
  MaxTime = 2
  NoProposal = NoProposal
  NoApprovals = NoApprovals
  NoHash = NoHash
  Never = Never
SPECIFICATION Spec
INVARIANT TypeOK
INVARIANT OneApprovalsRow
INVARIANT HashBinds
PROPERTY SeatsAreKept
PROPERTY IsConsent
