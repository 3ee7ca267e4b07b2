\* Two names, on one of which both bidders can be outbid and one of them twice. A tick is longer than a day.
CONSTANTS
  alice = alice
  bob = bob
  Bidders = {alice, bob}
  Self = fscio
  Newnames = {1, 2}
  Endowment <- FourEach
  Amounts <- UpToFour
  Day = 0
  Launch = 1
  NoBid = NoBid
  Never = Never
SPECIFICATION FairSpec
INVARIANT TypeOK
PROPERTY WorthIsKept
PROPERTY IsCustody
PROPERTY RefundIsScheduled
PROPERTY OutbidArePaid
PROPERTY AuctionsClose
