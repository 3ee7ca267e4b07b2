CONSTANTS
  resad = resad
  new = new
  Accounts <- Parties
  Genesis = {resad}
  Dropper = resad
  Purse <- Spending
  Supply = 60
  FirstRam = 16
  FirstQuote = 40
  RamCap = 30
  Kilo = 2
  Gift = 1
  Kilobytes = {1, 2}
  Sizes = {29}
  Rates = {18}
  Limits = {3}
  Word = 32
  MaxTime = 2
  NoRow = NoRow
  NoDrop = NoDrop
SPECIFICATION Spec
CHECK_DEADLOCK FALSE
INVARIANTS TypeOK MarketAddsUp SellersGetPaid LimitIsQuota BuysLess
PROPERTY MarketNeverLoses
