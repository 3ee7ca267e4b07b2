\* Two currencies, asked for in two precisions, two accounts and a name that is none.
CONSTANTS
  Names = {tok, alice, ghost}
  Accounts = {tok, alice}
  Self = tok
  Codes = {FSC, SYS}
  Precisions = {2, 4}
  MaxAmount = 2
  NoStat = NoStat
  NoRow = NoRow
SPECIFICATION Spec
INVARIANT TypeOK
INVARIANT SupplyIsSumOfBalances
INVARIANT RowsMatchCurrency
PROPERTY IsALedger
