SPECIFICATION FairCustodySpec
CONSTANTS
  alice = alice
  bob = bob
  carol = carol
  dave = dave
  base = base
  quote = quote
  mkt = mkt
  mkt2 = mkt2
  other = other
  Accounts = {alice, bob, carol}
  Tokens = {base, quote}
  Markets = {mkt}
  FeeToBpsDivisor = 8
  U64Max = 1000
  AccountBytes = 134
  BalanceBytes = 87
  MarketBytes = 196
  OrderBytes = 117
  MarketParams <- CustodyParams
  InitialAccounts <- SmallAccounts
  Traders = {alice, bob}
  Referrers = {}
  Prices = {4}
  Quantities = {4}
  MaxSpends = {}
  TypesTried = {"Limit"}
  BidWindows = {1000}
  AskWindows = {300000}
  WindowBps = 10000
  ContractStatesTried = {"Active", "Paused"}
  MarketStatesTried = {"Active"}
  MaxSequence = 2
  Near = base
  Users = {alice}
  InitialOwner = carol
  OwnersTried = {bob}
  InitialWallets <- TraderWallets
  Amounts = {4}
  Messages <- DepositsOnly
  StorageAmounts = {1000}
  RegistrationOnly = {FALSE}
  StorageWithdrawals = {}
  MaxReceipts = 2
INVARIANTS CustodyTypeOK NothingStranded BooksMatchAccounts
PROPERTIES KeepsPromises ReceiptsSettle
