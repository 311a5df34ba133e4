SPECIFICATION SwapsSpec
CONSTANTS
  alice = alice
  bob = bob
  carol = carol
  dave = dave
  base = base
  quote = quote
  mkt = mkt
  mkt2 = mkt2
  other = other
  Accounts = {alice, bob, carol}
  Tokens = {base, quote, other}
  Markets = {mkt, mkt2}
  FeeToBpsDivisor = 8
  U64Max = 1000
  AccountBytes = 3
  BalanceBytes = 2
  MarketBytes = 4
  OrderBytes = 3
  MarketParams <- SwapParams
  InitialAccounts <- MakerAccounts
  Traders = {bob}
  Referrers = {}
  Prices = {4}
  Quantities = {4}
  MaxSpends = {}
  TypesTried = {"Limit"}
  BidWindows = {1000}
  AskWindows = {300000}
  WindowBps = 10000
  ContractStatesTried = {"Active"}
  MarketStatesTried = {"Active"}
  MaxSequence = 4
  Near = base
  Users = {alice}
  InitialOwner = carol
  OwnersTried = {}
  InitialWallets <- SwapWallets
  Amounts = {8}
  StorageAmounts = {}
  RegistrationOnly = {FALSE}
  StorageWithdrawals = {}
  MaxReceipts = 1
  Messages <- QuoteSwaps
  NearSwaps <- BaseSwaps
INVARIANTS NothingStranded
