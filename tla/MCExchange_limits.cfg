SPECIFICATION Spec
CONSTANTS
  alice = alice
  bob = bob
  carol = carol
  dave = dave
  base = base
  quote = quote
  mkt = mkt
  mkt2 = mkt2
  other = other
  Accounts = {alice, bob, carol}
  Tokens = {base, quote}
  Markets = {mkt}
  FeeToBpsDivisor = 8
  U64Max = 1000
  AccountBytes = 134
  BalanceBytes = 87
  MarketBytes = 196
  OrderBytes = 117
  MarketParams <- RoundingParams
  InitialAccounts <- OneTokenAccounts
  Traders = {alice, bob}
  Referrers = {alice, carol}
  Prices = {3, 4, 6}
  Quantities = {1, 3}
  MaxSpends = {5}
  TypesTried = {"Limit"}
  BidWindows = {1000}
  AskWindows = {300000}
  WindowBps = 10000
  ContractStatesTried = {"Active"}
  MarketStatesTried = {"Active"}
  MaxSequence = 4
INVARIANTS Solvent BidNeverOverspends AccountsCovered AlwaysCancellable
