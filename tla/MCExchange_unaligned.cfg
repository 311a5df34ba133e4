SPECIFICATION Spec
CONSTANTS
  alice = alice
  bob = bob
  carol = carol
  dave = dave
  base = base
  quote = quote
  mkt = mkt
  mkt2 = mkt2
  other = other
  Accounts = {alice, bob, carol}
  Tokens = {base, quote}
  Markets = {mkt}
  FeeToBpsDivisor = 8
  U64Max = 1000
  AccountBytes = 134
  BalanceBytes = 87
  MarketBytes = 196
  OrderBytes = 117
  MarketParams <- TradingParams
  InitialAccounts <- RichAccounts
  Traders = {alice, bob}
  Referrers = {carol}
  Prices = {4, 7}
  Quantities = {1, 2}
  MaxSpends = {9}
  TypesTried = {"Limit"}
  BidWindows = {1000}
  AskWindows = {300000}
  WindowBps = 10000
  ContractStatesTried = {"Active"}
  MarketStatesTried = {"Active"}
  MaxSequence = 3
SYMMETRY TraderSymmetry
INVARIANTS Conserved
