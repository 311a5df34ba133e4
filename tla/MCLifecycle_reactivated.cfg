SPECIFICATION LifecycleSpec
CONSTANTS
  alice = alice
  bob = bob
  carol = carol
  dave = dave
  base = base
  quote = quote
  mkt = mkt
  mkt2 = mkt2
  other = other
  Accounts = {alice, bob, carol}
  Tokens = {base, quote, other}
  Markets = {mkt}
  FeeToBpsDivisor = 8
  U64Max = 1000
  AccountBytes = 134
  BalanceBytes = 87
  MarketBytes = 196
  OrderBytes = 117
  MarketParams <- LifecycleParams
  InitialAccounts <- RichAccounts
  Traders = {alice, bob}
  Referrers = {}
  Prices = {4, 8}
  Quantities = {1, 2}
  MaxSpends = {}
  TypesTried = {"Limit"}
  BidWindows = {1000}
  AskWindows = {300000}
  WindowBps = 10000
  ContractStatesTried = {"Active"}
  MarketStatesTried = {"Paused"}
  MaxSequence = 2
  Near = other
  MultiTokens = {quote}
  Readable = {base, quote}
  DefaultBidWindow = 1000
  DefaultAskWindow = 300000
  MaxCallbacks = 2
PROPERTIES PauseHolds
