----------------------------- MODULE MCExchange -----------------------------
(***************************************************************************)
(* Instances of Exchange for TLC.                                          *)
(***************************************************************************)
EXTENDS Exchange, TLC

CONSTANTS alice, bob, carol, dave, base, quote, other, mkt, mkt2

Registered(balances, storage) ==
  [balances |-> balances, open |-> [m \in Markets |-> {}], storage |-> storage]

(* Fees of 1 and 2 and rebates of 0 and 1 occur on amounts of 4 to 16.     *)
Pair(b, q) ==
  [base |-> b, quote |-> q, base_lot |-> 1, quote_lot |-> 4, base_denomination |-> 1,
   taker_rate |-> 2, maker_rate |-> 1, max_orders |-> 2]

TradingParams == [m \in Markets |-> Pair(base, quote)]

(* Lot sizes need not be powers of ten (assert_valid_lot_sizes only asks   *)
(* for multiples), so 3 * 1 lots need not be a multiple of the base        *)
(* denomination of 2: fills, locks and refunds all round.                  *)
RoundingParams ==
  [m \in Markets |-> [Pair(base, quote) EXCEPT !.quote_lot = 3, !.base_denomination = 2]]

-----------------------------------------------------------------------------
(* Two traders with all they need and a referrer with an empty account.    *)
Rich == Registered((base :> 4) @@ (quote :> 40), 1000)

RichAccounts == (alice :> Rich) @@ (bob :> Rich) @@ (carol :> Registered(<<>>, 1000))

(* Storage for balances of n tokens and k orders in j markets.             *)
Bytes(n, j, k) == AccountBytes + n * BalanceBytes + j * MarketBytes + k * OrderBytes

(* Whoever could be charged has tokens to lose: the traders and carol, who *)
(* refers them.  dave refers too, but his storage holds no token.          *)
TradingAccounts ==
  (alice :> Rich) @@ (bob :> Rich) @@ (carol :> Rich)
  @@ (dave :> Registered(<<>>, Bytes(0, 0, 0)))

(* alice can pay for two orders only if they lock all of her one token;    *)
(* bob can also pay for the token he is paid with.                         *)
OneTokenAccounts ==
  (alice :> Registered(quote :> 12, Bytes(1, 1, 2)))
  @@ (bob :> Registered(base :> 6, Bytes(2, 1, 2)))
  @@ (carol :> Registered(<<>>, Bytes(0, 0, 0)))

(* alice has deposited the price of one bid and keeps exactly the storage  *)
(* her account needs while that bid rests.                                 *)
ExactAccounts ==
  (alice :> Registered(quote :> 8, Bytes(1, 1, 1)))
  @@ (bob :> Rich)

TraderSymmetry == Permutations({alice, bob})
=============================================================================
