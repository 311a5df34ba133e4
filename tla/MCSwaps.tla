------------------------------ MODULE MCSwaps ------------------------------
(***************************************************************************)
(* Instances of Swaps for TLC.  NEAR is the base of mkt and the quote of   *)
(* mkt2.  A lot is a quarter of a token, so it costs 1 at a price of 4.    *)
(***************************************************************************)
EXTENDS Swaps, MCCustody

QuarterToken(b, q) ==
  [Pair(b, q) EXCEPT !.base_lot = 4, !.quote_lot = 1, !.base_denomination = 16]

SwapParams == [m \in Markets |-> IF m = mkt THEN QuarterToken(base, quote) ELSE QuarterToken(other, base)]

(* bob makes both markets, with storage for little more than his orders;   *)
(* alice trades with what she has in her wallet; carol refers.             *)
MakerAccounts ==
  (bob :> Registered((base :> 16) @@ (other :> 8), Bytes(2, 2, 2)))
  @@ (carol :> Registered(<<>>, Bytes(1, 0, 0)))

SwapWallets ==
  [a \in Accounts |-> [t \in Tokens |-> IF a # alice THEN 0 ELSE IF t = quote THEN 8 ELSE IF t = Near THEN 7 ELSE 0]]

Swap(m, side, least, referrer) ==
  [market |-> m, side |-> side, min_out |-> least, referrer |-> referrer]

(* quote to NEAR; and on to the other token, if it yields any of it.       *)
QuoteSwaps ==
  {<<Swap(mkt, "Buy", {0}, {carol})>>,
   <<Swap(mkt, "Buy", {}, {}), Swap(mkt2, "Buy", {4}, {})>>}

BaseSwaps == {<<Swap(mkt, "Sell", {1}, {})>>}
=============================================================================
