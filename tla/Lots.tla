------------------------------- MODULE Lots -------------------------------
(***************************************************************************)
(* Conversions between native token amounts and the lots the orderbook     *)
(* works in, and the quote value of base quantities (market/v1.rs and the  *)
(* get_* helpers of limit_order.rs and market/mod.rs).                     *)
(*                                                                         *)
(* p is the record of a market's fixed parameters:                         *)
(*   base, quote              its two tokens                               *)
(*   base_lot, quote_lot      lot sizes, in native units                   *)
(*   base_denomination        10^decimals of the base token                *)
(*   taker_rate, maker_rate   fee and rebate rates                         *)
(*   max_orders               max_orders_per_account                       *)
(* A price in lots counts quote lots per whole base token.                 *)
(***************************************************************************)
EXTENDS Fees

CONSTANT U64Max   \* largest LotBalance; `as u64` drops the higher bits

ASSUME U64Assumption == U64Max \in Nat

AsU64(x) == x % (U64Max + 1)

QuoteLotsToNative(p, lots) == lots * p.quote_lot

QuoteNativeToLots(p, amount) == AsU64(amount \div p.quote_lot)

BaseLotsToNative(p, lots) == lots * p.base_lot

BaseNativeToLots(p, amount) == AsU64(amount \div p.base_lot)

(* Quote paid for a native base quantity at a native price.                *)
QuoteValue(p, quantity, price) == (quantity * price) \div p.base_denomination

(* native_quote_paid of a fill, and the amount a resting bid stands for:   *)
(* both use the price the book holds, in lots.                             *)
QuoteValueOfLots(p, qty_lots, price_lots) ==
  QuoteValue(p, BaseLotsToNative(p, qty_lots), QuoteLotsToNative(p, price_lots))

(* max_spend is {} when the caller gave none, {x} otherwise.               *)
GetMaxBidDebit(p, price, quantity, max_spend) ==
  IF max_spend = {} THEN QuoteValue(p, quantity, price)
                    ELSE CHOOSE x \in max_spend : TRUE

(* Lots of base that quote_lots can pay for at a native limit price.       *)
AffordableLots(p, quote_lots, price) ==
  ((QuoteLotsToNative(p, quote_lots) * p.base_denomination) \div price) \div p.base_lot

RefundToken(p, order) == IF order.side = "Buy" THEN p.quote ELSE p.base

GetRefundAmount(p, order) ==
  IF order.side = "Buy" THEN QuoteValueOfLots(p, order.qty, order.price)
                        ELSE BaseLotsToNative(p, order.qty)
=============================================================================
