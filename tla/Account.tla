------------------------------ MODULE Account ------------------------------
(***************************************************************************)
(* An exchange account (account/v1.rs) and the operations on it.           *)
(*   balances   partial map from tokens to available amounts.  The entry   *)
(*              of a token exists from the first deposit, of 0 too, until  *)
(*              a withdrawal takes exactly what it holds.                  *)
(*   open       the ids of the account's resting orders, by market.  The   *)
(*              code drops a market's entry with its last order, so an     *)
(*              empty set here is an absent entry there.  The size and     *)
(*              time stamp stored beside each id are only displayed.       *)
(*   storage    NEAR held for storage, in bytes it pays for.               *)
(***************************************************************************)
EXTENDS Integers, FiniteSets

CONSTANTS
  Tokens,        \* token types
  Markets,       \* market ids
  AccountBytes,  \* size::ACCOUNT
  BalanceBytes,  \* one entry of the balances map
  MarketBytes,   \* HASH_SET_OVERHEAD + MARKET_ID + MARKET_PAIR_OVERHEAD
  OrderBytes     \* ORDER_ID + LOT_BALANCE + OPEN_LIMIT_ORDER

ASSUME SizeAssumption ==
  {AccountBytes, BalanceBytes, MarketBytes, OrderBytes} \subseteq Nat

(* An entry for a token named by an account id (of at most 64 bytes) is    *)
(* smaller than an order with its price level, and ids fit in a call.      *)
ASSUME EntriesAssumption == BalanceBytes <= OrderBytes /\ IsFiniteSet(Tokens)

(* f maps some elements of D to elements of R.                             *)
IsPartialFunction(f, D, R) == DOMAIN f \subseteq D /\ f \in [DOMAIN f -> R]

IsAccount(acc) ==
  /\ acc \in [balances : {acc.balances}, open : [Markets -> SUBSET Nat], storage : Nat]
  /\ IsPartialFunction(acc.balances, Tokens, Nat)

Balance(acc, token) ==
  IF token \in DOMAIN acc.balances THEN acc.balances[token] ELSE 0

(* Variant: insert without adding what was there.                          *)
Deposit_Overwrites(acc, token, amount) ==
  [acc EXCEPT !.balances =
     [t \in DOMAIN acc.balances \cup {token} |->
        IF t = token THEN amount ELSE acc.balances[t]]]

Deposit(acc, token, amount) ==
  [acc EXCEPT !.balances =
     [t \in DOMAIN acc.balances \cup {token} |->
        IF t = token THEN Balance(acc, t) + amount ELSE acc.balances[t]]]

(* Variant: the amount is not compared with the balance.                   *)
CanWithdraw_Unchecked(acc, token, amount) == token \in DOMAIN acc.balances

(* Withdrawing from an absent entry panics, even for amount 0.             *)
CanWithdraw(acc, token, amount) ==
  /\ token \in DOMAIN acc.balances
  /\ amount <= acc.balances[token]

Withdraw(acc, token, amount) ==
  LET left == DOMAIN acc.balances \
                (IF acc.balances[token] = amount THEN {token} ELSE {})
  IN  [acc EXCEPT !.balances =
         [t \in left |-> IF t = token THEN acc.balances[t] - amount
                                      ELSE acc.balances[t]]]

(* Variant: the limit is off by one.                                       *)
CanSaveNewOrder_OffByOne(acc, market, max_orders) ==
  acc.open[market] # {} => Cardinality(acc.open[market]) <= max_orders

(* The limit is only looked at when the market already has an entry.       *)
CanSaveNewOrder(acc, market, max_orders) ==
  acc.open[market] # {} => Cardinality(acc.open[market]) < max_orders

SaveNewOrderInfo(acc, market, id) ==
  [acc EXCEPT !.open[market] = @ \cup {id}]

RemoveOrderInfos(acc, market, ids) ==
  [acc EXCEPT !.open[market] = @ \ ids]

MarketsWithOrders(acc) == {m \in Markets : acc.open[m] # {}}

OpenOrders(acc) == UNION {{m} \X acc.open[m] : m \in Markets}

BorshSize(acc) ==
  AccountBytes + BalanceBytes * Cardinality(DOMAIN acc.balances)
               + MarketBytes * Cardinality(MarketsWithOrders(acc))
               + OrderBytes * Cardinality(OpenOrders(acc))

IsStorageCovered(acc) == BorshSize(acc) <= acc.storage

(* Variant: resting orders are forgotten.                                  *)
IsEmpty_IgnoresOrders(acc) == DOMAIN acc.balances = {}

IsEmpty(acc) == DOMAIN acc.balances = {} /\ MarketsWithOrders(acc) = {}
=============================================================================
