----------------------------- MODULE Exchange -----------------------------
(***************************************************************************)
(* The trading core of the contract: registered accounts, the markets with *)
(* their books, placing and cancelling orders, and the owner's switches.   *)
(* Every public method is one atomic step, as a NEAR receipt is: a panic   *)
(* undoes the whole call, so a call that panics is a step that is not      *)
(* taken, and every panic of the source is a conjunct of a guard.          *)
(* Moving tokens in and out of the contract is not part of this module:    *)
(* accounts start with what they have deposited.                           *)
(***************************************************************************)
EXTENDS Account, Orderbook

CONSTANTS
  MarketParams,     \* [Markets -> parameters], see Lots
  InitialAccounts,  \* the registered accounts and their deposits
  Traders,          \* accounts that send orders
  Referrers,        \* accounts orders may name as referrer
  Prices,           \* native limit prices tried
  Quantities,       \* native quantities tried
  MaxSpends,        \* native max_spend values tried, besides none
  TypesTried,       \* limit order types tried
  BidWindows,       \* minimum_bid_bps values the owner may have set
  AskWindows,       \* maximum_ask_bps values the owner may have set
  ContractStatesTried, MarketStatesTried,  \* states the owner switches to
  WindowBps,        \* the 10_000 of the trading window checks
  MaxSequence       \* bound on the number of orders ever placed

ASSUME ParamsAssumption ==
  MarketParams \in
    [Markets -> [base : Tokens, quote : Tokens,
                 base_lot : Nat \ {0}, quote_lot : Nat \ {0},
                 base_denomination : Nat \ {0},
                 taker_rate : 0 .. FeeToBpsDivisor, maker_rate : 0 .. FeeToBpsDivisor,
                 max_orders : Nat \ {0}]]

(* Account names have at most 64 characters, market ids 32 bytes.          *)
ASSUME FinitenessAssumption == IsFiniteSet(Accounts) /\ IsFiniteSet(Markets)

(* create_market insists on these two.                                     *)
ASSUME CreationAssumption ==
  \A m \in Markets : LET p == MarketParams[m] IN
    /\ p.base # p.quote
    /\ \/ p.maker_rate < p.taker_rate
       \/ p.maker_rate = 0 /\ p.taker_rate = 0

ASSUME InitialAccountsAssumption ==
  /\ DOMAIN InitialAccounts \subseteq Accounts
  /\ InitialAccounts = [a \in DOMAIN InitialAccounts |-> InitialAccounts[a]]
  /\ \A a \in DOMAIN InitialAccounts :
       /\ IsAccount(InitialAccounts[a])
       /\ \A m \in Markets : InitialAccounts[a].open[m] = {}
       /\ IsStorageCovered(InitialAccounts[a])

ASSUME InputAssumption ==
  /\ Traders \subseteq Accounts /\ Referrers \subseteq Accounts
  /\ Prices \subseteq Nat \ {0} /\ Quantities \subseteq Nat \ {0}
  /\ MaxSpends \subseteq Nat \ {0} /\ TypesTried \subseteq LimitOrderTypes
  /\ ContractStatesTried \subseteq {"Active", "Paused", "CancelOnly"}
  /\ MarketStatesTried \subseteq {"Uninitialized", "Active", "Paused", "CancelOnly"}
  /\ BidWindows \subseteq Nat /\ AskWindows \subseteq Nat /\ WindowBps \in Nat
  /\ MaxSequence \in Nat

VARIABLES
  contract_state,             \* Contract.state
  accounts,                   \* Contract.accounts: partial map of registered accounts
  markets,                    \* Contract.markets
  prev_order_sequence_number  \* Contract.prev_order_sequence_number

vars == <<contract_state, accounts, markets, prev_order_sequence_number>>

ContractStates == {"Active", "Paused", "CancelOnly"}

MarketStates == {"Uninitialized", "Active", "Paused", "CancelOnly"}

IsMarket(market, last) ==
  /\ market \in [state : MarketStates, book : {market.book}, fees_accrued : Nat,
                 minimum_bid_bps : BidWindows, maximum_ask_bps : AskWindows]
  /\ IsPartialFunction(market.book, 1 .. last, RestingOrder)

(* Accounts hold natural amounts of known tokens and list order numbers;   *)
(* fees never go below zero; books hold well formed orders of at least a   *)
(* lot, numbered among the orders placed so far.                           *)
TypeOK ==
  /\ contract_state \in ContractStates
  /\ DOMAIN accounts \subseteq Accounts
  /\ accounts = [a \in DOMAIN accounts |-> accounts[a]]
  /\ \A a \in DOMAIN accounts : IsAccount(accounts[a])
  /\ markets = [m \in Markets |-> markets[m]]
  /\ \A m \in Markets : IsMarket(markets[m], prev_order_sequence_number)
  /\ prev_order_sequence_number \in Nat

EmptyBook == [i \in {} |-> {}]

(* The state of a running exchange before its first order.                 *)
Init ==
  /\ contract_state = "Active"
  /\ accounts = InitialAccounts
  /\ markets \in [Markets -> [state : {"Active"}, book : {EmptyBook}, fees_accrued : {0},
                              minimum_bid_bps : BidWindows, maximum_ask_bps : AskWindows]]
  /\ prev_order_sequence_number = 0
-----------------------------------------------------------------------------

(* Variant: the new number is returned but not stored.                     *)
NextSequence_NotStored == prev_order_sequence_number

(* Variant: numbers of orders that are gone are given out again.           *)
NextSequence_Reused ==
  Cardinality(UNION {{m} \X DOMAIN markets[m].book : m \in Markets}) + 1

(* next_sequence_number                                                    *)
NextSequence == prev_order_sequence_number + 1

CanPlaceOrder(a, m) ==
  /\ NextSequence <= MaxSequence
  /\ contract_state = "Active"
  /\ markets[m].state = "Active"
  /\ a \in DOMAIN accounts

(* The trading window checks of limit orders.  A best price of 0 lots, an  *)
(* order priced below one lot, makes the division panic.                   *)
InBidWindow(m, price) ==
  \A best \in BestPrice(markets[m].book, "Buy") :
    /\ best # 0
    /\ (price * WindowBps) \div QuoteLotsToNative(MarketParams[m], best)
         >= markets[m].minimum_bid_bps

InAskWindow(m, price) ==
  \A best \in BestPrice(markets[m].book, "Sell") :
    /\ best # 0
    /\ (price * WindowBps) \div QuoteLotsToNative(MarketParams[m], best)
         <= markets[m].maximum_ask_bps

-----------------------------------------------------------------------------
(* Settlement (settlement.rs).  fills are the matches of a new order in    *)
(* market m, whose book has not changed yet.                               *)

QuotePaid(m, fills, i) ==
  QuoteValueOfLots(MarketParams[m], fills[i], markets[m].book[i].price)

RebateOf(m, fills, i) ==
  MakerRebate(MarketParams[m].maker_rate, QuotePaid(m, fills, i))

BaseTraded(m, fills) ==
  SumFunction([i \in DOMAIN fills |-> BaseLotsToNative(MarketParams[m], fills[i])])

QuoteTraded(m, fills) ==
  SumFunction([i \in DOMAIN fills |-> QuotePaid(m, fills, i)])

(* Variant: the rebate of the total, not the total of the rebates.         *)
TotalMakerRebate_OfTotal(m, fills) ==
  MakerRebate(MarketParams[m].maker_rate, QuoteTraded(m, fills))

TotalMakerRebate(m, fills) ==
  SumFunction([i \in DOMAIN fills |-> RebateOf(m, fills, i)])

(* The account of maker b once the fills of the orders in settled have     *)
(* been credited to it: the rebate and what the taker paid with.           *)
MakerCredited(m, fills, side, b, settled) ==
  LET p      == MarketParams[m]
      own    == {i \in settled : markets[m].book[i].owner = b}
      rebate == SumFunction([i \in own |-> RebateOf(m, fills, i)])
      paid   == SumFunction([i \in own |-> IF side = "Buy" THEN QuotePaid(m, fills, i)
                                          ELSE BaseLotsToNative(p, fills[i])])
  IN  IF own = {} THEN accounts[b]
      ELSE Deposit(Deposit(accounts[b], p.quote, rebate),
                   IF side = "Buy" THEN p.quote ELSE p.base, paid)

FilledOf(m, fills, b, settled) ==
  {i \in settled \cap FullyFilled(markets[m].book, fills) : markets[m].book[i].owner = b}

(* Variant: each fill starts from the account as it was before the order.  *)
MakerAccount_Stale(m, fills, side, b, settled) ==
  LET own  == {i \in settled : markets[m].book[i].owner = b}
      last == {i \in own : \A j \in own : j = i \/ Precedes(markets[m].book, j, i)}
  IN  RemoveOrderInfos(MakerCredited(m, fills, side, b, last), m, FilledOf(m, fills, b, settled))

(* Variant: filled orders stay listed on the account.                      *)
MakerAccount_KeepsOrders(m, fills, side, b, settled) ==
  MakerCredited(m, fills, side, b, settled)

(* ... and the orders that were filled have been struck from its list.     *)
MakerAccount(m, fills, side, b, settled) ==
  RemoveOrderInfos(MakerCredited(m, fills, side, b, settled), m, FilledOf(m, fills, b, settled))

(* Variant: makers are saved without the storage check.                    *)
MakersCovered_Unchecked(m, fills, side) == TRUE

(* internal_save_account of the maker after each of the fills, in order.   *)
MakersCovered(m, fills, side) ==
  LET book == markets[m].book
  IN  \A i \in DOMAIN fills :
        /\ book[i].owner \in DOMAIN accounts
        /\ IsStorageCovered(
             MakerAccount(m, fills, side, book[i].owner,
                          {j \in DOMAIN fills : j = i \/ Precedes(book, j, i)}))

SettleMakerFills(m, fills, side) ==
  [b \in DOMAIN accounts |-> MakerAccount(m, fills, side, b, DOMAIN fills)]

(* Variant: the rebate is credited but still counted as the market's.      *)
SettleReferrer_PaidTwice(accs, token, referrer, rest) ==
  LET credited(r) == Deposit(accs[r], token, ReferrerRebate(rest))
      payees == {r \in referrer : r \in DOMAIN accs /\ IsStorageCovered(credited(r))}
  IN  [accounts |-> [b \in DOMAIN accs |-> IF b \in payees THEN credited(b) ELSE accs[b]],
       paid     |-> 0]

(* internal_settle_referrer_rebate: paid is 0 when there is no referrer,   *)
(* when it has no account, and when its storage cannot hold the token.     *)
SettleReferrer(accs, token, referrer, rest) ==
  LET credited(r) == Deposit(accs[r], token, ReferrerRebate(rest))
      payees == {r \in referrer : r \in DOMAIN accs /\ IsStorageCovered(credited(r))}
  IN  [accounts |-> [b \in DOMAIN accs |-> IF b \in payees THEN credited(b) ELSE accs[b]],
       paid     |-> IF payees = {} THEN 0 ELSE ReferrerRebate(rest)]

(* What all three placing functions share: match o, settle the makers and  *)
(* the referrer, accrue the fees, and last save the taker's account, which *)
(* was loaded before any of that.                                          *)
ExecuteOrder(m, o, referrer, taker) ==
  LET p      == MarketParams[m]
      book   == markets[m].book
      fills  == Matches(p, book, o)
      fee    == TakerFee(p.taker_rate, QuoteTraded(m, fills))
      rebate == TotalMakerRebate(m, fills)
      ref    == SettleReferrer(SettleMakerFills(m, fills, o.side), p.quote,
                               referrer, fee - rebate)
  IN  /\ ~ IsSelfTrade(book, o, fills)
      /\ MakersCovered(m, fills, o.side)
      /\ fee >= rebate                               \* or the subtraction underflows
      /\ fee >= ref.paid + rebate                    \* "over-counted fees"
      /\ IsStorageCovered(taker)
      /\ accounts' = [ref.accounts EXCEPT ![o.owner] = taker]
      /\ markets' = [markets EXCEPT
           ![m].book = BookAfter(p, book, o, NextSequence),
           ![m].fees_accrued = @ + fee - rebate - ref.paid]
      /\ prev_order_sequence_number' = NextSequence
      /\ UNCHANGED contract_state

(* The taker's account with its newly posted order, if it was posted.      *)
WithPostedOrder(acc, m, open) ==
  IF open > 0 THEN SaveNewOrderInfo(acc, m, NextSequence) ELSE acc

CanPost(acc, m, open) ==
  open > 0 => CanSaveNewOrder(acc, m, MarketParams[m].max_orders)

-----------------------------------------------------------------------------
(* Variant: the quantity is capped by what the price affords before the    *)
(* fee is withheld, the quote spent after.                                 *)
LimitBuyOrder_TwoCaps(a, m, type, price, quantity, max_spend) ==
  LET p     == MarketParams[m]
      debit == GetMaxBidDebit(p, price, quantity, max_spend)
      lots  == QuoteNativeToLots(p, WithholdTakerFee(p.taker_rate, debit))
      want  == BaseNativeToLots(p, quantity)
      affordable == AffordableLots(p, QuoteNativeToLots(p, debit), price)
  IN  [owner |-> a, side |-> "Buy", type |-> type,
       limit |-> {QuoteNativeToLots(p, price)},
       qty   |-> IF want <= affordable THEN want ELSE affordable,
       quote |-> {lots}]

(* The order internal_place_limit_buy hands to the engine.                 *)
LimitBuyOrder(a, m, type, price, quantity, max_spend) ==
  LET p     == MarketParams[m]
      spend == WithholdTakerFee(p.taker_rate, GetMaxBidDebit(p, price, quantity, max_spend))
      lots  == QuoteNativeToLots(p, spend)
      want  == BaseNativeToLots(p, quantity)
      affordable == AffordableLots(p, lots, price)
  IN  [owner |-> a, side |-> "Buy", type |-> type,
       limit |-> {QuoteNativeToLots(p, price)},
       qty   |-> IF want <= affordable THEN want ELSE affordable,
       quote |-> {lots}]

(* total_quote_debit: locked in the posted order, paid and fee.  The lock  *)
(* is computed from the native limit price, not from its lots.             *)
LimitBuyDebit(m, o, price) ==
  LET p      == MarketParams[m]
      fills  == Matches(p, markets[m].book, o)
      open   == OpenQty(p, markets[m].book, o)
      traded == QuoteTraded(m, fills)
  IN  QuoteValue(p, BaseLotsToNative(p, open), price) + traded + TakerFee(p.taker_rate, traded)

PlaceLimitBuy(a, m, type, price, quantity, max_spend, referrer) ==
  LET p     == MarketParams[m]
      o     == LimitBuyOrder(a, m, type, price, quantity, max_spend)
      open  == OpenQty(p, markets[m].book, o)
      debit == LimitBuyDebit(m, o, price)
      credited == Deposit(accounts[a], p.base, BaseTraded(m, Matches(p, markets[m].book, o)))
      debited  == Withdraw(credited, p.quote, debit)
  IN  /\ CanPlaceOrder(a, m)
      /\ InBidWindow(m, price)
      /\ o.quote # {0}                               \* ZERO_ORDER_AMOUNT
      /\ \A c \in o.quote : AffordableLots(p, c, price) <= U64Max  \* or as_u64 panics
      /\ debit <= GetMaxBidDebit(p, price, quantity, max_spend)  \* "bid bug: overspent"
      /\ CanWithdraw(credited, p.quote, debit)
      /\ CanPost(debited, m, open)
      /\ ExecuteOrder(m, o, referrer, WithPostedOrder(debited, m, open))

LimitSellOrder(a, m, type, price, quantity) ==
  LET p == MarketParams[m]
  IN  [owner |-> a, side |-> "Sell", type |-> type,
       limit |-> {QuoteNativeToLots(p, price)},
       qty   |-> BaseNativeToLots(p, quantity),
       quote |-> {}]

(* total_base_debit                                                        *)
LimitSellDebit(m, o) ==
  LET p == MarketParams[m]
  IN  BaseTraded(m, Matches(p, markets[m].book, o))
        + BaseLotsToNative(p, OpenQty(p, markets[m].book, o))

PlaceLimitSell(a, m, type, price, quantity, referrer) ==
  LET p      == MarketParams[m]
      o      == LimitSellOrder(a, m, type, price, quantity)
      open   == OpenQty(p, markets[m].book, o)
      traded == QuoteTraded(m, Matches(p, markets[m].book, o))
      debit  == LimitSellDebit(m, o)
      credited == Deposit(accounts[a], p.quote, traded - TakerFee(p.taker_rate, traded))
      debited  == Withdraw(credited, p.base, debit)
  IN  /\ CanPlaceOrder(a, m)
      /\ InAskWindow(m, price)
      /\ debit <= quantity                           \* "ask bug: oversold"
      /\ CanWithdraw(credited, p.base, debit)
      /\ CanPost(debited, m, open)
      /\ ExecuteOrder(m, o, referrer, WithPostedOrder(debited, m, open))

(* internal_place_market_order: max_spend = {} leaves a bid unbounded.     *)
MarketOrder(a, m, side, quantity, max_spend) ==
  LET p == MarketParams[m]
  IN  [owner |-> a, side |-> side, type |-> "Market", limit |-> {},
       qty   |-> BaseNativeToLots(p, quantity),
       quote |-> IF side = "Sell" THEN {}
                 ELSE IF max_spend = {} THEN {U64Max}
                 ELSE {QuoteNativeToLots(p, WithholdTakerFee(p.taker_rate, x)) : x \in max_spend}]

MarketOrderDebit(m, o) ==
  LET fills  == Matches(MarketParams[m], markets[m].book, o)
      traded == QuoteTraded(m, fills)
  IN  IF o.side = "Buy" THEN traded + TakerFee(MarketParams[m].taker_rate, traded)
                        ELSE BaseTraded(m, fills)

PlaceMarketOrder(a, m, side, quantity, max_spend, referrer) ==
  LET p      == MarketParams[m]
      o      == MarketOrder(a, m, side, quantity, max_spend)
      fills  == Matches(p, markets[m].book, o)
      traded == QuoteTraded(m, fills)
      debit  == MarketOrderDebit(m, o)
      input  == IF side = "Buy" THEN p.quote ELSE p.base
      output == IF side = "Buy" THEN p.base ELSE p.quote
      credit == IF side = "Buy" THEN BaseTraded(m, fills)
                                ELSE traded - TakerFee(p.taker_rate, traded)
  IN  /\ CanPlaceOrder(a, m)
      /\ o.qty # 0                                   \* ZERO_ORDER_AMOUNT
      /\ side = "Buy" => \A x \in max_spend : debit <= x  \* "market order overspent"
      /\ CanWithdraw(accounts[a], input, debit)
      /\ ExecuteOrder(m, o, referrer, Deposit(Withdraw(accounts[a], input, debit), output, credit))

-----------------------------------------------------------------------------
(* get_refund_amount of each of the orders in ids, deposited to acc.       *)
PaidBack(acc, m, ids) ==
  LET p    == MarketParams[m]
      book == markets[m].book
      back(side) == {i \in ids : book[i].side = side}
      due(side)  == SumFunction([i \in back(side) |-> GetRefundAmount(p, book[i])])
      paid(x, side, token) == IF back(side) = {} THEN x ELSE Deposit(x, token, due(side))
  IN  paid(paid(acc, "Sell", p.base), "Buy", p.quote)

(* Variant: cancelled orders stay listed on the account.                   *)
Refunded_KeepsOrders(acc, m, ids) == PaidBack(acc, m, ids)

(* process_refunds: acc with the orders in ids of market m cancelled.      *)
Refunded(acc, m, ids) == RemoveOrderInfos(PaidBack(acc, m, ids), m, ids)

MarketCanCancel(m) == markets[m].state \in {"Active", "CancelOnly"}

ContractCanCancel == contract_state \in {"Active", "CancelOnly"}

CommitCancels(m, ids, refunded) ==
  /\ accounts' = refunded
  /\ markets' = [markets EXCEPT ![m].book = RemoveOrders(@, ids)]
  /\ UNCHANGED <<contract_state, prev_order_sequence_number>>

InternalCancelOrder(a, m, id) ==
  /\ MarketCanCancel(m)
  /\ a \in DOMAIN accounts
  /\ id \in accounts[a].open[m]                     \* else ORDER_NOT_FOUND
  /\ id \in DOMAIN markets[m].book                  \* "should never happen"
  /\ markets[m].book[id].owner = a                  \* "order is not owned by account"
  /\ IsStorageCovered(Refunded(accounts[a], m, {id}))
  /\ CommitCancels(m, {id}, [accounts EXCEPT ![a] = Refunded(@, m, {id})])

(* The orders the account has listed and the engine still holds are        *)
(* cancelled; the account forgets all of them.                             *)
InternalCancelAllOrders(a, m) ==
  /\ MarketCanCancel(m)
  /\ a \in DOMAIN accounts
  /\ LET listed == accounts[a].open[m]
         found  == listed \cap DOMAIN markets[m].book
         after  == RemoveOrderInfos(Refunded(accounts[a], m, found), m, listed)
     IN  /\ \A i \in found : markets[m].book[i].owner = a
         /\ IsStorageCovered(after)
         /\ CommitCancels(m, found, [accounts EXCEPT ![a] = after])

CancelOrder(a, m, id) == ContractCanCancel /\ InternalCancelOrder(a, m, id)

CancelAllOrders(a, m) ==
  /\ contract_state = "Active" /\ ContractCanCancel
  /\ InternalCancelAllOrders(a, m)

-----------------------------------------------------------------------------
(* The owner's operations.                                                 *)

AdminCancelOrder(m, id) ==
  /\ id \in DOMAIN markets[m].book
  /\ InternalCancelOrder(markets[m].book[id].owner, m, id)

AdminCancelAllUserOrders(a, m) == InternalCancelAllOrders(a, m)

(* Cancels the first limit orders of the book one after the other; the     *)
(* owner's account is saved after each.                                    *)
AdminClearOrderbook(m, limit) ==
  LET book  == markets[m].book
      upto(i) == {j \in DOMAIN book : j = i \/ IteratedBefore(book, j, i)}
      ids   == {i \in DOMAIN book : Cardinality(upto(i)) <= limit}
      ownedBy(a, S) == {i \in S : book[i].owner = a}
  IN  /\ MarketCanCancel(m)
      /\ \A i \in ids : LET a == book[i].owner IN
           /\ a \in DOMAIN accounts
           /\ i \in accounts[a].open[m]
           /\ IsStorageCovered(Refunded(accounts[a], m, ownedBy(a, upto(i))))
      /\ CommitCancels(m, ids,
           [a \in DOMAIN accounts |->
              IF ownedBy(a, ids) = {} THEN accounts[a]
              ELSE Refunded(accounts[a], m, ownedBy(a, ids))])

SetContractState(state) ==
  /\ contract_state' = state
  /\ UNCHANGED <<accounts, markets, prev_order_sequence_number>>

SetMarketState(m, state) ==
  /\ markets' = [markets EXCEPT ![m].state = state]
  /\ UNCHANGED <<contract_state, accounts, prev_order_sequence_number>>

SetMarketBidWindow(m, bps) ==
  /\ markets' = [markets EXCEPT ![m].minimum_bid_bps = bps]
  /\ UNCHANGED <<contract_state, accounts, prev_order_sequence_number>>

SetMarketAskWindow(m, bps) ==
  /\ markets' = [markets EXCEPT ![m].maximum_ask_bps = bps]
  /\ UNCHANGED <<contract_state, accounts, prev_order_sequence_number>>

-----------------------------------------------------------------------------
Optional(S) == {{}} \cup {{x} : x \in S}

LimitBuyBy(a, m) ==
  \E type \in TypesTried, price \in Prices, quantity \in Quantities,
     max_spend \in Optional(MaxSpends), referrer \in Optional(Referrers) :
    PlaceLimitBuy(a, m, type, price, quantity, max_spend, referrer)

LimitSellBy(a, m) ==
  \E type \in TypesTried, price \in Prices, quantity \in Quantities,
     referrer \in Optional(Referrers) :
    PlaceLimitSell(a, m, type, price, quantity, referrer)

MarketOrderBy(a, m) ==
  \E side \in Sides, quantity \in Quantities,
     max_spend \in Optional(MaxSpends), referrer \in Optional(Referrers) :
    PlaceMarketOrder(a, m, side, quantity, max_spend, referrer)

NewLimitBuy(m) == \E a \in Traders : LimitBuyBy(a, m)

NewLimitSell(m) == \E a \in Traders : LimitSellBy(a, m)

NewMarketOrder(m) == \E a \in Traders : MarketOrderBy(a, m)

(* new_order                                                               *)
NewOrder(m) == NewLimitBuy(m) \/ NewLimitSell(m) \/ NewMarketOrder(m)

Cancel(m) ==
  \E a \in Traders :
    \/ \E id \in 1 .. prev_order_sequence_number : CancelOrder(a, m, id)
    \/ CancelAllOrders(a, m)

Admin(m) ==
  \/ \E id \in 1 .. prev_order_sequence_number : AdminCancelOrder(m, id)
  \/ \E a \in Traders : AdminCancelAllUserOrders(a, m)
  \/ \E limit \in 0 .. MaxSequence : AdminClearOrderbook(m, limit)
  \/ \E state \in MarketStatesTried : SetMarketState(m, state)
  \/ \E bps \in BidWindows : SetMarketBidWindow(m, bps)
  \/ \E bps \in AskWindows : SetMarketAskWindow(m, bps)

Switch == \E state \in ContractStatesTried : SetContractState(state)

Next == Switch \/ \E m \in Markets : NewOrder(m) \/ Cancel(m) \/ Admin(m)

Spec == Init /\ [][Next]_vars
-----------------------------------------------------------------------------
(* Properties.                                                             *)

BalancesHeld(token) ==
  SumFunction([a \in DOMAIN accounts |-> Balance(accounts[a], token)])

(* What the resting orders of market m would pay back in token.            *)
LockedIn(m, token) ==
  LET book == markets[m].book
  IN  SumFunction([i \in {i \in DOMAIN book : RefundToken(MarketParams[m], book[i]) = token} |->
                     GetRefundAmount(MarketParams[m], book[i])])

FeesHeld(m, token) ==
  IF MarketParams[m].quote = token THEN markets[m].fees_accrued ELSE 0

(* All the exchange owes in a token: to accounts, to resting orders and as *)
(* fees.                                                                   *)
Owed(token) ==
  BalancesHeld(token) + SumFunction([m \in Markets |-> LockedIn(m, token) + FeesHeld(m, token)])

Endowment(token) ==
  SumFunction([a \in DOMAIN InitialAccounts |-> Balance(InitialAccounts[a], token)])

(* The exchange never owes more of a token than was deposited: no sequence *)
(* of orders, fills, rebates and cancels creates tokens (settlement.rs and *)
(* process_refunds of market/mod.rs, whatever the rounding).               *)
Solvent == \A token \in Tokens : Owed(token) <= Endowment(token)

(* Nothing is lost either: balances, locked amounts and fees add up to the *)
(* deposits, as the contract's own unit tests assert after each scenario   *)
(* (assert_balance_invariant, tests/util.rs:230).                          *)
Conserved == \A token \in Tokens : Owed(token) = Endowment(token)

(* The orders an account lists are exactly the orders of the book it owns, *)
(* and every order belongs to a registered account: cancel_order's "should *)
(* never happen" does not, no fill meets an unknown maker, and the views   *)
(* that unwrap both sides do not panic.                                    *)
BooksMatchAccounts ==
  \A m \in Markets :
    /\ \A i \in DOMAIN markets[m].book : markets[m].book[i].owner \in DOMAIN accounts
    /\ \A a \in DOMAIN accounts :
         accounts[a].open[m] = {i \in DOMAIN markets[m].book : markets[m].book[i].owner = a}

(* A bid never rests at or above an ask.  It would if a limit order could  *)
(* post a remainder it was not able to match: the quote cap, the quantity  *)
(* cap and the truncation of the limit price to lots must agree.           *)
BookNotCrossed ==
  \A m \in Markets : LET book == markets[m].book IN
    \A i \in OnSide(book, "Buy"), j \in OnSide(book, "Sell") : book[i].price < book[j].price

(* No account has more resting orders in a market than the market allows.  *)
OrderLimit ==
  \A a \in DOMAIN accounts, m \in Markets :
    Cardinality(accounts[a].open[m]) <= MarketParams[m].max_orders

(* Every saved account pays for the storage it uses, so what it may take   *)
(* out of its storage balance never underflows (storage_balance_available).*)
AccountsCovered == \A a \in DOMAIN accounts : IsStorageCovered(accounts[a])

(* The assertion "bid bug: overspent" of limit_order.rs never fires: what  *)
(* any bid would lock, pay and be charged stays within its maximum debit,  *)
(* with the fee and each fill rounded on their own.                        *)
BidNeverOverspends ==
  \A a \in Traders, m \in Markets, type \in TypesTried, price \in Prices,
     quantity \in Quantities, max_spend \in Optional(MaxSpends) :
    LET o == LimitBuyOrder(a, m, type, price, quantity, max_spend)
    IN  o.quote # {0} => LimitBuyDebit(m, o, price)
                           <= GetMaxBidDebit(MarketParams[m], price, quantity, max_spend)

(* A resting order can always be cancelled: paying the refund back never   *)
(* needs more storage than dropping the order frees, so the storage check  *)
(* of internal_cancel_order cannot trap an order in the book.              *)
AlwaysCancellable ==
  \A m \in Markets : \A i \in DOMAIN markets[m].book :
    IsStorageCovered(Refunded(accounts[markets[m].book[i].owner], m, {i}))

(* "Ensures that the account has enough storage balance to hold both base  *)
(* and quote token balances" (storage.rs:40): the maker of a resting order *)
(* can be credited with any fill of it.                                    *)
RestingOrderFillable ==
  \A m \in Markets : LET book == markets[m].book IN
    \A i \in DOMAIN book : \A n \in 1 .. book[i].qty :
      MakersCovered(m, [j \in {i} |-> n], IF book[i].side = "Buy" THEN "Sell" ELSE "Buy")

-----------------------------------------------------------------------------
PayingAccounts ==
  {a \in DOMAIN accounts : \E token \in Tokens :
     Balance(accounts'[a], token) < Balance(accounts[a], token)}

(* The step is a call of new_order by account a, who is the taker.         *)
PlacesOrder(a) ==
  \E m \in Markets : LimitBuyBy(a, m) \/ LimitSellBy(a, m) \/ MarketOrderBy(a, m)

(* Only the account that places an order pays: an available balance that   *)
(* goes down is that of the account whose call of new_order the step is,   *)
(* never a maker's, a referrer's or a bystander's, and no cancel or owner's*)
(* operation takes from anyone.                                            *)
OnlyTheTakerPays ==
  [][/\ \A a \in PayingAccounts : PlacesOrder(a)
     /\ \A a \in Traders : PayingAccounts \subseteq {a} \/ ~ PlacesOrder(a)]_vars

OrdersShrink ==
  \A m \in Markets : LET old == markets[m].book
                         new == markets'[m].book
    IN  \A i \in DOMAIN new :
          IF i \in DOMAIN old
            THEN new[i].qty <= old[i].qty /\ [new[i] EXCEPT !.qty = 0] = [old[i] EXCEPT !.qty = 0]
            ELSE prev_order_sequence_number < i /\ i <= prev_order_sequence_number'

(* An order id is given out once, in increasing order; a resting order     *)
(* keeps its owner, side and price and only ever shrinks.                  *)
OrdersOnlyShrink == [][OrdersShrink]_vars

(* Lots that the orders of account a lost on a side of market m in a step. *)
LotsLost(a, m, side) ==
  LET old == markets[m].book
      new == markets'[m].book
  IN  [i \in {i \in OnSide(old, side) : old[i].owner = a} |->
         old[i].qty - (IF i \in DOMAIN new THEN new[i].qty ELSE 0)]

(* What orders of account a lost in a step, it was paid for.               *)
MadeWhole(a) ==
  \A m \in Markets :
    LET p      == MarketParams[m]
        bought == LotsLost(a, m, "Buy")
        sold   == LotsLost(a, m, "Sell")
        gain(token) == Balance(accounts'[a], token) - Balance(accounts[a], token)
    IN  /\ gain(p.base) >= SumFunction([i \in DOMAIN bought |-> BaseLotsToNative(p, bought[i])])
        /\ gain(p.quote) >= SumFunction([i \in DOMAIN sold |->
                               QuoteValueOfLots(p, sold[i], markets[m].book[i].price)])

(* A maker is made whole: when orders of an account are filled by someone  *)
(* else's order, the account is credited with all the base its bids bought *)
(* and at least the quote its asks sold for, each at its own price, however*)
(* many of its orders one taker hits.  Only the account whose order it is  *)
(* gets no such promise.                                                   *)
MakersMadeWhole ==
  [][prev_order_sequence_number' # prev_order_sequence_number =>
       \A a \in DOMAIN accounts : MadeWhole(a) \/ PlacesOrder(a)]_vars
=============================================================================
