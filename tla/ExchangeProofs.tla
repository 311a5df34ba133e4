--------------------------- MODULE ExchangeProofs ---------------------------
(***************************************************************************)
(* Proofs about Exchange, for every number of accounts, markets, tokens,   *)
(* orders, prices and fee rates.                                           *)
(***************************************************************************)
EXTENDS Exchange, BookTheorems

(* Every market has well formed parameters.                                *)
LEMMA ParamsFacts ==
  ASSUME NEW m \in Markets
  PROVE  /\ IsMarketParams(MarketParams[m])
         /\ MarketParams[m].base \in Tokens /\ MarketParams[m].quote \in Tokens
         /\ MarketParams[m].taker_rate \in 0 .. FeeToBpsDivisor
         /\ MarketParams[m].maker_rate \in 0 .. FeeToBpsDivisor
BY ParamsAssumption DEF IsMarketParams

(* fills are lots of resting orders of a book.                             *)
AreFills(fills, book) ==
  /\ DOMAIN fills \subseteq DOMAIN book
  /\ \A i \in DOMAIN fills : fills[i] \in Nat

(* The matches the engine returns are fills of the market's book.          *)
LEMMA MatchesAreFills ==
  ASSUME TypeOK, NEW m \in Markets, NEW o
  PROVE  AreFills(Matches(MarketParams[m], markets[m].book, o), markets[m].book)
PROOF
  <1> DEFINE book == markets[m].book
             fills == Matches(MarketParams[m], book, o)
  <1>1. IsBook(book, prev_order_sequence_number) /\ prev_order_sequence_number \in Nat
        BY DEF TypeOK, IsMarket, IsBook
  <1>2. DOMAIN fills \subseteq DOMAIN book /\ \A i \in DOMAIN fills : fills[i] \in 1 .. book[i].qty
        BY <1>1, MatchesFacts
  <1>3. \A i \in DOMAIN book : book[i].qty \in Nat
        BY <1>1, BookFinite DEF RestingOrder
  <1>. QED  BY <1>2, <1>3 DEF AreFills

(* Amounts traded and rebated in fills are naturals, on any part of them.  *)
LEMMA FillAmounts ==
  ASSUME TypeOK, NEW m \in Markets, NEW fills, AreFills(fills, markets[m].book)
  PROVE  /\ \A i \in DOMAIN fills : /\ QuotePaid(m, fills, i) \in Nat
                                    /\ RebateOf(m, fills, i) \in Nat
                                    /\ BaseLotsToNative(MarketParams[m], fills[i]) \in Nat
         /\ \A S \in SUBSET DOMAIN fills : IsFiniteSet(S)
         /\ BaseTraded(m, fills) \in Nat
         /\ QuoteTraded(m, fills) \in Nat
         /\ TotalMakerRebate(m, fills) \in Nat
PROOF
  <1> DEFINE book == markets[m].book
             p == MarketParams[m]
  <1>1. IsBook(book, prev_order_sequence_number) /\ prev_order_sequence_number \in Nat
        BY DEF TypeOK, IsMarket, IsBook
  <1>2. /\ \A i \in DOMAIN fills : i \in DOMAIN book /\ fills[i] \in Nat
        /\ \A S \in SUBSET DOMAIN fills : IsFiniteSet(S)
        /\ \A i \in DOMAIN book : book[i].price \in Nat
    <2>1. \A i \in DOMAIN book : book[i] \in RestingOrder
          BY <1>1, BookFinite
    <2>2. \A S \in SUBSET DOMAIN book : IsFiniteSet(S)
          BY <1>1, BookFinite
    <2>. QED  BY <2>1, <2>2 DEF AreFills, RestingOrder
  <1>3. IsMarketParams(p) /\ p.maker_rate \in 0 .. FeeToBpsDivisor
        BY ParamsFacts
  <1>4. \A i \in DOMAIN fills : /\ QuotePaid(m, fills, i) \in Nat
                                /\ BaseLotsToNative(p, fills[i]) \in Nat
        BY <1>2, <1>3, LotsFacts DEF QuotePaid
  <1>5. \A i \in DOMAIN fills : RebateOf(m, fills, i) \in Nat
        BY <1>3, <1>4, FeeBound DEF RebateOf
  <1>6. IsFiniteSet(DOMAIN fills)
        BY <1>2
  <1>7. BaseTraded(m, fills) \in Nat
    <2> DEFINE f == [i \in DOMAIN fills |-> BaseLotsToNative(p, fills[i])]
    <2>1. DOMAIN f = DOMAIN fills /\ \A i \in DOMAIN fills : f[i] \in Nat
          BY <1>4
    <2> HIDE DEF f
    <2>2. SumFunctionOnSet(f, DOMAIN f) \in Nat
          BY <1>6, <2>1, SumNat
    <2>. QED  BY <2>2 DEF BaseTraded, SumFunction, f
  <1>8. QuoteTraded(m, fills) \in Nat
    <2> DEFINE f == [i \in DOMAIN fills |-> QuotePaid(m, fills, i)]
    <2>1. DOMAIN f = DOMAIN fills /\ \A i \in DOMAIN fills : f[i] \in Nat
          BY <1>4
    <2> HIDE DEF f
    <2>2. SumFunctionOnSet(f, DOMAIN f) \in Nat
          BY <1>6, <2>1, SumNat
    <2>. QED  BY <2>2 DEF QuoteTraded, SumFunction, f
  <1>9. TotalMakerRebate(m, fills) \in Nat
    <2> DEFINE f == [i \in DOMAIN fills |-> RebateOf(m, fills, i)]
    <2>1. DOMAIN f = DOMAIN fills /\ \A i \in DOMAIN fills : f[i] \in Nat
          BY <1>5
    <2> HIDE DEF f
    <2>2. SumFunctionOnSet(f, DOMAIN f) \in Nat
          BY <1>6, <2>1, SumNat
    <2>. QED  BY <2>2 DEF TotalMakerRebate, SumFunction, f
  <1>. QED  BY <1>2, <1>4, <1>5, <1>7, <1>8, <1>9

(* Settling fills keeps a maker's account well formed and strikes exactly  *)
(* its filled orders.                                                      *)
LEMMA MakerAccountFacts ==
  ASSUME TypeOK, NEW m \in Markets, NEW fills, AreFills(fills, markets[m].book),
         NEW side, NEW b \in DOMAIN accounts, NEW settled \in SUBSET DOMAIN fills
  PROVE  /\ IsAccount(MakerAccount(m, fills, side, b, settled))
         /\ MakerAccount(m, fills, side, b, settled).open =
              [accounts[b].open EXCEPT ![m] = @ \ FilledOf(m, fills, b, settled)]
PROOF
  <1> DEFINE p == MarketParams[m]
             own == {i \in settled : markets[m].book[i].owner = b}
             f == [i \in own |-> RebateOf(m, fills, i)]
             g == [i \in own |-> IF side = "Buy" THEN QuotePaid(m, fills, i)
                                 ELSE BaseLotsToNative(p, fills[i])]
             rebate == SumFunction(f)
             paid == SumFunction(g)
             credited == MakerCredited(m, fills, side, b, settled)
  <1>1. IsAccount(accounts[b])
        BY DEF TypeOK
  <1>2. own \in SUBSET DOMAIN fills /\ IsFiniteSet(own)
        BY FillAmounts
  <1>3. p.quote \in Tokens /\ p.base \in Tokens
        BY ParamsFacts
  <1>4. rebate \in Nat
    <2>1. \A i \in own : f[i] \in Nat
          BY <1>2, FillAmounts
    <2>2. DOMAIN f = own
          OBVIOUS
    <2> HIDE DEF f, own
    <2>. QED  BY <1>2, <2>1, <2>2, SumNat DEF SumFunction
  <1>5. paid \in Nat
    <2>1. \A i \in own : g[i] \in Nat
      <3>1. \A i \in own : QuotePaid(m, fills, i) \in Nat /\ BaseLotsToNative(p, fills[i]) \in Nat
            BY <1>2, FillAmounts
      <3>. QED  BY <3>1
    <2>2. DOMAIN g = own
          OBVIOUS
    <2> HIDE DEF g, own
    <2>. QED  BY <1>2, <2>1, <2>2, SumNat DEF SumFunction
  <1>6. IsAccount(credited) /\ credited.open = accounts[b].open
    <2> DEFINE first == Deposit(accounts[b], p.quote, rebate)
               token == IF side = "Buy" THEN p.quote ELSE p.base
    <2>1. credited = IF own = {} THEN accounts[b] ELSE Deposit(first, token, paid)
          BY DEF MakerCredited
    <2> HIDE DEF rebate, paid, credited, p
    <2>2. IsAccount(first) /\ first.open = accounts[b].open
          BY <1>1, <1>3, <1>4, DepositFacts
    <2>3. token \in Tokens
          BY <1>3
    <2> HIDE DEF first, token
    <2>4. IsAccount(Deposit(first, token, paid)) /\ Deposit(first, token, paid).open = first.open
          BY <2>2, <2>3, <1>5, DepositFacts
    <2>. QED  BY <1>1, <2>1, <2>2, <2>4
  <1> HIDE DEF credited
  <1>7. MakerAccount(m, fills, side, b, settled)
          = RemoveOrderInfos(credited, m, FilledOf(m, fills, b, settled))
        BY DEF MakerAccount, credited
  <1>. QED  BY <1>6, <1>7, RemoveOrderInfosFacts

(* Paying a referrer changes nothing but a balance, of an account that can *)
(* hold it.                                                                *)
LEMMA SettleReferrerFacts ==
  ASSUME NEW accs, \A b \in DOMAIN accs : IsAccount(accs[b]),
         NEW token \in Tokens, NEW referrer, NEW rest \in Nat
  PROVE  LET ref == SettleReferrer(accs, token, referrer, rest)
         IN  /\ DOMAIN ref.accounts = DOMAIN accs
             /\ \A b \in DOMAIN accs : /\ IsAccount(ref.accounts[b])
                                       /\ ref.accounts[b].open = accs[b].open
                                       /\ \/ ref.accounts[b] = accs[b]
                                          \/ IsStorageCovered(ref.accounts[b])
             /\ ref.paid \in {0, rest}
PROOF
  <1> DEFINE credited(r) == Deposit(accs[r], token, ReferrerRebate(rest))
             payees == {r \in referrer : r \in DOMAIN accs /\ IsStorageCovered(credited(r))}
             ref == SettleReferrer(accs, token, referrer, rest)
  <1>1. /\ ref.accounts = [b \in DOMAIN accs |-> IF b \in payees THEN credited(b) ELSE accs[b]]
        /\ ref.paid = IF payees = {} THEN 0 ELSE rest
        BY DEF SettleReferrer, ReferrerRebate
  <1>2. \A b \in DOMAIN accs : IsAccount(credited(b)) /\ credited(b).open = accs[b].open
        BY DepositFacts DEF ReferrerRebate
  <1>3. \A b \in payees : IsStorageCovered(credited(b))
        OBVIOUS
  <1> HIDE DEF credited, payees, ref
  <1>. QED  BY <1>1, <1>2, <1>3 DEF ref

(* What a placed order does to the state.                                  *)
OrderPlaced(m, o, taker) ==
  LET book  == markets[m].book
      fills == Matches(MarketParams[m], book, o)
  IN  /\ ~ IsSelfTrade(book, o, fills)
      /\ IsStorageCovered(taker)
      /\ DOMAIN accounts' = DOMAIN accounts
      /\ accounts'[o.owner] = taker
      /\ \A b \in DOMAIN accounts \ {o.owner} :
           /\ accounts'[b].open =
                [accounts[b].open EXCEPT ![m] = @ \ FilledOf(m, fills, b, DOMAIN fills)]
           /\ \/ accounts'[b] = MakerAccount(m, fills, o.side, b, DOMAIN fills)
              \/ IsStorageCovered(accounts'[b])
      /\ MakersCovered(m, fills, o.side)
      /\ markets'[m].book = BookAfter(MarketParams[m], book, o, NextSequence)
      /\ \A k \in Markets \ {m} : markets'[k].book = markets[k].book
      /\ prev_order_sequence_number' = prev_order_sequence_number + 1

(* ExecuteOrder keeps the types and places the order.                      *)
LEMMA ExecuteOrderFacts ==
  ASSUME TypeOK, NEW m \in Markets, NEW o, IsNewOrder(o), o.owner \in DOMAIN accounts,
         NEW referrer, NEW taker, IsAccount(taker), ExecuteOrder(m, o, referrer, taker)
  PROVE  TypeOK' /\ OrderPlaced(m, o, taker)
PROOF
  <1> DEFINE p      == MarketParams[m]
             book   == markets[m].book
             fills  == Matches(p, book, o)
             fee    == TakerFee(p.taker_rate, QuoteTraded(m, fills))
             rebate == TotalMakerRebate(m, fills)
             settled == SettleMakerFills(m, fills, o.side)
             ref    == SettleReferrer(settled, p.quote, referrer, fee - rebate)
             newBook == BookAfter(p, book, o, NextSequence)
             n == prev_order_sequence_number
  <1>1. /\ ~ IsSelfTrade(book, o, fills)
        /\ MakersCovered(m, fills, o.side)
        /\ fee >= rebate
        /\ fee >= ref.paid + rebate
        /\ IsStorageCovered(taker)
        /\ accounts' = [ref.accounts EXCEPT ![o.owner] = taker]
        /\ markets' = [markets EXCEPT
             ![m].book = newBook,
             ![m].fees_accrued = @ + fee - rebate - ref.paid]
        /\ prev_order_sequence_number' = NextSequence
        /\ contract_state' = contract_state
        BY DEF ExecuteOrder
  <1>2. n \in Nat /\ IsBook(book, n) /\ NextSequence = n + 1
        BY DEF TypeOK, IsMarket, IsBook, NextSequence
  <1>3. AreFills(fills, book)
        BY MatchesAreFills
  <1>4. p.quote \in Tokens /\ p.taker_rate \in 0 .. FeeToBpsDivisor
        BY ParamsFacts
  <1> HIDE DEF p, book, fills
  <1>5. fee \in Nat /\ rebate \in Nat
    <2>1. QuoteTraded(m, fills) \in Nat /\ rebate \in Nat
          BY <1>3, FillAmounts DEF book
    <2>. QED  BY <1>4, <2>1, FeeBound
  <1>6. /\ DOMAIN settled = DOMAIN accounts
        /\ \A b \in DOMAIN accounts :
             /\ settled[b] = MakerAccount(m, fills, o.side, b, DOMAIN fills)
             /\ IsAccount(settled[b])
             /\ settled[b].open = [accounts[b].open EXCEPT ![m] = @ \ FilledOf(m, fills, b, DOMAIN fills)]
    <2>1. settled = [b \in DOMAIN accounts |-> MakerAccount(m, fills, o.side, b, DOMAIN fills)]
          BY DEF SettleMakerFills
    <2>2. \A b \in DOMAIN accounts :
            /\ IsAccount(MakerAccount(m, fills, o.side, b, DOMAIN fills))
            /\ MakerAccount(m, fills, o.side, b, DOMAIN fills).open
                 = [accounts[b].open EXCEPT ![m] = @ \ FilledOf(m, fills, b, DOMAIN fills)]
          BY <1>3, MakerAccountFacts DEF book
    <2>. QED  BY <2>1, <2>2
  <1> HIDE DEF fee, rebate, settled
  <1>7. /\ DOMAIN ref.accounts = DOMAIN settled
        /\ \A b \in DOMAIN settled : /\ IsAccount(ref.accounts[b])
                                     /\ ref.accounts[b].open = settled[b].open
                                     /\ \/ ref.accounts[b] = settled[b]
                                        \/ IsStorageCovered(ref.accounts[b])
        /\ ref.paid \in Nat
    <2>1. fee - rebate \in Nat
          BY <1>1, <1>5
    <2>2. \A b \in DOMAIN settled : IsAccount(settled[b])
          BY <1>6
    <2>. QED  BY <1>4, <2>1, <2>2, SettleReferrerFacts
  <1> HIDE DEF ref
  <1>8. /\ DOMAIN accounts' = DOMAIN accounts
        /\ accounts' = [a \in DOMAIN accounts' |-> accounts'[a]]
        /\ accounts'[o.owner] = taker
        /\ \A b \in DOMAIN accounts \ {o.owner} : accounts'[b] = ref.accounts[b]
        BY <1>1, <1>6, <1>7
  <1>9. IsBook(newBook, n + 1)
        BY <1>2, BookAfterFacts
  <1> HIDE DEF newBook
  <1>10. /\ markets' = [k \in Markets |-> markets'[k]]
         /\ markets'[m].book = newBook
         /\ \A k \in Markets \ {m} : markets'[k] = markets[k]
         /\ \A k \in Markets : IsMarket(markets'[k], n + 1)
    <2>1. /\ markets = [k \in Markets |-> markets[k]]
          /\ \A k \in Markets : IsMarket(markets[k], n)
          BY DEF TypeOK
    <2>2. /\ markets' = [k \in Markets |-> markets'[k]]
          /\ \A k \in Markets \ {m} : markets'[k] = markets[k]
          /\ markets'[m] = [markets[m] EXCEPT !.book = newBook,
                              !.fees_accrued = @ + fee - rebate - ref.paid]
          BY <1>1, <2>1
    <2>3. /\ markets[m].fees_accrued \in Nat
          /\ markets[m] \in [state : MarketStates, book : {markets[m].book}, fees_accrued : Nat,
                             minimum_bid_bps : BidWindows, maximum_ask_bps : AskWindows]
          BY <2>1 DEF IsMarket
    <2>4. markets[m].fees_accrued + fee - rebate - ref.paid \in Nat
          BY <1>1, <1>5, <1>7, <2>3
    <2>5. markets'[m].book = newBook /\ IsMarket(markets'[m], n + 1)
          BY <2>2, <2>3, <2>4, <1>9 DEF IsMarket, IsBook
    <2>6. \A k \in Markets \ {m} : IsMarket(markets'[k], n + 1)
      <3>1. 1 .. n \subseteq 1 .. n + 1
            BY <1>2
      <3>. QED  BY <2>1, <2>2, <3>1 DEF IsMarket, IsPartialFunction
    <2>. QED  BY <2>2, <2>5, <2>6
  <1>11. TypeOK'
    <2>1. \A a \in DOMAIN accounts' : IsAccount(accounts'[a])
          BY <1>6, <1>7, <1>8
    <2>. QED  BY <1>1, <1>2, <1>8, <1>10, <2>1 DEF TypeOK
  <1>12. OrderPlaced(m, o, taker)
    <2>1. /\ ~ IsSelfTrade(book, o, fills)
          /\ MakersCovered(m, fills, o.side)
          /\ IsStorageCovered(taker)
          /\ prev_order_sequence_number' = prev_order_sequence_number + 1
          BY <1>1, <1>2
    <2>2. /\ DOMAIN accounts' = DOMAIN accounts
          /\ accounts'[o.owner] = taker
          BY <1>1, <1>8
    <2>3. \A b \in DOMAIN accounts \ {o.owner} :
             /\ accounts'[b].open =
                  [accounts[b].open EXCEPT ![m] = @ \ FilledOf(m, fills, b, DOMAIN fills)]
             /\ \/ accounts'[b] = MakerAccount(m, fills, o.side, b, DOMAIN fills)
                \/ IsStorageCovered(accounts'[b])
          BY <1>6, <1>7, <1>8
    <2>4. /\ markets'[m].book = BookAfter(p, book, o, NextSequence)
          /\ \A k \in Markets \ {m} : markets'[k].book = markets[k].book
          BY <1>10 DEF newBook
    <2>. QED  BY <2>1, <2>2, <2>3, <2>4 DEF OrderPlaced, p, book, fills
  <1>. QED  BY <1>11, <1>12

-----------------------------------------------------------------------------
(* The taker ends up listing its new order, if any of it stays open and    *)
(* there is room for it.                                                   *)
TakerLists(m, o, taker) ==
  LET open == OpenQty(MarketParams[m], markets[m].book, o)
  IN  /\ taker.open = IF open > 0
                        THEN [accounts[o.owner].open EXCEPT ![m] = @ \cup {NextSequence}]
                        ELSE accounts[o.owner].open
      /\ open > 0 => CanSaveNewOrder(accounts[o.owner], m, MarketParams[m].max_orders)

SomeOrderPlaced ==
  \E m \in Markets : \E o, taker :
    /\ IsNewOrder(o) /\ o.owner \in DOMAIN accounts
    /\ OrderPlaced(m, o, taker) /\ TakerLists(m, o, taker)

(* Posting an order lists its number, fresh, on the taker's account.       *)
LEMMA WithPostedOrderFacts ==
  ASSUME TypeOK, NEW m \in Markets, NEW acc, IsAccount(acc), NEW open \in Nat
  PROVE  /\ IsAccount(WithPostedOrder(acc, m, open))
         /\ WithPostedOrder(acc, m, open).open =
              IF open > 0 THEN [acc.open EXCEPT ![m] = @ \cup {NextSequence}] ELSE acc.open
PROOF
  <1>1. NextSequence \in Nat
        BY DEF NextSequence, TypeOK
  <1>2. /\ IsAccount(SaveNewOrderInfo(acc, m, NextSequence))
        /\ SaveNewOrderInfo(acc, m, NextSequence).open =
              [acc.open EXCEPT ![m] = @ \cup {NextSequence}]
        BY <1>1, SaveNewOrderInfoFacts
  <1>. QED  BY <1>2 DEF WithPostedOrder

(* The amounts an order moves are naturals.                                *)
LEMMA OrderAmounts ==
  ASSUME TypeOK, NEW m \in Markets, NEW o, o.qty \in Nat
  PROVE  LET p     == MarketParams[m]
             fills == Matches(p, markets[m].book, o)
             fee   == TakerFee(p.taker_rate, QuoteTraded(m, fills))
         IN  /\ BaseTraded(m, fills) \in Nat
             /\ QuoteTraded(m, fills) \in Nat
             /\ fee \in Nat
             /\ QuoteTraded(m, fills) - fee \in Nat
             /\ OpenQty(p, markets[m].book, o) \in Nat
PROOF
  <1> DEFINE p     == MarketParams[m]
             book  == markets[m].book
             fills == Matches(p, book, o)
  <1>1. BaseTraded(m, fills) \in Nat /\ QuoteTraded(m, fills) \in Nat
        BY MatchesAreFills, FillAmounts
  <1>2. p.taker_rate \in 0 .. FeeToBpsDivisor
        BY ParamsFacts
  <1>3. OpenQty(p, book, o) \in Nat
    <2>1. IsBook(book, prev_order_sequence_number) /\ prev_order_sequence_number \in Nat
          BY DEF TypeOK, IsMarket, IsBook
    <2>. QED  BY <2>1, OpenQtyFacts
  <1> HIDE DEF p, book, fills
  <1>4. TakerFee(p.taker_rate, QuoteTraded(m, fills)) \in Nat
        /\ TakerFee(p.taker_rate, QuoteTraded(m, fills)) <= QuoteTraded(m, fills)
        BY <1>1, <1>2, FeeBound
  <1>. QED  BY <1>1, <1>3, <1>4 DEF p, book, fills

(* The order internal_place_limit_buy makes.                               *)
LEMMA LimitBuyOrderFacts ==
  ASSUME NEW a \in Traders, NEW m \in Markets, NEW type \in TypesTried,
         NEW price \in Prices, NEW quantity \in Quantities,
         NEW max_spend \in Optional(MaxSpends)
  PROVE  LET o == LimitBuyOrder(a, m, type, price, quantity, max_spend)
         IN  /\ IsNewOrder(o) /\ o.owner = a /\ o.side = "Buy"
             /\ o.limit = {QuoteNativeToLots(MarketParams[m], price)}
PROOF
  <1> DEFINE p == MarketParams[m]
             o == LimitBuyOrder(a, m, type, price, quantity, max_spend)
  <1>2. /\ price \in Nat \ {0} /\ quantity \in Nat /\ type \in LimitOrderTypes
        /\ a \in Accounts
        BY InputAssumption
  <1>3. IsMarketParams(p) /\ p.taker_rate \in 0 .. FeeToBpsDivisor /\ p.base_lot \in Nat
        BY ParamsFacts DEF IsMarketParams
  <1>4. GetMaxBidDebit(p, price, quantity, max_spend) \in Nat
    <2>1. CASE max_spend = {}
          BY <1>2, <1>3, <2>1, LotsFacts DEF GetMaxBidDebit
    <2>2. CASE max_spend # {}
      <3>1. PICK x \in MaxSpends : max_spend = {x}
            BY <2>2 DEF Optional
      <3>2. (CHOOSE y \in max_spend : TRUE) = x
            BY <3>1
      <3>. QED  BY <2>2, <3>1, <3>2, InputAssumption DEF GetMaxBidDebit
    <2>. QED  BY <2>1, <2>2
  <1>5. /\ IsNewOrder(o) /\ o.owner = a /\ o.side = "Buy"
        /\ o.limit = {QuoteNativeToLots(p, price)}
    <2> DEFINE spend == WithholdTakerFee(p.taker_rate, GetMaxBidDebit(p, price, quantity, max_spend))
               lots == QuoteNativeToLots(p, spend)
               want == BaseNativeToLots(p, quantity)
               affordable == AffordableLots(p, lots, price)
               limit == QuoteNativeToLots(p, price)
    <2>1. spend \in Nat
          BY <1>3, <1>4, FeeBound DEF WithholdTakerFee, SaturatingSub
    <2> HIDE DEF spend
    <2>2. lots \in Nat /\ want \in Nat /\ limit \in Nat
          BY <1>2, <1>3, <2>1, LotsFacts
    <2> HIDE DEF lots
    <2>3. affordable \in Nat
          BY <1>2, <1>3, <2>2, LotsFacts
    <2>4. o = [owner |-> a, side |-> "Buy", type |-> type, limit |-> {limit},
               qty |-> IF want <= affordable THEN want ELSE affordable, quote |-> {lots}]
          BY DEF LimitBuyOrder, lots, spend
    <2> HIDE DEF o, want, affordable, limit
    <2>5. (CHOOSE l \in {limit} : TRUE) = limit
          OBVIOUS
    <2>6. o.owner = a /\ o.side = "Buy" /\ o.qty \in Nat /\ o.limit = {limit}
          BY <2>2, <2>3, <2>4
    <2>. QED  BY <1>2, <2>2, <2>5, <2>6 DEF IsNewOrder, Sides, limit
  <1>. QED  BY <1>5

(* internal_place_limit_buy                                                *)
LEMMA PlaceLimitBuyFacts ==
  ASSUME TypeOK, NEW a \in Traders, NEW m \in Markets, NEW type \in TypesTried,
         NEW price \in Prices, NEW quantity \in Quantities,
         NEW max_spend \in Optional(MaxSpends), NEW referrer,
         PlaceLimitBuy(a, m, type, price, quantity, max_spend, referrer)
  PROVE  TypeOK' /\ SomeOrderPlaced
PROOF
  <1> DEFINE p     == MarketParams[m]
             o     == LimitBuyOrder(a, m, type, price, quantity, max_spend)
             fills == Matches(p, markets[m].book, o)
             open  == OpenQty(p, markets[m].book, o)
             debit == LimitBuyDebit(m, o, price)
             credited == Deposit(accounts[a], p.base, BaseTraded(m, fills))
             debited  == Withdraw(credited, p.quote, debit)
             taker == WithPostedOrder(debited, m, open)
  <1>1. /\ a \in DOMAIN accounts
        /\ CanWithdraw(credited, p.quote, debit)
        /\ CanPost(debited, m, open)
        /\ ExecuteOrder(m, o, referrer, taker)
        BY DEF PlaceLimitBuy, CanPlaceOrder
  <1>2. /\ price \in Nat \ {0} /\ quantity \in Nat /\ type \in LimitOrderTypes
        /\ a \in Accounts
        BY InputAssumption
  <1>3. IsMarketParams(p) /\ p.quote \in Tokens /\ p.base \in Tokens
        /\ p.taker_rate \in 0 .. FeeToBpsDivisor /\ p.base_lot \in Nat
        BY ParamsFacts DEF IsMarketParams
  <1>5. IsNewOrder(o) /\ o.owner = a
        BY LimitBuyOrderFacts
  <1> HIDE DEF o
  <1>6. /\ BaseTraded(m, fills) \in Nat /\ QuoteTraded(m, fills) \in Nat /\ open \in Nat
        /\ TakerFee(p.taker_rate, QuoteTraded(m, fills)) \in Nat
        BY <1>5, OrderAmounts DEF IsNewOrder
  <1> HIDE DEF fills, open
  <1>7. debit \in Nat
    <2>1. QuoteValue(p, BaseLotsToNative(p, open), price) \in Nat
          BY <1>2, <1>3, <1>6, LotsFacts
    <2>. QED  BY <1>6, <2>1 DEF LimitBuyDebit, fills, open
  <1>8. IsAccount(credited) /\ credited.open = accounts[a].open
    <2>1. IsAccount(accounts[a])
          BY <1>1 DEF TypeOK
    <2>. QED  BY <1>3, <1>6, <2>1, DepositFacts
  <1> HIDE DEF credited, debit, p
  <1>9. IsAccount(debited) /\ debited.open = accounts[a].open
        BY <1>1, <1>3, <1>7, <1>8, WithdrawFacts
  <1> HIDE DEF debited
  <1>10. /\ IsAccount(taker)
         /\ taker.open = IF open > 0 THEN [accounts[a].open EXCEPT ![m] = @ \cup {NextSequence}]
                                     ELSE accounts[a].open
        BY <1>6, <1>9, WithPostedOrderFacts
  <1> HIDE DEF taker
  <1>11. TypeOK' /\ OrderPlaced(m, o, taker)
        BY <1>1, <1>5, <1>10, ExecuteOrderFacts
  <1>12. TakerLists(m, o, taker)
    <2>1. open > 0 => CanSaveNewOrder(accounts[a], m, p.max_orders)
          BY <1>1, <1>9 DEF CanPost, CanSaveNewOrder, p
    <2>. QED  BY <1>5, <1>10, <2>1 DEF TakerLists, open, p
  <1>. QED  BY <1>1, <1>5, <1>11, <1>12 DEF SomeOrderPlaced

(* The order internal_place_limit_sell makes.                              *)
LEMMA LimitSellOrderFacts ==
  ASSUME NEW a \in Traders, NEW m \in Markets, NEW type \in TypesTried,
         NEW price \in Prices, NEW quantity \in Quantities
  PROVE  LET o == LimitSellOrder(a, m, type, price, quantity)
         IN  IsNewOrder(o) /\ o.owner = a /\ o.side = "Sell"
PROOF
  <1> DEFINE p == MarketParams[m]
             o == LimitSellOrder(a, m, type, price, quantity)
  <1>2. price \in Nat /\ quantity \in Nat /\ type \in LimitOrderTypes /\ a \in Accounts
        BY InputAssumption
  <1>3. IsMarketParams(p)
        BY ParamsFacts
  <1>5. IsNewOrder(o) /\ o.owner = a /\ o.side = "Sell"
    <2> DEFINE want == BaseNativeToLots(p, quantity)
               limit == QuoteNativeToLots(p, price)
    <2>1. want \in Nat /\ limit \in Nat
          BY <1>2, <1>3, LotsFacts
    <2>2. o = [owner |-> a, side |-> "Sell", type |-> type, limit |-> {limit},
               qty |-> want, quote |-> {}]
          BY DEF LimitSellOrder
    <2> HIDE DEF o, want, limit
    <2>3. (CHOOSE l \in {limit} : TRUE) = limit
          OBVIOUS
    <2>4. o.owner = a /\ o.side = "Sell" /\ o.qty \in Nat /\ o.limit = {limit}
          BY <2>1, <2>2
    <2>. QED  BY <1>2, <2>1, <2>3, <2>4 DEF IsNewOrder, Sides
  <1>. QED  BY <1>5

(* internal_place_limit_sell                                               *)
LEMMA PlaceLimitSellFacts ==
  ASSUME TypeOK, NEW a \in Traders, NEW m \in Markets, NEW type \in TypesTried,
         NEW price \in Prices, NEW quantity \in Quantities, NEW referrer,
         PlaceLimitSell(a, m, type, price, quantity, referrer)
  PROVE  TypeOK' /\ SomeOrderPlaced
PROOF
  <1> DEFINE p     == MarketParams[m]
             o     == LimitSellOrder(a, m, type, price, quantity)
             fills == Matches(p, markets[m].book, o)
             open  == OpenQty(p, markets[m].book, o)
             traded == QuoteTraded(m, fills)
             debit == LimitSellDebit(m, o)
             credited == Deposit(accounts[a], p.quote, traded - TakerFee(p.taker_rate, traded))
             debited  == Withdraw(credited, p.base, debit)
             taker == WithPostedOrder(debited, m, open)
  <1>1. /\ a \in DOMAIN accounts
        /\ CanWithdraw(credited, p.base, debit)
        /\ CanPost(debited, m, open)
        /\ ExecuteOrder(m, o, referrer, taker)
        BY DEF PlaceLimitSell, CanPlaceOrder
  <1>2. price \in Nat /\ quantity \in Nat /\ type \in LimitOrderTypes /\ a \in Accounts
        BY InputAssumption
  <1>3. IsMarketParams(p) /\ p.quote \in Tokens /\ p.base \in Tokens
        BY ParamsFacts
  <1>5. IsNewOrder(o) /\ o.owner = a
        BY LimitSellOrderFacts
  <1> HIDE DEF o
  <1>6. /\ BaseTraded(m, fills) \in Nat /\ open \in Nat
        /\ traded - TakerFee(p.taker_rate, traded) \in Nat
        BY <1>5, OrderAmounts DEF IsNewOrder
  <1> HIDE DEF fills, open, traded
  <1>7. debit \in Nat
    <2>1. BaseLotsToNative(p, open) \in Nat
          BY <1>3, <1>6, LotsFacts
    <2>. QED  BY <1>6, <2>1 DEF LimitSellDebit, fills, open
  <1>8. IsAccount(credited) /\ credited.open = accounts[a].open
    <2>1. IsAccount(accounts[a])
          BY <1>1 DEF TypeOK
    <2>. QED  BY <1>3, <1>6, <2>1, DepositFacts
  <1> HIDE DEF credited, debit, p
  <1>9. IsAccount(debited) /\ debited.open = accounts[a].open
        BY <1>1, <1>3, <1>7, <1>8, WithdrawFacts
  <1> HIDE DEF debited
  <1>10. /\ IsAccount(taker)
         /\ taker.open = IF open > 0 THEN [accounts[a].open EXCEPT ![m] = @ \cup {NextSequence}]
                                     ELSE accounts[a].open
        BY <1>6, <1>9, WithPostedOrderFacts
  <1> HIDE DEF taker
  <1>11. TypeOK' /\ OrderPlaced(m, o, taker)
        BY <1>1, <1>5, <1>10, ExecuteOrderFacts
  <1>12. TakerLists(m, o, taker)
    <2>1. open > 0 => CanSaveNewOrder(accounts[a], m, p.max_orders)
          BY <1>1, <1>9 DEF CanPost, CanSaveNewOrder, p
    <2>. QED  BY <1>5, <1>10, <2>1 DEF TakerLists, open, p
  <1>. QED  BY <1>1, <1>5, <1>11, <1>12 DEF SomeOrderPlaced

(* The order internal_place_market_order makes.                            *)
LEMMA MarketOrderFacts ==
  ASSUME NEW a \in Traders, NEW m \in Markets, NEW side \in Sides,
         NEW quantity \in Quantities, NEW max_spend
  PROVE  LET o == MarketOrder(a, m, side, quantity, max_spend)
         IN  IsNewOrder(o) /\ o.owner = a /\ o.side = side /\ o.type = "Market"
PROOF
  <1> DEFINE p == MarketParams[m]
             o == MarketOrder(a, m, side, quantity, max_spend)
  <1>2. quantity \in Nat /\ a \in Accounts
        BY InputAssumption
  <1>3. IsMarketParams(p)
        BY ParamsFacts
  <1>5. IsNewOrder(o) /\ o.owner = a /\ o.side = side /\ o.type = "Market"
    <2>1. BaseNativeToLots(p, quantity) \in Nat
          BY <1>2, <1>3, LotsFacts
    <2>2. o.owner = a /\ o.side = side /\ o.qty = BaseNativeToLots(p, quantity) /\ o.type = "Market"
          BY DEF MarketOrder
    <2>. QED  BY <1>2, <2>1, <2>2 DEF IsNewOrder
  <1>. QED  BY <1>5

(* internal_place_market_order                                             *)
LEMMA PlaceMarketOrderFacts ==
  ASSUME TypeOK, NEW a \in Traders, NEW m \in Markets, NEW side \in Sides,
         NEW quantity \in Quantities, NEW max_spend, NEW referrer,
         PlaceMarketOrder(a, m, side, quantity, max_spend, referrer)
  PROVE  TypeOK' /\ SomeOrderPlaced
PROOF
  <1> DEFINE p      == MarketParams[m]
             o      == MarketOrder(a, m, side, quantity, max_spend)
             fills  == Matches(p, markets[m].book, o)
             open   == OpenQty(p, markets[m].book, o)
             traded == QuoteTraded(m, fills)
             debit  == MarketOrderDebit(m, o)
             input  == IF side = "Buy" THEN p.quote ELSE p.base
             output == IF side = "Buy" THEN p.base ELSE p.quote
             credit == IF side = "Buy" THEN BaseTraded(m, fills)
                                       ELSE traded - TakerFee(p.taker_rate, traded)
             debited == Withdraw(accounts[a], input, debit)
             taker == Deposit(debited, output, credit)
  <1>1. /\ a \in DOMAIN accounts
        /\ CanWithdraw(accounts[a], input, debit)
        /\ ExecuteOrder(m, o, referrer, taker)
        BY DEF PlaceMarketOrder, CanPlaceOrder
  <1>2. quantity \in Nat /\ a \in Accounts
        BY InputAssumption
  <1>3. IsMarketParams(p) /\ input \in Tokens /\ output \in Tokens
        BY ParamsFacts
  <1>5. IsNewOrder(o) /\ o.owner = a /\ o.type = "Market"
        BY MarketOrderFacts
  <1>6. /\ BaseTraded(m, fills) \in Nat /\ traded \in Nat
        /\ TakerFee(p.taker_rate, traded) \in Nat
        /\ traded - TakerFee(p.taker_rate, traded) \in Nat
        BY <1>5, OrderAmounts DEF IsNewOrder
  <1>7. debit \in Nat /\ credit \in Nat
        BY <1>6 DEF MarketOrderDebit
  <1>8. ~ (open > 0)
    <2>1. IsBook(markets[m].book, prev_order_sequence_number) /\ prev_order_sequence_number \in Nat
          BY DEF TypeOK, IsMarket, IsBook
    <2>2. open > 0 => o.type \in {"Limit", "PostOnly"}
          BY <1>5, <2>1, OpenQtyFacts DEF IsNewOrder
    <2>. QED  BY <1>5, <2>2
  <1> HIDE DEF o, fills, open, traded, debit, credit, input, output, p
  <1>9. IsAccount(debited) /\ debited.open = accounts[a].open
    <2>1. IsAccount(accounts[a])
          BY <1>1 DEF TypeOK
    <2>. QED  BY <1>1, <1>3, <1>7, <2>1, WithdrawFacts
  <1> HIDE DEF debited
  <1>10. IsAccount(taker) /\ taker.open = accounts[a].open
        BY <1>3, <1>7, <1>9, DepositFacts
  <1> HIDE DEF taker
  <1>11. TypeOK' /\ OrderPlaced(m, o, taker)
        BY <1>1, <1>5, <1>10, ExecuteOrderFacts
  <1>12. TakerLists(m, o, taker)
        BY <1>5, <1>8, <1>10 DEF TakerLists, open, p
  <1>. QED  BY <1>1, <1>5, <1>11, <1>12 DEF SomeOrderPlaced

(* new_order                                                               *)
LEMMA NewOrderFacts ==
  ASSUME TypeOK, NEW m \in Markets, NewOrder(m)
  PROVE  TypeOK' /\ SomeOrderPlaced
PROOF
  <1>1. CASE NewLimitBuy(m)
    <2>1. PICK a \in Traders, type \in TypesTried, price \in Prices,
               quantity \in Quantities, max_spend \in Optional(MaxSpends),
               referrer \in Optional(Referrers) :
            PlaceLimitBuy(a, m, type, price, quantity, max_spend, referrer)
          BY <1>1 DEF NewLimitBuy, LimitBuyBy
    <2>. QED  BY <2>1, PlaceLimitBuyFacts
  <1>2. CASE NewLimitSell(m)
    <2>1. PICK a \in Traders, type \in TypesTried, price \in Prices,
               quantity \in Quantities, referrer \in Optional(Referrers) :
            PlaceLimitSell(a, m, type, price, quantity, referrer)
          BY <1>2 DEF NewLimitSell, LimitSellBy
    <2>. QED  BY <2>1, PlaceLimitSellFacts
  <1>3. CASE NewMarketOrder(m)
    <2>1. PICK a \in Traders, side \in Sides, quantity \in Quantities,
               max_spend \in Optional(MaxSpends), referrer \in Optional(Referrers) :
            PlaceMarketOrder(a, m, side, quantity, max_spend, referrer)
          BY <1>3 DEF NewMarketOrder, MarketOrderBy
    <2>. QED  BY <2>1, PlaceMarketOrderFacts
  <1>. QED  BY <1>1, <1>2, <1>3 DEF NewOrder

-----------------------------------------------------------------------------
(* What cancelling the orders in ids of market m does to the state.        *)
OrdersCancelled(m, ids) ==
  LET book == markets[m].book
  IN  /\ prev_order_sequence_number' = prev_order_sequence_number
      /\ DOMAIN accounts' = DOMAIN accounts
      /\ markets'[m].book = RemoveOrders(book, ids)
      /\ \A k \in Markets \ {m} : markets'[k].book = markets[k].book
      /\ \A b \in DOMAIN accounts :
           /\ \A k \in Markets \ {m} : accounts'[b].open[k] = accounts[b].open[k]
           /\ accounts'[b].open[m] \subseteq accounts[b].open[m]
           /\ \A i \in accounts[b].open[m] \cap DOMAIN book :
                book[i].owner = b => (i \in accounts'[b].open[m] <=> i \notin ids)
           /\ accounts'[b] = accounts[b] \/ IsStorageCovered(accounts'[b])

SomeOrdersCancelled == \E m \in Markets : \E ids : OrdersCancelled(m, ids)

(* Refunds keep an account well formed and strike exactly the cancelled    *)
(* orders (process_refunds).                                               *)
LEMMA RefundedFacts ==
  ASSUME TypeOK, NEW m \in Markets, NEW acc, IsAccount(acc),
         NEW ids \in SUBSET DOMAIN markets[m].book
  PROVE  /\ IsAccount(Refunded(acc, m, ids))
         /\ Refunded(acc, m, ids).open = [acc.open EXCEPT ![m] = @ \ ids]
PROOF
  <1> DEFINE p    == MarketParams[m]
             book == markets[m].book
             back(side) == {i \in ids : book[i].side = side}
             due(side)  == SumFunction([i \in back(side) |-> GetRefundAmount(p, book[i])])
             paid(x, side, token) == IF back(side) = {} THEN x ELSE Deposit(x, token, due(side))
             sells == paid(acc, "Sell", p.base)
             all == paid(sells, "Buy", p.quote)
  <1>1. IsBook(book, prev_order_sequence_number) /\ prev_order_sequence_number \in Nat
        BY DEF TypeOK, IsMarket, IsBook
  <1>2. IsMarketParams(p) /\ p.quote \in Tokens /\ p.base \in Tokens
        BY ParamsFacts
  <1>3. \A i \in ids : GetRefundAmount(p, book[i]) \in Nat
    <2> TAKE i \in ids
    <2>1. book[i].qty \in Nat /\ book[i].price \in Nat
          BY <1>1, BookFinite DEF RestingOrder
    <2>. QED  BY <1>2, <2>1, LotsFacts DEF GetRefundAmount
  <1>4. \A S \in SUBSET ids : IsFiniteSet(S)
        BY <1>1, BookFinite
  <1>5. \A side : due(side) \in Nat
    <2> TAKE side
    <2> DEFINE f == [i \in back(side) |-> GetRefundAmount(p, book[i])]
    <2>1. back(side) \in SUBSET ids /\ DOMAIN f = back(side)
          OBVIOUS
    <2>2. \A i \in back(side) : f[i] \in Nat
          BY <1>3
    <2> HIDE DEF f, back
    <2>3. SumFunctionOnSet(f, back(side)) \in Nat
          BY <1>4, <2>1, <2>2, SumNat
    <2>. QED  BY <2>1, <2>3 DEF SumFunction, f
  <1>6. PaidBack(acc, m, ids) = all
        BY DEF PaidBack
  <1> HIDE DEF back, due, p
  <1>7. IsAccount(sells) /\ sells.open = acc.open
        BY <1>2, <1>5, DepositFacts
  <1> HIDE DEF sells
  <1>8. IsAccount(all) /\ all.open = acc.open
        BY <1>2, <1>5, <1>7, DepositFacts
  <1> HIDE DEF all
  <1>9. Refunded(acc, m, ids) = RemoveOrderInfos(all, m, ids)
        BY <1>6 DEF Refunded
  <1>. QED  BY <1>8, <1>9, RemoveOrderInfosFacts

(* Storing well formed accounts and a book without the cancelled orders    *)
(* keeps the types.                                                        *)
LEMMA CommitCancelsFacts ==
  ASSUME TypeOK, NEW m \in Markets, NEW ids, NEW refunded,
         refunded = [b \in DOMAIN accounts |-> refunded[b]],
         \A b \in DOMAIN accounts : IsAccount(refunded[b]),
         CommitCancels(m, ids, refunded)
  PROVE  /\ TypeOK'
         /\ accounts' = refunded
         /\ prev_order_sequence_number' = prev_order_sequence_number
         /\ markets'[m].book = RemoveOrders(markets[m].book, ids)
         /\ \A k \in Markets \ {m} : markets'[k].book = markets[k].book
PROOF
  <1> DEFINE n == prev_order_sequence_number
             new == RemoveOrders(markets[m].book, ids)
  <1>1. /\ accounts' = refunded
        /\ markets' = [markets EXCEPT ![m].book = new]
        /\ contract_state' = contract_state /\ n' = n
        BY DEF CommitCancels
  <1>2. /\ markets = [k \in Markets |-> markets[k]]
        /\ \A k \in Markets : IsMarket(markets[k], n)
        /\ n \in Nat
        BY DEF TypeOK
  <1>3. IsBook(new, n)
        BY <1>2, RemoveOrdersFacts DEF IsMarket, IsBook
  <1> HIDE DEF new
  <1>4. /\ markets' = [k \in Markets |-> markets'[k]]
        /\ \A k \in Markets \ {m} : markets'[k] = markets[k]
        /\ markets'[m] = [markets[m] EXCEPT !.book = new]
        BY <1>1, <1>2
  <1>5. markets'[m].book = new /\ IsMarket(markets'[m], n)
        BY <1>2, <1>3, <1>4 DEF IsMarket, IsBook
  <1>6. TypeOK'
        BY <1>1, <1>2, <1>4, <1>5 DEF TypeOK
  <1>. QED  BY <1>1, <1>4, <1>5, <1>6 DEF new

(* internal_cancel_order                                                   *)
LEMMA InternalCancelOrderFacts ==
  ASSUME TypeOK, NEW a, NEW m \in Markets, NEW id, InternalCancelOrder(a, m, id)
  PROVE  TypeOK' /\ SomeOrdersCancelled
PROOF
  <1> DEFINE refunded == [accounts EXCEPT ![a] = Refunded(accounts[a], m, {id})]
  <1>1. /\ a \in DOMAIN accounts
        /\ id \in DOMAIN markets[m].book
        /\ markets[m].book[id].owner = a
        /\ IsStorageCovered(Refunded(accounts[a], m, {id}))
        /\ CommitCancels(m, {id}, refunded)
        BY DEF InternalCancelOrder
  <1>2. /\ IsAccount(accounts[a])
        /\ accounts = [b \in DOMAIN accounts |-> accounts[b]]
        /\ \A b \in DOMAIN accounts : IsAccount(accounts[b])
        BY <1>1 DEF TypeOK
  <1>3. /\ IsAccount(Refunded(accounts[a], m, {id}))
        /\ Refunded(accounts[a], m, {id}).open = [accounts[a].open EXCEPT ![m] = @ \ {id}]
        BY <1>1, <1>2, RefundedFacts
  <1>4. /\ refunded = [b \in DOMAIN accounts |-> refunded[b]]
        /\ refunded[a] = Refunded(accounts[a], m, {id})
        /\ \A b \in DOMAIN accounts \ {a} : refunded[b] = accounts[b]
        BY <1>1, <1>2
  <1> HIDE DEF refunded
  <1>5. \A b \in DOMAIN accounts : IsAccount(refunded[b])
        BY <1>2, <1>3, <1>4
  <1>6. /\ TypeOK'
        /\ accounts' = refunded
        /\ prev_order_sequence_number' = prev_order_sequence_number
        /\ markets'[m].book = RemoveOrders(markets[m].book, {id})
        /\ \A k \in Markets \ {m} : markets'[k].book = markets[k].book
        BY <1>1, <1>4, <1>5, CommitCancelsFacts
  <1>7. \A b \in DOMAIN accounts : accounts[b].open \in [Markets -> SUBSET Nat]
        BY <1>2 DEF IsAccount
  <1>8. \A b \in DOMAIN accounts :
           /\ \A k \in Markets \ {m} : refunded[b].open[k] = accounts[b].open[k]
           /\ refunded[b].open[m] = accounts[b].open[m] \ (IF b = a THEN {id} ELSE {})
        BY <1>3, <1>4, <1>7
  <1>9. OrdersCancelled(m, {id})
    <2>1. \A b \in DOMAIN accounts : refunded[b] = accounts[b] \/ IsStorageCovered(refunded[b])
          BY <1>1, <1>4
    <2>. QED  BY <1>1, <1>4, <1>6, <1>8, <2>1 DEF OrdersCancelled
  <1>. QED  BY <1>6, <1>9 DEF SomeOrdersCancelled

(* internal_cancel_all_orders                                              *)
LEMMA InternalCancelAllOrdersFacts ==
  ASSUME TypeOK, NEW a, NEW m \in Markets, InternalCancelAllOrders(a, m)
  PROVE  TypeOK' /\ SomeOrdersCancelled
PROOF
  <1> DEFINE listed == accounts[a].open[m]
             found  == listed \cap DOMAIN markets[m].book
             first  == Refunded(accounts[a], m, found)
             after  == RemoveOrderInfos(first, m, listed)
             refunded == [accounts EXCEPT ![a] = after]
  <1>1. /\ a \in DOMAIN accounts
        /\ \A i \in found : markets[m].book[i].owner = a
        /\ IsStorageCovered(after)
        /\ CommitCancels(m, found, refunded)
        BY DEF InternalCancelAllOrders
  <1>2. /\ IsAccount(accounts[a])
        /\ accounts = [b \in DOMAIN accounts |-> accounts[b]]
        /\ \A b \in DOMAIN accounts : IsAccount(accounts[b])
        BY <1>1 DEF TypeOK
  <1>3. IsAccount(first) /\ first.open = [accounts[a].open EXCEPT ![m] = @ \ found]
        BY <1>2, RefundedFacts
  <1> HIDE DEF first
  <1>4. IsAccount(after) /\ after.open = [first.open EXCEPT ![m] = @ \ listed]
        BY <1>3, RemoveOrderInfosFacts
  <1>5. \A b \in DOMAIN accounts : accounts[b].open \in [Markets -> SUBSET Nat]
        BY <1>2 DEF IsAccount
  <1>6. /\ \A k \in Markets \ {m} : after.open[k] = accounts[a].open[k]
        /\ after.open[m] = {}
        BY <1>1, <1>3, <1>4, <1>5
  <1> HIDE DEF after
  <1>7. /\ refunded = [b \in DOMAIN accounts |-> refunded[b]]
        /\ refunded[a] = after
        /\ \A b \in DOMAIN accounts \ {a} : refunded[b] = accounts[b]
        BY <1>1, <1>2
  <1> HIDE DEF refunded, found
  <1>8. \A b \in DOMAIN accounts : IsAccount(refunded[b])
        BY <1>2, <1>4, <1>7
  <1>9. /\ TypeOK'
        /\ accounts' = refunded
        /\ prev_order_sequence_number' = prev_order_sequence_number
        /\ markets'[m].book = RemoveOrders(markets[m].book, found)
        /\ \A k \in Markets \ {m} : markets'[k].book = markets[k].book
        BY <1>1, <1>7, <1>8, CommitCancelsFacts
  <1>10. \A b \in DOMAIN accounts :
           /\ \A k \in Markets \ {m} : refunded[b].open[k] = accounts[b].open[k]
           /\ refunded[b].open[m] = IF b = a THEN {} ELSE accounts[b].open[m]
        BY <1>6, <1>7
  <1>11. OrdersCancelled(m, found)
    <2>1. \A b \in DOMAIN accounts : refunded[b] = accounts[b] \/ IsStorageCovered(refunded[b])
          BY <1>1, <1>7
    <2>. QED  BY <1>1, <1>7, <1>9, <1>10, <2>1 DEF OrdersCancelled, found
  <1>. QED  BY <1>9, <1>11 DEF SomeOrdersCancelled

(* admin_clear_orderbook                                                   *)
LEMMA AdminClearOrderbookFacts ==
  ASSUME TypeOK, NEW m \in Markets, NEW limit \in Nat, AdminClearOrderbook(m, limit)
  PROVE  TypeOK' /\ SomeOrdersCancelled
PROOF
  <1> DEFINE book  == markets[m].book
             upto(i) == {j \in DOMAIN book : j = i \/ IteratedBefore(book, j, i)}
             ids   == {i \in DOMAIN book : Cardinality(upto(i)) <= limit}
             ownedBy(a, S) == {i \in S : book[i].owner = a}
             refunded == [a \in DOMAIN accounts |->
                            IF ownedBy(a, ids) = {} THEN accounts[a]
                            ELSE Refunded(accounts[a], m, ownedBy(a, ids))]
  <1>1. /\ CommitCancels(m, ids, refunded)
        /\ \A i \in ids : IsStorageCovered(
             Refunded(accounts[book[i].owner], m, ownedBy(book[i].owner, upto(i))))
        BY DEF AdminClearOrderbook
  <1>11. IsBook(book, prev_order_sequence_number) /\ prev_order_sequence_number \in Nat
        BY DEF TypeOK, IsMarket, IsBook
  <1>12. \A i \in ids : upto(i) \subseteq ids
    <2> SUFFICES ASSUME NEW i \in ids, NEW j \in upto(i) PROVE j \in ids
        OBVIOUS
    <2>1. upto(j) \subseteq upto(i)
          BY <1>11, IterationOrder
    <2>2. upto(i) \subseteq DOMAIN book /\ Cardinality(upto(i)) <= limit
          OBVIOUS
    <2> HIDE DEF upto
    <2>3. IsFiniteSet(upto(i)) /\ IsFiniteSet(upto(j))
          BY <1>11, <2>1, <2>2, BookFinite
    <2>4. Cardinality(upto(j)) <= Cardinality(upto(i))
          BY <2>1, <2>3, FS_Subset
    <2>5. Cardinality(upto(i)) \in Nat /\ Cardinality(upto(j)) \in Nat
          BY <2>3, FS_CardinalityType
    <2>6. Cardinality(upto(j)) <= limit
          BY <2>2, <2>4, <2>5
    <2>7. j \in DOMAIN book
          BY DEF upto
    <2>. QED  BY <2>6, <2>7
  <1>2. \A b \in DOMAIN accounts :
          IsAccount(accounts[b]) /\ accounts[b].open \in [Markets -> SUBSET Nat]
        BY DEF TypeOK, IsAccount
  <1>3. ids \subseteq DOMAIN book
        OBVIOUS
  <1>13. ASSUME NEW b \in DOMAIN accounts, ownedBy(b, ids) # {}
        PROVE  IsStorageCovered(Refunded(accounts[b], m, ownedBy(b, ids)))
    <2>1. ownedBy(b, ids) \in SUBSET DOMAIN book
          OBVIOUS
    <2>2. PICK i \in ownedBy(b, ids) : \A j \in ownedBy(b, ids) : j = i \/ IteratedBefore(book, j, i)
          BY <1>11, <1>13, <2>1, LastIterated
    <2>3. i \in ids /\ book[i].owner = b
          OBVIOUS
    <2>4. ownedBy(b, upto(i)) \subseteq ownedBy(b, ids)
          BY <1>12, <2>3
    <2>5. ownedBy(b, ids) \subseteq ownedBy(b, upto(i))
          BY <2>2
    <2>6. ownedBy(b, upto(i)) = ownedBy(b, ids)
          BY <2>4, <2>5
    <2> HIDE DEF ids, upto, ownedBy
    <2>. QED  BY <1>1, <2>3, <2>6
  <1> HIDE DEF ids
  <1>4. \A b \in DOMAIN accounts :
          /\ IsAccount(Refunded(accounts[b], m, ownedBy(b, ids)))
          /\ Refunded(accounts[b], m, ownedBy(b, ids)).open
               = [accounts[b].open EXCEPT ![m] = @ \ ownedBy(b, ids)]
        BY <1>2, <1>3, RefundedFacts
  <1>5. \A b \in DOMAIN accounts :
          refunded[b] = IF ownedBy(b, ids) = {} THEN accounts[b]
                        ELSE Refunded(accounts[b], m, ownedBy(b, ids))
        OBVIOUS
  <1>6. refunded = [b \in DOMAIN accounts |-> refunded[b]]
        OBVIOUS
  <1> HIDE DEF refunded, ownedBy
  <1>7. \A b \in DOMAIN accounts : IsAccount(refunded[b])
        BY <1>2, <1>4, <1>5
  <1>8. /\ TypeOK'
        /\ accounts' = refunded
        /\ prev_order_sequence_number' = prev_order_sequence_number
        /\ markets'[m].book = RemoveOrders(markets[m].book, ids)
        /\ \A k \in Markets \ {m} : markets'[k].book = markets[k].book
        BY <1>1, <1>6, <1>7, CommitCancelsFacts
  <1>9. \A b \in DOMAIN accounts :
           /\ \A k \in Markets \ {m} : refunded[b].open[k] = accounts[b].open[k]
           /\ refunded[b].open[m] = accounts[b].open[m] \ ownedBy(b, ids)
    <2> TAKE b \in DOMAIN accounts
    <2>1. accounts[b].open \in [Markets -> SUBSET Nat]
          BY <1>2
    <2>2. CASE ownedBy(b, ids) = {}
          BY <2>1, <2>2, <1>5
    <2>3. CASE ownedBy(b, ids) # {}
      <3>1. refunded[b].open = [accounts[b].open EXCEPT ![m] = @ \ ownedBy(b, ids)]
            BY <2>3, <1>4, <1>5
      <3>. QED  BY <2>1, <3>1
    <2>. QED  BY <2>2, <2>3
  <1>10. OrdersCancelled(m, ids)
    <2>1. DOMAIN accounts' = DOMAIN accounts
          BY <1>6, <1>8
    <2>2. \A b, i : i \in ownedBy(b, ids) <=> i \in ids /\ book[i].owner = b
          BY DEF ownedBy
    <2>3. \A b \in DOMAIN accounts : refunded[b] = accounts[b] \/ IsStorageCovered(refunded[b])
          BY <1>13, <1>5
    <2>. QED  BY <1>8, <1>9, <2>1, <2>2, <2>3 DEF OrdersCancelled
  <1>. QED  BY <1>8, <1>10 DEF SomeOrdersCancelled

-----------------------------------------------------------------------------
(* The owner's switches leave accounts and books alone.                    *)
OnlySwitched ==
  /\ accounts' = accounts
  /\ prev_order_sequence_number' = prev_order_sequence_number
  /\ \A m \in Markets : markets'[m].book = markets[m].book

(* Changing a market's switches keeps the types and the books.             *)
LEMMA MarketSwitchFacts ==
  ASSUME TypeOK, NEW m \in Markets, NEW market, market.book = markets[m].book,
         IsMarket(market, prev_order_sequence_number),
         markets' = [markets EXCEPT ![m] = market],
         UNCHANGED <<contract_state, accounts, prev_order_sequence_number>>
  PROVE  TypeOK' /\ OnlySwitched
PROOF
  <1>1. /\ markets' = [k \in Markets |-> markets'[k]]
        /\ markets'[m] = market
        /\ \A k \in Markets \ {m} : markets'[k] = markets[k]
        BY DEF TypeOK
  <1>. QED  BY <1>1 DEF TypeOK, OnlySwitched

(* What the owner does to a market either cancels orders or flips a        *)
(* switch.                                                                 *)
LEMMA AdminFacts ==
  ASSUME TypeOK, NEW m \in Markets, Admin(m)
  PROVE  TypeOK' /\ (SomeOrdersCancelled \/ OnlySwitched)
PROOF
  <1>1. /\ IsMarket(markets[m], prev_order_sequence_number)
        /\ markets = [k \in Markets |-> markets[k]]
        BY DEF TypeOK
  <1>2. ASSUME NEW id, AdminCancelOrder(m, id)
        PROVE  TypeOK' /\ SomeOrdersCancelled
        BY <1>2, InternalCancelOrderFacts DEF AdminCancelOrder
  <1>3. ASSUME NEW a, AdminCancelAllUserOrders(a, m)
        PROVE  TypeOK' /\ SomeOrdersCancelled
        BY <1>3, InternalCancelAllOrdersFacts DEF AdminCancelAllUserOrders
  <1>4. ASSUME NEW limit \in 0 .. MaxSequence, AdminClearOrderbook(m, limit)
        PROVE  TypeOK' /\ SomeOrdersCancelled
        BY <1>4, InputAssumption, AdminClearOrderbookFacts
  <1>5. ASSUME NEW state \in MarketStatesTried, SetMarketState(m, state)
        PROVE  TypeOK' /\ OnlySwitched
    <2> DEFINE market == [markets[m] EXCEPT !.state = state]
    <2>1. IsMarket(market, prev_order_sequence_number) /\ market.book = markets[m].book
          BY <1>1, InputAssumption DEF IsMarket, MarketStates
    <2>2. markets' = [markets EXCEPT ![m] = market]
          BY <1>5, <1>1 DEF SetMarketState
    <2>. QED  BY <1>5, <2>1, <2>2, MarketSwitchFacts DEF SetMarketState
  <1>6. ASSUME NEW bps \in BidWindows, SetMarketBidWindow(m, bps)
        PROVE  TypeOK' /\ OnlySwitched
    <2> DEFINE market == [markets[m] EXCEPT !.minimum_bid_bps = bps]
    <2>1. IsMarket(market, prev_order_sequence_number) /\ market.book = markets[m].book
          BY <1>1 DEF IsMarket
    <2>2. markets' = [markets EXCEPT ![m] = market]
          BY <1>6, <1>1 DEF SetMarketBidWindow
    <2>. QED  BY <1>6, <2>1, <2>2, MarketSwitchFacts DEF SetMarketBidWindow
  <1>7. ASSUME NEW bps \in AskWindows, SetMarketAskWindow(m, bps)
        PROVE  TypeOK' /\ OnlySwitched
    <2> DEFINE market == [markets[m] EXCEPT !.maximum_ask_bps = bps]
    <2>1. IsMarket(market, prev_order_sequence_number) /\ market.book = markets[m].book
          BY <1>1 DEF IsMarket
    <2>2. markets' = [markets EXCEPT ![m] = market]
          BY <1>7, <1>1 DEF SetMarketAskWindow
    <2>. QED  BY <1>7, <2>1, <2>2, MarketSwitchFacts DEF SetMarketAskWindow
  <1>. QED  BY <1>2, <1>3, <1>4, <1>5, <1>6, <1>7 DEF Admin

(* Every step places an order, cancels orders or flips a switch, and keeps *)
(* the types.                                                              *)
LEMMA StepFacts ==
  ASSUME TypeOK, Next
  PROVE  TypeOK' /\ (SomeOrderPlaced \/ SomeOrdersCancelled \/ OnlySwitched)
PROOF
  <1>1. CASE Switch
    <2>1. PICK state \in ContractStatesTried : SetContractState(state)
          BY <1>1 DEF Switch
    <2>. QED  BY <2>1, InputAssumption DEF SetContractState, TypeOK, OnlySwitched, ContractStates
  <1>2. ASSUME NEW m \in Markets, NewOrder(m) PROVE TypeOK' /\ SomeOrderPlaced
        BY <1>2, NewOrderFacts
  <1>3. ASSUME NEW m \in Markets, Cancel(m) PROVE TypeOK' /\ SomeOrdersCancelled
        BY <1>3, InternalCancelOrderFacts, InternalCancelAllOrdersFacts
        DEF Cancel, CancelOrder, CancelAllOrders
  <1>4. ASSUME NEW m \in Markets, Admin(m)
        PROVE  TypeOK' /\ (SomeOrdersCancelled \/ OnlySwitched)
        BY <1>4, AdminFacts
  <1>. QED  BY <1>1, <1>2, <1>3, <1>4 DEF Next

-----------------------------------------------------------------------------
(* The initial states have the right types.                                *)
LEMMA InitTypeOK ==
  ASSUME Init
  PROVE  TypeOK
PROOF
  <1>1. /\ accounts = [a \in DOMAIN accounts |-> accounts[a]]
        /\ \A a \in DOMAIN accounts : IsAccount(accounts[a])
        /\ DOMAIN accounts \subseteq Accounts
        BY InitialAccountsAssumption DEF Init
  <1>2. \A m \in Markets : IsMarket(markets[m], 0)
    <2> TAKE m \in Markets
    <2>1. markets[m] \in [state : {"Active"}, book : {EmptyBook}, fees_accrued : {0},
                          minimum_bid_bps : BidWindows, maximum_ask_bps : AskWindows]
          BY DEF Init
    <2>2. IsPartialFunction(EmptyBook, 1 .. 0, RestingOrder)
          BY DEF EmptyBook, IsPartialFunction
    <2>. QED  BY <2>1, <2>2 DEF IsMarket, MarketStates
  <1>3. markets = [m \in Markets |-> markets[m]]
        BY DEF Init
  <1>. QED  BY <1>1, <1>2, <1>3 DEF Init, TypeOK, ContractStates

(* Balances, fees and resting quantities are naturals and books are well   *)
(* formed in every reachable state: no fee, debit or fill is ever larger   *)
(* than what it is taken from.                                             *)
THEOREM TypeCorrect == Spec => []TypeOK
PROOF
  <1>1. Init => TypeOK
        BY InitTypeOK
  <1>2. TypeOK /\ [Next]_vars => TypeOK'
    <2>1. TypeOK /\ Next => TypeOK'
          BY StepFacts
    <2>2. TypeOK /\ UNCHANGED vars => TypeOK'
          BY DEF TypeOK, vars
    <2>. QED  BY <2>1, <2>2
  <1>. QED  BY <1>1, <1>2, PTL DEF Spec

-----------------------------------------------------------------------------
(* The book of the market an order is placed in, before and after.         *)
LEMMA BookWhenPlaced ==
  ASSUME TypeOK, NEW m \in Markets, NEW o, NEW taker, IsNewOrder(o), OrderPlaced(m, o, taker)
  PROVE  LET p    == MarketParams[m]
             book == markets[m].book
         IN  OrderJoined(markets'[m].book, book, o, Matches(p, book, o), OpenQty(p, book, o),
                         prev_order_sequence_number + 1)
PROOF
  <1> DEFINE n    == prev_order_sequence_number
             p    == MarketParams[m]
             book == markets[m].book
  <1>1. n \in Nat
        BY DEF TypeOK
  <1>2. IsBook(book, n)
        BY DEF TypeOK, IsMarket, IsBook
  <1>3. markets'[m].book = BookAfter(p, book, o, n + 1)
        BY DEF OrderPlaced, NextSequence
  <1> HIDE DEF n, p, book
  <1>4. OrderJoined(BookAfter(p, book, o, n + 1), book, o,
                    Matches(p, book, o), OpenQty(p, book, o), n + 1)
        BY <1>1, <1>2, BookAfterFacts
  <1>. QED  BY <1>3, <1>4 DEF n, p, book

(* Placing an order keeps the lists of the accounts in step with the book: *)
(* makers lose what was filled, the taker gains what was posted.           *)
LEMMA BooksMatchWhenPlaced ==
  ASSUME TypeOK, BooksMatchAccounts, SomeOrderPlaced
  PROVE  BooksMatchAccounts'
PROOF
  <1>0. PICK m \in Markets : \E o, taker :
          /\ IsNewOrder(o) /\ o.owner \in DOMAIN accounts
          /\ OrderPlaced(m, o, taker) /\ TakerLists(m, o, taker)
        BY DEF SomeOrderPlaced
  <1>1. PICK o, taker :
          /\ IsNewOrder(o) /\ o.owner \in DOMAIN accounts
          /\ OrderPlaced(m, o, taker) /\ TakerLists(m, o, taker)
        BY <1>0
  <1> DEFINE n     == prev_order_sequence_number
             p     == MarketParams[m]
             book  == markets[m].book
             fills == Matches(p, book, o)
             open  == OpenQty(p, book, o)
             new   == markets'[m].book
             full  == FullyFilled(book, fills)
  <1>2. n \in Nat /\ IsBook(book, n) /\ NextSequence = n + 1
        BY DEF TypeOK, IsMarket, IsBook, NextSequence
  <1>3. \A b \in DOMAIN accounts : accounts[b].open \in [Markets -> SUBSET Nat]
        BY DEF TypeOK, IsAccount
  <1>4. /\ DOMAIN accounts' = DOMAIN accounts
        /\ accounts'[o.owner] = taker
        /\ \A b \in DOMAIN accounts \ {o.owner} :
             accounts'[b].open = [accounts[b].open EXCEPT ![m] = @ \ FilledOf(m, fills, b, DOMAIN fills)]
        /\ new = BookAfter(p, book, o, n + 1)
        /\ \A k \in Markets \ {m} : markets'[k].book = markets[k].book
        /\ \A i \in DOMAIN fills : book[i].owner # o.owner
        BY <1>1, <1>2 DEF OrderPlaced, IsSelfTrade
  <1>5. /\ DOMAIN new = (DOMAIN book \ full) \cup (IF open > 0 THEN {n + 1} ELSE {})
        /\ open > 0 => new[n + 1].owner = o.owner
        /\ \A i \in DOMAIN new \ {n + 1} : i \in DOMAIN book /\ new[i].owner = book[i].owner
    <2>1. OrderJoined(new, book, o, fills, open, n + 1)
          BY <1>1, BookWhenPlaced
    <2>. QED  BY <2>1 DEF OrderJoined
  <1>6. DOMAIN book \subseteq 1 .. n /\ n + 1 \notin DOMAIN book
        BY <1>2, BookFinite
  <1>7. full \subseteq DOMAIN fills
        BY DEF FullyFilled
  <1>8. \A b : FilledOf(m, fills, b, DOMAIN fills) = {i \in full : book[i].owner = b}
        BY <1>7 DEF FilledOf
  <1>9. taker.open = IF open > 0 THEN [accounts[o.owner].open EXCEPT ![m] = @ \cup {n + 1}]
                                 ELSE accounts[o.owner].open
        BY <1>1, <1>2 DEF TakerLists
  <1>10. /\ \A k \in Markets : \A i \in DOMAIN markets[k].book : markets[k].book[i].owner \in DOMAIN accounts
         /\ \A k \in Markets, b \in DOMAIN accounts :
              accounts[b].open[k] = {i \in DOMAIN markets[k].book : markets[k].book[i].owner = b}
        BY DEF BooksMatchAccounts
  <1>11. ASSUME NEW k \in Markets \ {m}
         PROVE  /\ \A i \in DOMAIN markets'[k].book : markets'[k].book[i].owner \in DOMAIN accounts'
                /\ \A b \in DOMAIN accounts' :
                     accounts'[b].open[k] = {i \in DOMAIN markets'[k].book : markets'[k].book[i].owner = b}
    <2>1. \A b \in DOMAIN accounts : accounts'[b].open[k] = accounts[b].open[k]
      <3> TAKE b \in DOMAIN accounts
      <3>1. accounts[b].open \in [Markets -> SUBSET Nat]
            BY <1>3
      <3>2. CASE b = o.owner
        <4>1. accounts'[b].open = taker.open
              BY <3>2, <1>4
        <4>. QED  BY <4>1, <3>1, <3>2, <1>9, <1>11
      <3>3. CASE b # o.owner
        <4>1. accounts'[b].open = [accounts[b].open EXCEPT ![m] = @ \ FilledOf(m, fills, b, DOMAIN fills)]
              BY <3>3, <1>4
        <4>. QED  BY <4>1, <3>1, <1>11
      <3>. QED  BY <3>2, <3>3
    <2>. QED  BY <2>1, <1>4, <1>10, <1>11
  <1> HIDE DEF book, fills, open, new, full
  <1>12. \A i \in DOMAIN new : new[i].owner \in DOMAIN accounts'
    <2>1. \A i \in DOMAIN book : book[i].owner \in DOMAIN accounts
          BY <1>1, <1>10 DEF book
    <2> TAKE i \in DOMAIN new
    <2>2. CASE i = n + 1
      <3>1. open > 0
            BY <1>5, <1>6, <2>2
      <3>. QED  BY <1>1, <1>4, <1>5, <2>2, <3>1
    <2>3. CASE i # n + 1
      <3>1. i \in DOMAIN new \ {n + 1}
            BY <2>3
      <3>2. i \in DOMAIN book /\ new[i].owner = book[i].owner
            BY <1>5, <3>1
      <3>. QED  BY <1>4, <2>1, <3>2
    <2>. QED  BY <2>2, <2>3
  <1>13. ASSUME NEW b \in DOMAIN accounts, b # o.owner
         PROVE  accounts'[b].open[m] = {i \in DOMAIN new : new[i].owner = b}
    <2>1. accounts'[b].open[m] = accounts[b].open[m] \ {i \in full : book[i].owner = b}
      <3>1. accounts'[b].open = [accounts[b].open EXCEPT ![m] = @ \ FilledOf(m, fills, b, DOMAIN fills)]
            BY <1>4, <1>13
      <3>2. accounts[b].open \in [Markets -> SUBSET Nat]
            BY <1>3, <1>13
      <3>3. accounts'[b].open[m] = accounts[b].open[m] \ FilledOf(m, fills, b, DOMAIN fills)
            BY <1>1, <3>1, <3>2
      <3>. QED  BY <1>8, <3>3
    <2>2. accounts[b].open[m] = {i \in DOMAIN book : book[i].owner = b}
          BY <1>10 DEF book
    <2>. QED  BY <2>1, <2>2, <1>5, <1>6, <1>13
  <1>14. accounts'[o.owner].open[m] = {i \in DOMAIN new : new[i].owner = o.owner}
    <2>1. accounts'[o.owner].open[m] =
            accounts[o.owner].open[m] \cup (IF open > 0 THEN {n + 1} ELSE {})
          BY <1>1, <1>3, <1>4, <1>9
    <2>2. accounts[o.owner].open[m] = {i \in DOMAIN book : book[i].owner = o.owner}
          BY <1>1, <1>10 DEF book
    <2>3. \A i \in full : book[i].owner # o.owner
          BY <1>4, <1>7
    <2>. QED  BY <2>1, <2>2, <2>3, <1>5, <1>6
  <1>. QED  BY <1>4, <1>11, <1>12, <1>13, <1>14 DEF BooksMatchAccounts, new

(* Cancelling strikes the same orders from the book and from the lists.    *)
LEMMA BooksMatchWhenCancelled ==
  ASSUME TypeOK, BooksMatchAccounts, SomeOrdersCancelled
  PROVE  BooksMatchAccounts'
PROOF
  <1>0. PICK m \in Markets : \E ids : OrdersCancelled(m, ids)
        BY DEF SomeOrdersCancelled
  <1>1. PICK ids : OrdersCancelled(m, ids)
        BY <1>0
  <1> DEFINE book == markets[m].book
             new  == markets'[m].book
  <1>2. /\ DOMAIN new = DOMAIN book \ ids
        /\ \A i \in DOMAIN book \ ids : new[i] = book[i]
    <2>1. IsBook(book, prev_order_sequence_number) /\ prev_order_sequence_number \in Nat
          BY DEF TypeOK, IsMarket, IsBook
    <2>2. new = RemoveOrders(book, ids)
          BY <1>1 DEF OrdersCancelled
    <2>. QED  BY <2>1, <2>2, RemoveOrdersFacts
  <1>3. /\ DOMAIN accounts' = DOMAIN accounts
        /\ \A k \in Markets \ {m} : markets'[k].book = markets[k].book
        /\ \A b \in DOMAIN accounts :
             /\ \A k \in Markets \ {m} : accounts'[b].open[k] = accounts[b].open[k]
             /\ accounts'[b].open[m] \subseteq accounts[b].open[m]
             /\ \A i \in accounts[b].open[m] \cap DOMAIN book :
                  book[i].owner = b => (i \in accounts'[b].open[m] <=> i \notin ids)
        BY <1>1 DEF OrdersCancelled
  <1>4. /\ \A k \in Markets : \A i \in DOMAIN markets[k].book : markets[k].book[i].owner \in DOMAIN accounts
        /\ \A k \in Markets, b \in DOMAIN accounts :
             accounts[b].open[k] = {i \in DOMAIN markets[k].book : markets[k].book[i].owner = b}
        BY DEF BooksMatchAccounts
  <1>5. \A b \in DOMAIN accounts : accounts'[b].open[m] = {i \in DOMAIN new : new[i].owner = b}
    <2> TAKE b \in DOMAIN accounts
    <2>1. accounts[b].open[m] = {i \in DOMAIN book : book[i].owner = b}
          BY <1>4
    <2>. QED  BY <2>1, <1>2, <1>3
  <1>6. \A i \in DOMAIN new : new[i].owner \in DOMAIN accounts
        BY <1>2, <1>4
  <1>7. ASSUME NEW k \in Markets \ {m}
        PROVE  /\ \A i \in DOMAIN markets'[k].book : markets'[k].book[i].owner \in DOMAIN accounts
               /\ \A b \in DOMAIN accounts :
                    accounts'[b].open[k] = {i \in DOMAIN markets'[k].book : markets'[k].book[i].owner = b}
        BY <1>3, <1>4, <1>7
  <1>. QED  BY <1>3, <1>5, <1>6, <1>7 DEF BooksMatchAccounts

(* The orders an account lists are exactly the orders of the books it      *)
(* owns, in every reachable state: an order can never be in the book with  *)
(* nobody able to cancel it, nor listed after it was filled.  TypeOK makes *)
(* it inductive: fresh order numbers must lie above those in the books.    *)
THEOREM BooksMatch == Spec => []BooksMatchAccounts
PROOF
  <1>1. Init => BooksMatchAccounts
        BY InitialAccountsAssumption DEF Init, BooksMatchAccounts, EmptyBook
  <1>2. TypeOK /\ BooksMatchAccounts /\ [Next]_vars => BooksMatchAccounts'
    <2>1. ASSUME TypeOK, BooksMatchAccounts, Next PROVE BooksMatchAccounts'
      <3>1. CASE SomeOrderPlaced
            BY <2>1, <3>1, BooksMatchWhenPlaced
      <3>2. CASE SomeOrdersCancelled
            BY <2>1, <3>2, BooksMatchWhenCancelled
      <3>3. CASE OnlySwitched
            BY <2>1, <3>3 DEF BooksMatchAccounts, OnlySwitched
      <3>. QED  BY <2>1, <3>1, <3>2, <3>3, StepFacts
    <2>2. BooksMatchAccounts /\ UNCHANGED vars => BooksMatchAccounts'
          BY DEF BooksMatchAccounts, vars
    <2>. QED  BY <2>1, <2>2
  <1>. QED  BY <1>1, <1>2, TypeCorrect, PTL DEF Spec

-----------------------------------------------------------------------------
(* Every step gives out at most the next number, to an order that was not  *)
(* there, and leaves the others no larger than they were.                  *)
LEMMA ShrinkInStep ==
  ASSUME TypeOK, Next
  PROVE  OrdersShrink
PROOF
  <1> DEFINE n == prev_order_sequence_number
  <1>0. n \in Nat /\ \A m \in Markets : IsBook(markets[m].book, n)
        BY DEF TypeOK, IsMarket, IsBook
  <1>1. CASE SomeOrderPlaced
    <2>0. PICK m \in Markets : \E o, taker : IsNewOrder(o) /\ OrderPlaced(m, o, taker)
          BY <1>1 DEF SomeOrderPlaced
    <2>1. PICK o, taker : IsNewOrder(o) /\ OrderPlaced(m, o, taker)
          BY <2>0
    <2> DEFINE book == markets[m].book
               new  == markets'[m].book
    <2>2. /\ \A k \in Markets \ {m} : markets'[k].book = markets[k].book
          /\ n' = n + 1
          BY <2>1 DEF OrderPlaced, NextSequence
    <2>3. /\ DOMAIN new \subseteq DOMAIN book \cup {n + 1}
          /\ \A i \in DOMAIN new \ {n + 1} :
               /\ i \in DOMAIN book
               /\ new[i].qty <= book[i].qty
               /\ [new[i] EXCEPT !.qty = 0] = [book[i] EXCEPT !.qty = 0]
          BY <2>1, BookWhenPlaced DEF OrderJoined
    <2>4. n + 1 \notin DOMAIN book
          BY <1>0, BookFinite
    <2>5. \A k \in Markets \ {m} : \A i \in DOMAIN markets[k].book : markets[k].book[i].qty \in Nat
          BY <1>0, BookFinite DEF RestingOrder
    <2>. QED  BY <1>0, <2>2, <2>3, <2>4, <2>5 DEF OrdersShrink
  <1>2. CASE SomeOrdersCancelled
    <2>0. PICK m \in Markets : \E ids : OrdersCancelled(m, ids)
          BY <1>2 DEF SomeOrdersCancelled
    <2>1. PICK ids : OrdersCancelled(m, ids)
          BY <2>0
    <2>2. /\ \A k \in Markets \ {m} : markets'[k].book = markets[k].book
          /\ DOMAIN markets'[m].book = DOMAIN markets[m].book \ ids
          /\ \A i \in DOMAIN markets'[m].book : markets'[m].book[i] = markets[m].book[i]
          BY <1>0, <2>1 DEF OrdersCancelled, RemoveOrders
    <2>3. \A k \in Markets : \A i \in DOMAIN markets[k].book : markets[k].book[i].qty \in Nat
          BY <1>0, BookFinite DEF RestingOrder
    <2>. QED  BY <2>2, <2>3 DEF OrdersShrink
  <1>3. CASE OnlySwitched
    <2>1. \A k \in Markets : \A i \in DOMAIN markets[k].book : markets[k].book[i].qty \in Nat
          BY <1>0, BookFinite DEF RestingOrder
    <2>. QED  BY <1>3, <2>1 DEF OrdersShrink, OnlySwitched
  <1>. QED  BY <1>1, <1>2, <1>3, StepFacts

(* Order numbers are given out once and in order, and a resting order only *)
(* ever shrinks.                                                           *)
THEOREM OrdersShrinkOnly == Spec => OrdersOnlyShrink
PROOF
  <1>1. TypeOK /\ [Next]_vars => [OrdersShrink]_vars
        BY ShrinkInStep
  <1>. QED  BY <1>1, TypeCorrect, PTL DEF Spec, OrdersOnlyShrink

-----------------------------------------------------------------------------
(* Single accounts: the number of orders they list, the storage they pay   *)
(* for, and that it always suffices to cancel an order.                    *)

(* The orders an account lists in a market are finitely many.              *)
LEMMA ListedFinite ==
  ASSUME TypeOK, BooksMatchAccounts, NEW m \in Markets, NEW a \in DOMAIN accounts
  PROVE  \A S \in SUBSET accounts[a].open[m] : IsFiniteSet(S)
PROOF
  <1>1. IsBook(markets[m].book, prev_order_sequence_number) /\ prev_order_sequence_number \in Nat
        BY DEF TypeOK, IsMarket, IsBook
  <1>2. accounts[a].open[m] \subseteq DOMAIN markets[m].book
        BY DEF BooksMatchAccounts
  <1>. QED  BY <1>1, <1>2, BookFinite

(* An account that is only allowed to post below the limit stays within    *)
(* it when it posts.                                                       *)
LEMMA PostedWithinLimit ==
  ASSUME NEW max \in Nat \ {0}, NEW listed, IsFiniteSet(listed), NEW id,
         listed # {} => Cardinality(listed) < max
  PROVE  Cardinality(listed \cup {id}) <= max
PROOF
  <1>1. Cardinality(listed) \in Nat
        BY FS_CardinalityType
  <1>2. IsFiniteSet(listed \cup {id}) /\ Cardinality(listed \cup {id}) <= Cardinality(listed) + 1
        BY <1>1, FS_AddElement
  <1>3. Cardinality(listed \cup {id}) \in Nat
        BY <1>2, FS_CardinalityType
  <1>4. Cardinality(listed) < max
    <2>1. CASE listed = {}
      <3>1. Cardinality(listed) = 0
            BY <2>1, FS_EmptySet
      <3>. QED  BY <3>1
    <2>. QED  BY <2>1
  <1>. QED  BY <1>1, <1>2, <1>3, <1>4

(* Placing an order adds at most one order to the taker's list, where      *)
(* there is room, and none to the others'.                                 *)
LEMMA LimitWhenPlaced ==
  ASSUME TypeOK, BooksMatchAccounts, OrderLimit, SomeOrderPlaced
  PROVE  OrderLimit'
PROOF
  <1>0. PICK m \in Markets : \E o, taker :
          /\ IsNewOrder(o) /\ o.owner \in DOMAIN accounts
          /\ OrderPlaced(m, o, taker) /\ TakerLists(m, o, taker)
        BY DEF SomeOrderPlaced
  <1>1. PICK o, taker :
          /\ IsNewOrder(o) /\ o.owner \in DOMAIN accounts
          /\ OrderPlaced(m, o, taker) /\ TakerLists(m, o, taker)
        BY <1>0
  <1> DEFINE open == OpenQty(MarketParams[m], markets[m].book, o)
             fills == Matches(MarketParams[m], markets[m].book, o)
  <1>2. /\ DOMAIN accounts' = DOMAIN accounts
        /\ accounts'[o.owner] = taker
        /\ \A b \in DOMAIN accounts \ {o.owner} :
             accounts'[b].open = [accounts[b].open EXCEPT ![m] = @ \ FilledOf(m, fills, b, DOMAIN fills)]
        BY <1>1 DEF OrderPlaced
  <1>3. \A b \in DOMAIN accounts : accounts[b].open \in [Markets -> SUBSET Nat]
        BY DEF TypeOK, IsAccount
  <1>4. /\ taker.open = IF open > 0 THEN [accounts[o.owner].open EXCEPT ![m] = @ \cup {NextSequence}]
                                    ELSE accounts[o.owner].open
        /\ open > 0 => CanSaveNewOrder(accounts[o.owner], m, MarketParams[m].max_orders)
        BY <1>1 DEF TakerLists
  <1>5. \A k \in Markets : MarketParams[k].max_orders \in Nat \ {0}
        BY ParamsAssumption
  <1> HIDE DEF open, fills
  <1>6. ASSUME NEW b \in DOMAIN accounts, NEW k \in Markets
        PROVE  Cardinality(accounts'[b].open[k]) <= MarketParams[k].max_orders
    <2> DEFINE old == accounts[b].open[k]
               max == MarketParams[k].max_orders
    <2>1. IsFiniteSet(old) /\ Cardinality(old) <= max /\ max \in Nat \ {0}
          BY <1>5, <1>6, ListedFinite DEF OrderLimit
    <2>2. \A S \in SUBSET old : Cardinality(S) <= max
      <3> TAKE S \in SUBSET old
      <3>1. Cardinality(S) <= Cardinality(old) /\ IsFiniteSet(S)
            BY <2>1, FS_Subset
      <3>2. Cardinality(S) \in Nat /\ Cardinality(old) \in Nat
            BY <2>1, <3>1, FS_CardinalityType
      <3>. QED  BY <2>1, <3>1, <3>2
    <2>3. CASE b = o.owner /\ k = m /\ open > 0
      <3>1. accounts'[b].open[k] = old \cup {NextSequence}
            BY <1>2, <1>3, <1>4, <1>6, <2>3
      <3>2. old # {} => Cardinality(old) < max
            BY <1>4, <2>3 DEF CanSaveNewOrder
      <3>. QED  BY <2>1, <3>1, <3>2, PostedWithinLimit
    <2>4. CASE ~ (b = o.owner /\ k = m /\ open > 0)
      <3>1. accounts'[b].open[k] \subseteq old
        <4>1. accounts[b].open \in [Markets -> SUBSET Nat]
              BY <1>3, <1>6
        <4>2. CASE b = o.owner
              BY <1>2, <1>4, <1>6, <2>4, <4>1, <4>2
        <4>3. CASE b # o.owner
          <5>1. accounts'[b].open = [accounts[b].open EXCEPT ![m] = @ \ FilledOf(m, fills, b, DOMAIN fills)]
                BY <1>2, <1>6, <4>3
          <5>. QED  BY <1>6, <4>1, <5>1
        <4>. QED  BY <4>2, <4>3
      <3>. QED  BY <2>2, <3>1
    <2>. QED  BY <2>3, <2>4
  <1>. QED  BY <1>2, <1>6 DEF OrderLimit

(* Cancelling adds no order to any list.                                   *)
LEMMA LimitWhenCancelled ==
  ASSUME TypeOK, BooksMatchAccounts, OrderLimit, SomeOrdersCancelled
  PROVE  OrderLimit'
PROOF
  <1>0. PICK m \in Markets : \E ids : OrdersCancelled(m, ids)
        BY DEF SomeOrdersCancelled
  <1>1. PICK ids : OrdersCancelled(m, ids)
        BY <1>0
  <1>2. /\ DOMAIN accounts' = DOMAIN accounts
        /\ \A b \in DOMAIN accounts, k \in Markets : accounts'[b].open[k] \subseteq accounts[b].open[k]
        BY <1>1 DEF OrdersCancelled
  <1>3. ASSUME NEW b \in DOMAIN accounts, NEW k \in Markets
        PROVE  Cardinality(accounts'[b].open[k]) <= MarketParams[k].max_orders
    <2> DEFINE old == accounts[b].open[k]
               new == accounts'[b].open[k]
    <2>1. IsFiniteSet(old) /\ Cardinality(old) <= MarketParams[k].max_orders /\ new \subseteq old
          BY <1>2, <1>3, ListedFinite DEF OrderLimit
    <2>2. Cardinality(new) <= Cardinality(old) /\ IsFiniteSet(new)
          BY <2>1, FS_Subset
    <2>3. Cardinality(new) \in Nat /\ Cardinality(old) \in Nat
          BY <2>1, <2>2, FS_CardinalityType
    <2>4. MarketParams[k].max_orders \in Nat
          BY ParamsAssumption
    <2> HIDE DEF old, new
    <2>5. Cardinality(new) <= MarketParams[k].max_orders
          BY <2>1, <2>2, <2>3, <2>4
    <2>. QED  BY <2>5 DEF new
  <1>. QED  BY <1>2, <1>3 DEF OrderLimit

(* No account ever has more resting orders in a market than the market     *)
(* allows, whatever the order types, fills and cancels: save_new_order     *)
(* looks at the limit only when the account already has orders there.      *)
(* BooksMatchAccounts is what makes the lists finite and counts exact.     *)
THEOREM OrderLimitHolds == Spec => []OrderLimit
PROOF
  <1>1. Init => OrderLimit
    <2> SUFFICES ASSUME Init, NEW a \in DOMAIN accounts, NEW m \in Markets
                 PROVE  Cardinality(accounts[a].open[m]) <= MarketParams[m].max_orders
        BY DEF OrderLimit
    <2>1. accounts[a].open[m] = {}
          BY InitialAccountsAssumption DEF Init
    <2>2. MarketParams[m].max_orders \in Nat
          BY ParamsAssumption
    <2>. QED  BY <2>1, <2>2, FS_EmptySet
  <1>2. TypeOK /\ BooksMatchAccounts /\ OrderLimit /\ [Next]_vars => OrderLimit'
    <2>1. ASSUME TypeOK, BooksMatchAccounts, OrderLimit, Next PROVE OrderLimit'
      <3>1. CASE SomeOrderPlaced
            BY <2>1, <3>1, LimitWhenPlaced
      <3>2. CASE SomeOrdersCancelled
            BY <2>1, <3>2, LimitWhenCancelled
      <3>3. CASE OnlySwitched
            BY <2>1, <3>3 DEF OrderLimit, OnlySwitched
      <3>. QED  BY <2>1, <3>1, <3>2, <3>3, StepFacts
    <2>2. OrderLimit /\ UNCHANGED vars => OrderLimit'
          BY DEF OrderLimit, vars
    <2>. QED  BY <2>1, <2>2
  <1>. QED  BY <1>1, <1>2, TypeCorrect, BooksMatch, PTL DEF Spec
-----------------------------------------------------------------------------
(* A maker is saved after each of its fills, and what the last check saw   *)
(* is what is stored.                                                      *)
LEMMA MakerCoveredAtLast ==
  ASSUME TypeOK, NEW m \in Markets, NEW o, IsNewOrder(o), NEW b \in DOMAIN accounts,
         IsStorageCovered(accounts[b]),
         MakersCovered(m, Matches(MarketParams[m], markets[m].book, o), o.side)
  PROVE  LET fills == Matches(MarketParams[m], markets[m].book, o)
         IN  IsStorageCovered(MakerAccount(m, fills, o.side, b, DOMAIN fills))
PROOF
  <1> DEFINE book  == markets[m].book
             fills == Matches(MarketParams[m], book, o)
             own   == {i \in DOMAIN fills : book[i].owner = b}
  <1>1. IsBook(book, prev_order_sequence_number) /\ prev_order_sequence_number \in Nat
        BY DEF TypeOK, IsMarket, IsBook
  <1>2. DOMAIN fills \subseteq DOMAIN book /\ \A i \in DOMAIN fills : book[i].side # o.side
    <2> HIDE DEF book, own
    <2>1. /\ DOMAIN fills \subseteq DOMAIN book
          /\ fills = [i \in DOMAIN fills |-> fills[i]]
          /\ \A i \in DOMAIN fills : /\ fills[i] \in 1 .. book[i].qty
                                     /\ book[i].side # o.side
          BY <1>1, MatchesFacts
    <2> HIDE DEF fills
    <2>. QED  BY <2>1
  <1>3. MakersCovered(m, fills, o.side)
        OBVIOUS
  <1> HIDE DEF fills
  <1>4. CASE own = {}
    <2>1. MakerCredited(m, fills, o.side, b, DOMAIN fills) = accounts[b]
          BY <1>4 DEF MakerCredited
    <2>2. FilledOf(m, fills, b, DOMAIN fills) = {}
          BY <1>4 DEF FilledOf
    <2>3. RemoveOrderInfos(accounts[b], m, {}) = accounts[b]
      <3>1. IsAccount(accounts[b])
            BY DEF TypeOK
      <3>2. accounts[b].open[m] \ {} = accounts[b].open[m]
            OBVIOUS
      <3>. QED  BY <3>1, <3>2 DEF RemoveOrderInfos, IsAccount
    <2>. QED  BY <2>1, <2>2, <2>3 DEF MakerAccount, fills
  <1>5. CASE own # {}
    <2>1. PICK i \in own : \A j \in own : j = i \/ IteratedBefore(book, j, i)
          BY <1>1, <1>2, <1>5, LastIterated
    <2> DEFINE settled == {j \in DOMAIN fills : j = i \/ Precedes(book, j, i)}
    <2>2. \A j \in own : j = i \/ Precedes(book, j, i)
      <3> SUFFICES ASSUME NEW j \in own, IteratedBefore(book, j, i) PROVE Precedes(book, j, i)
          BY <2>1
      <3>1. /\ book[j].side \in Sides /\ book[i].side \in Sides /\ o.side \in Sides
            /\ book[j].side # o.side /\ book[i].side # o.side
            BY <1>1, <1>2, BookFinite DEF RestingOrder, IsNewOrder
      <3>. QED  BY <3>1 DEF IteratedBefore, Sides
    <2>3. own = {j \in settled : book[j].owner = b}
          BY <2>2
    <2>4. IsStorageCovered(MakerAccount(m, fills, o.side, b, settled))
          BY <1>3 DEF MakersCovered
    <2>5. FilledOf(m, fills, b, settled) = FilledOf(m, fills, b, DOMAIN fills)
          BY <2>3 DEF FilledOf
    <2>6. MakerCredited(m, fills, o.side, b, settled)
            = MakerCredited(m, fills, o.side, b, DOMAIN fills)
          BY <2>3 DEF MakerCredited
    <2>. QED  BY <2>4, <2>5, <2>6 DEF MakerAccount, fills
  <1>. QED  BY <1>4, <1>5

(* Placing an order saves the taker, every maker and the referrer under    *)
(* the storage check.                                                      *)
LEMMA CoveredWhenPlaced ==
  ASSUME TypeOK, AccountsCovered, SomeOrderPlaced
  PROVE  AccountsCovered'
PROOF
  <1>0. PICK m \in Markets : \E o, taker : IsNewOrder(o) /\ OrderPlaced(m, o, taker)
        BY DEF SomeOrderPlaced
  <1>1. PICK o, taker : IsNewOrder(o) /\ OrderPlaced(m, o, taker)
        BY <1>0
  <1> DEFINE fills == Matches(MarketParams[m], markets[m].book, o)
  <1>2. /\ DOMAIN accounts' = DOMAIN accounts
        /\ accounts'[o.owner] = taker /\ IsStorageCovered(taker)
        /\ \A b \in DOMAIN accounts \ {o.owner} :
             \/ accounts'[b] = MakerAccount(m, fills, o.side, b, DOMAIN fills)
             \/ IsStorageCovered(accounts'[b])
        /\ MakersCovered(m, fills, o.side)
        BY <1>1 DEF OrderPlaced
  <1>3. \A b \in DOMAIN accounts :
          IsStorageCovered(MakerAccount(m, fills, o.side, b, DOMAIN fills))
        BY <1>1, <1>2, MakerCoveredAtLast DEF AccountsCovered
  <1> HIDE DEF fills
  <1>4. ASSUME NEW b \in DOMAIN accounts PROVE IsStorageCovered(accounts'[b])
    <2>1. CASE b = o.owner
          BY <1>2, <2>1
    <2>2. CASE b # o.owner
          BY <1>2, <1>3, <1>4, <2>2
    <2>. QED  BY <2>1, <2>2
  <1>. QED  BY <1>2, <1>4 DEF AccountsCovered

(* Every step leaves all accounts covered.                                 *)
LEMMA CoveredInStep ==
  ASSUME TypeOK, AccountsCovered, Next
  PROVE  AccountsCovered'
PROOF
  <1>1. CASE SomeOrderPlaced
        BY <1>1, CoveredWhenPlaced
  <1>2. CASE SomeOrdersCancelled
    <2>0. PICK m \in Markets : \E ids : OrdersCancelled(m, ids)
          BY <1>2 DEF SomeOrdersCancelled
    <2>1. PICK ids : OrdersCancelled(m, ids)
          BY <2>0
    <2>. QED  BY <2>1 DEF OrdersCancelled, AccountsCovered
  <1>3. CASE OnlySwitched
        BY <1>3 DEF AccountsCovered, OnlySwitched
  <1>. QED  BY <1>1, <1>2, <1>3, StepFacts

(* Every account that is stored pays for the storage it uses, so what it   *)
(* may take out of its storage balance never underflows, in every          *)
(* reachable state.  A maker hit several times, or an account whose orders *)
(* the owner clears, is checked after each of its orders; the last of      *)
(* these checks, in the order of the book, sees the account as stored.     *)
THEOREM CoverageHolds == Spec => []AccountsCovered
PROOF
  <1>1. Init => AccountsCovered
        BY InitialAccountsAssumption DEF Init, AccountsCovered
  <1>2. TypeOK /\ AccountsCovered /\ [Next]_vars => AccountsCovered'
    <2>1. AccountsCovered /\ UNCHANGED vars => AccountsCovered'
          BY DEF AccountsCovered, vars
    <2>. QED  BY <2>1, CoveredInStep
  <1>. QED  BY <1>1, <1>2, TypeCorrect, PTL DEF Spec

-----------------------------------------------------------------------------
(* new has at most one balance entry more than acc, and pays the same      *)
(* storage.                                                                *)
OneEntryMore(new, acc) ==
  /\ \E token : DOMAIN new.balances \subseteq DOMAIN acc.balances \cup {token}
  /\ new.storage = acc.storage

(* An account with one order less in its lists and at most one balance     *)
(* entry more takes no more storage.                                       *)
LEMMA RefundFitsInOrder ==
  ASSUME NEW acc, IsAccount(acc), NEW new, IsAccount(new),
         IsFiniteSet(OpenOrders(acc)), NEW m \in Markets, NEW i \in acc.open[m],
         OneEntryMore(new, acc),
         new.open = [acc.open EXCEPT ![m] = @ \ {i}]
  PROVE  /\ BorshSize(acc) \in Int /\ BorshSize(new) \in Int
         /\ BorshSize(new) <= BorshSize(acc)
PROOF
  <1> DEFINE entries(x) == Cardinality(DOMAIN x.balances)
             pairs(x) == Cardinality(MarketsWithOrders(x))
             orders(x) == Cardinality(OpenOrders(x))
  <1>1. /\ acc.open \in [Markets -> SUBSET Nat] /\ new.open \in [Markets -> SUBSET Nat]
        /\ IsFiniteSet(DOMAIN acc.balances) /\ IsFiniteSet(DOMAIN new.balances)
    <2>1. DOMAIN acc.balances \subseteq Tokens /\ DOMAIN new.balances \subseteq Tokens
          BY DEF IsAccount, IsPartialFunction
    <2>2. \A S \in SUBSET Tokens : IsFiniteSet(S)
          BY EntriesAssumption, FS_Subset
    <2>. QED  BY <2>1, <2>2 DEF IsAccount
  <1>2. entries(acc) \in Nat /\ entries(new) \in Nat /\ entries(new) <= entries(acc) + 1
    <2>0. PICK token : DOMAIN new.balances \subseteq DOMAIN acc.balances \cup {token}
          BY DEF OneEntryMore
    <2> DEFINE D == DOMAIN acc.balances
               E == DOMAIN new.balances
    <2>1. IsFiniteSet(D) /\ IsFiniteSet(E) /\ E \in SUBSET (D \cup {token})
          BY <1>1, <2>0
    <2> HIDE DEF D, E
    <2>2. IsFiniteSet(D \cup {token}) /\ Cardinality(D) \in Nat /\ Cardinality(E) \in Nat
          BY <2>1, FS_AddElement, FS_CardinalityType
    <2>3. Cardinality(D \cup {token}) = IF token \in D THEN Cardinality(D) ELSE Cardinality(D) + 1
          BY <2>1, FS_AddElement
    <2>4. Cardinality(E) <= Cardinality(D \cup {token})
          BY <2>1, <2>2, FS_Subset
    <2>5. Cardinality(E) <= Cardinality(D) + 1
          BY <2>2, <2>3, <2>4
    <2>. QED  BY <2>2, <2>5 DEF D, E
  <1>3. pairs(acc) \in Nat /\ pairs(new) \in Nat /\ pairs(new) <= pairs(acc)
    <2>1. MarketsWithOrders(acc) \in SUBSET Markets /\ IsFiniteSet(Markets)
          BY FinitenessAssumption DEF MarketsWithOrders
    <2>2. IsFiniteSet(MarketsWithOrders(acc))
          BY <2>1, FS_Subset
    <2>3. MarketsWithOrders(new) \in SUBSET MarketsWithOrders(acc)
          BY <1>1 DEF MarketsWithOrders
    <2>. QED  BY <2>2, <2>3, FS_Subset, FS_CardinalityType
  <1>4. orders(acc) \in Nat /\ orders(new) \in Nat /\ orders(new) = orders(acc) - 1
    <2>1. <<m, i>> \in OpenOrders(acc)
          BY DEF OpenOrders
    <2>2. OpenOrders(new) = OpenOrders(acc) \ {<<m, i>>}
      <3>1. \A e : e \in OpenOrders(new) <=> e \in OpenOrders(acc) /\ e # <<m, i>>
        <4> TAKE e
        <4>1. e \in OpenOrders(acc) <=> \E k \in Markets : \E j \in acc.open[k] : e = <<k, j>>
              BY DEF OpenOrders
        <4>2. e \in OpenOrders(new) <=> \E k \in Markets : \E j \in new.open[k] : e = <<k, j>>
              BY DEF OpenOrders
        <4>3. \A k \in Markets : new.open[k] = IF k = m THEN acc.open[k] \ {i} ELSE acc.open[k]
              BY <1>1
        <4>. QED  BY <4>1, <4>2, <4>3
      <3>. QED  BY <3>1
    <2>3. /\ IsFiniteSet(OpenOrders(new))
          /\ orders(new) = orders(acc) - 1
          BY <2>1, <2>2, FS_RemoveElement
    <2>. QED  BY <2>3, FS_CardinalityType
  <1>5. BalanceBytes \in Nat /\ MarketBytes \in Nat /\ OrderBytes \in Nat /\ AccountBytes \in Nat
        BY SizeAssumption
  <1> HIDE DEF entries, pairs, orders
  <1>6. BalanceBytes * entries(new) <= BalanceBytes * entries(acc) + BalanceBytes
    <2>1. BalanceBytes * entries(new) <= BalanceBytes * (entries(acc) + 1)
          BY <1>2, <1>5, TimesNat
    <2>2. BalanceBytes * (entries(acc) + 1) = BalanceBytes * entries(acc) + BalanceBytes
          BY <1>2, <1>5
    <2>. QED  BY <2>1, <2>2
  <1>7. MarketBytes * pairs(new) <= MarketBytes * pairs(acc)
        BY <1>3, <1>5, TimesNat
  <1>8. OrderBytes * orders(new) = OrderBytes * orders(acc) - OrderBytes
        BY <1>4, <1>5
  <1>9. /\ BalanceBytes * entries(acc) \in Nat /\ BalanceBytes * entries(new) \in Nat
        /\ MarketBytes * pairs(acc) \in Nat /\ MarketBytes * pairs(new) \in Nat
        /\ OrderBytes * orders(acc) \in Nat /\ OrderBytes * orders(new) \in Nat
        BY <1>2, <1>3, <1>4, <1>5, TimesNat
  <1>10. BalanceBytes <= OrderBytes
        BY EntriesAssumption
  <1>11. /\ BorshSize(acc) = AccountBytes + BalanceBytes * entries(acc)
                               + MarketBytes * pairs(acc) + OrderBytes * orders(acc)
         /\ BorshSize(new) = AccountBytes + BalanceBytes * entries(new)
                               + MarketBytes * pairs(new) + OrderBytes * orders(new)
        BY DEF BorshSize, entries, pairs, orders
  <1>. QED  BY <1>5, <1>6, <1>7, <1>8, <1>9, <1>10, <1>11

(* Cancelling one order adds the entry of its refund at most.              *)
LEMMA RefundedEntries ==
  ASSUME TypeOK, NEW m \in Markets, NEW i \in DOMAIN markets[m].book,
         NEW acc, IsAccount(acc)
  PROVE  OneEntryMore(Refunded(acc, m, {i}), acc)
PROOF
  <1> DEFINE p    == MarketParams[m]
             book == markets[m].book
             back(side) == {j \in {i} : book[j].side = side}
             due(side)  == SumFunction([j \in back(side) |-> GetRefundAmount(p, book[j])])
             paid(x, side, token) == IF back(side) = {} THEN x ELSE Deposit(x, token, due(side))
             sells == paid(acc, "Sell", p.base)
             all == paid(sells, "Buy", p.quote)
  <1>1. ASSUME NEW x, IsAccount(x), NEW token, NEW amount
        PROVE  /\ DOMAIN Deposit(x, token, amount).balances = DOMAIN x.balances \cup {token}
               /\ Deposit(x, token, amount).storage = x.storage
               /\ Deposit(x, token, amount).open = x.open
        BY <1>1 DEF Deposit, IsAccount
  <1>2. Refunded(acc, m, {i}) = RemoveOrderInfos(all, m, {i})
        BY DEF Refunded, PaidBack
  <1>3. book[i].side \in {"Buy", "Sell"}
    <2>1. IsBook(book, prev_order_sequence_number) /\ prev_order_sequence_number \in Nat
          BY DEF TypeOK, IsMarket, IsBook
    <2>. QED  BY <2>1, BookFinite DEF RestingOrder, Sides
  <1>4. /\ DOMAIN all.balances
             = DOMAIN acc.balances \cup {RefundToken(MarketParams[m], markets[m].book[i])}
        /\ all.storage = acc.storage
    <2>1. CASE book[i].side = "Sell"
      <3>1. all = Deposit(acc, p.base, due("Sell"))
            BY <2>1
      <3> HIDE DEF all, due
      <3>. QED  BY <1>1, <2>1, <3>1 DEF RefundToken
    <2>2. CASE book[i].side = "Buy"
      <3>1. all = Deposit(acc, p.quote, due("Buy"))
            BY <2>2
      <3> HIDE DEF all, due
      <3>. QED  BY <1>1, <2>2, <3>1 DEF RefundToken
    <2>. QED  BY <1>3, <2>1, <2>2
  <1>5. /\ RemoveOrderInfos(all, m, {i}).balances = all.balances
        /\ RemoveOrderInfos(all, m, {i}).storage = all.storage
    <2> HIDE DEF all
    <2>. QED  BY DEF RemoveOrderInfos
  <1> HIDE DEF all, back, due, paid, p
  <1>6. /\ Refunded(acc, m, {i}).balances = all.balances
        /\ Refunded(acc, m, {i}).storage = all.storage
        BY <1>2, <1>5
  <1>. QED  BY <1>4, <1>6 DEF OneEntryMore

(* The orders an account lists are finitely many, in all markets.          *)
LEMMA OpenOrdersFinite ==
  ASSUME TypeOK, BooksMatchAccounts, NEW a \in DOMAIN accounts
  PROVE  IsFiniteSet(OpenOrders(accounts[a]))
PROOF
  <1>1. \A m \in Markets : accounts[a].open[m] \subseteq 1 .. prev_order_sequence_number
    <2> TAKE m \in Markets
    <2>1. IsBook(markets[m].book, prev_order_sequence_number) /\ prev_order_sequence_number \in Nat
          BY DEF TypeOK, IsMarket, IsBook
    <2>2. accounts[a].open[m] \subseteq DOMAIN markets[m].book
          BY DEF BooksMatchAccounts
    <2>. QED  BY <2>1, <2>2, BookFinite
  <1>2. OpenOrders(accounts[a]) \in SUBSET (Markets \X (1 .. prev_order_sequence_number))
        BY <1>1 DEF OpenOrders
  <1>3. IsFiniteSet(1 .. prev_order_sequence_number)
        BY FS_Interval DEF TypeOK
  <1>4. IsFiniteSet(Markets \X (1 .. prev_order_sequence_number))
        BY <1>3, FS_Product, FinitenessAssumption
  <1>. QED  BY <1>2, <1>4, FS_Subset

(* What has to hold for every order to be one that can be paid back.       *)
LEMMA CoveredIsCancellable ==
  TypeOK /\ BooksMatchAccounts /\ AccountsCovered => AlwaysCancellable
PROOF
  <1> SUFFICES ASSUME TypeOK, BooksMatchAccounts, AccountsCovered,
                      NEW m \in Markets, NEW i \in DOMAIN markets[m].book
               PROVE  IsStorageCovered(Refunded(accounts[markets[m].book[i].owner], m, {i}))
      BY DEF AlwaysCancellable
  <1> DEFINE a   == markets[m].book[i].owner
             acc == accounts[a]
             new == Refunded(acc, m, {i})
  <1>1. a \in DOMAIN accounts /\ IsAccount(acc) /\ i \in acc.open[m]
        BY DEF BooksMatchAccounts, TypeOK
  <1> HIDE DEF a, acc
  <1>2. IsAccount(new) /\ new.open = [acc.open EXCEPT ![m] = @ \ {i}]
    <2>1. {i} \in SUBSET DOMAIN markets[m].book
          OBVIOUS
    <2>. QED  BY <1>1, <2>1, RefundedFacts
  <1>3. OneEntryMore(new, acc)
        BY <1>1, RefundedEntries
  <1>4. IsFiniteSet(OpenOrders(acc)) /\ BorshSize(acc) <= acc.storage
        BY <1>1, OpenOrdersFinite DEF AccountsCovered, IsStorageCovered, acc
  <1> HIDE DEF new
  <1>5. /\ BorshSize(acc) \in Int /\ BorshSize(new) \in Int
        /\ BorshSize(new) <= BorshSize(acc)
        BY <1>1, <1>2, <1>3, <1>4, RefundFitsInOrder
  <1>6. acc.storage \in Nat
        BY <1>1 DEF IsAccount
  <1>7. BorshSize(new) <= new.storage
        BY <1>3, <1>4, <1>5, <1>6 DEF OneEntryMore
  <1>. QED  BY <1>7 DEF new, acc, a, IsStorageCovered

(* A resting order can always be cancelled, in every reachable state: its  *)
(* refund takes at most one entry among the balances, and dropping the     *)
(* order frees at least as much.                                           *)
THEOREM CancellableHolds == Spec => []AlwaysCancellable
BY CoveredIsCancellable, TypeCorrect, BooksMatch, CoverageHolds, PTL
=============================================================================
