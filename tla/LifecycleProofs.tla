-------------------------- MODULE LifecycleProofs --------------------------
(***************************************************************************)
(* Proofs about markets that come and go: what Exchange promises of books, *)
(* accounts and order numbers still holds when markets are created,        *)
(* activated by callbacks in any order, deleted and created again, as long *)
(* as the owner does not set a market back to Uninitialized.               *)
(***************************************************************************)
EXTENDS Lifecycle, ExchangeProofs

(* What orders, cancels and the owner do to the markets.                   *)
OthersUntouched(m) ==
  /\ markets' = [k \in Markets |-> markets'[k]]
  /\ \A k \in Markets \ {m} : markets'[k] = markets[k]

StateKept(m) == markets'[m].state = markets[m].state

BookLoses(m) == DOMAIN markets'[m].book \subseteq DOMAIN markets[m].book

(* Committing an order changes one market, and not its state.              *)
LEMMA ExecuteOrderMarket ==
  ASSUME TypeOK, NEW m \in Markets, NEW o, NEW referrer, NEW taker,
         ExecuteOrder(m, o, referrer, taker)
  PROVE  OthersUntouched(m) /\ StateKept(m)
PROOF
  <1>1. /\ markets = [k \in Markets |-> markets[k]]
        /\ IsMarket(markets[m], prev_order_sequence_number)
        BY DEF TypeOK
  <1>2. PICK book, fees : markets' = [markets EXCEPT ![m].book = book, ![m].fees_accrued = fees]
        BY DEF ExecuteOrder
  <1>3. DOMAIN markets = Markets
        BY <1>1
  <1>4. markets[m] \in [state : MarketStates, book : {markets[m].book}, fees_accrued : Nat,
                        minimum_bid_bps : BidWindows, maximum_ask_bps : AskWindows]
        BY <1>1 DEF IsMarket
  <1>. QED  BY <1>2, <1>3, <1>4 DEF OthersUntouched, StateKept

(* Orders are placed in active markets.                                    *)
LEMMA NewOrderMarket ==
  ASSUME TypeOK, NEW m \in Markets, NewOrder(m)
  PROVE  OthersUntouched(m) /\ StateKept(m) /\ markets[m].state = "Active"
PROOF
  <1>1. PICK a : CanPlaceOrder(a, m)
        BY DEF NewOrder, NewLimitBuy, LimitBuyBy, NewLimitSell, LimitSellBy,
               NewMarketOrder, MarketOrderBy, PlaceLimitBuy, PlaceLimitSell, PlaceMarketOrder
  <1>2. \E o, referrer, taker : ExecuteOrder(m, o, referrer, taker)
    <2>1. CASE NewLimitBuy(m)
          BY <2>1 DEF NewLimitBuy, LimitBuyBy, PlaceLimitBuy
    <2>2. CASE NewLimitSell(m)
          BY <2>2 DEF NewLimitSell, LimitSellBy, PlaceLimitSell
    <2>3. CASE NewMarketOrder(m)
          BY <2>3 DEF NewMarketOrder, MarketOrderBy, PlaceMarketOrder
    <2>. QED  BY <2>1, <2>2, <2>3 DEF NewOrder
  <1>. QED  BY <1>1, <1>2, ExecuteOrderMarket DEF CanPlaceOrder

(* Cancels only take orders out of one book.                               *)
LEMMA CommitCancelsMarket ==
  ASSUME TypeOK, NEW m \in Markets, NEW ids, NEW refunded, CommitCancels(m, ids, refunded)
  PROVE  OthersUntouched(m) /\ StateKept(m) /\ BookLoses(m)
PROOF
  <1>1. /\ markets = [k \in Markets |-> markets[k]]
        /\ IsMarket(markets[m], prev_order_sequence_number)
        BY DEF TypeOK
  <1>2. markets' = [markets EXCEPT ![m].book = RemoveOrders(@, ids)]
        BY DEF CommitCancels
  <1>3. DOMAIN RemoveOrders(markets[m].book, ids) \subseteq DOMAIN markets[m].book
        BY DEF RemoveOrders
  <1>4. DOMAIN markets = Markets
        BY <1>1
  <1>5. markets[m] \in [state : MarketStates, book : {markets[m].book}, fees_accrued : Nat,
                        minimum_bid_bps : BidWindows, maximum_ask_bps : AskWindows]
        BY <1>1 DEF IsMarket
  <1>. QED  BY <1>2, <1>3, <1>4, <1>5 DEF OthersUntouched, StateKept, BookLoses

(* All cancels, of traders and of the owner, commit that way.              *)
LEMMA CancelMarket ==
  ASSUME TypeOK, NEW m \in Markets, Cancel(m)
  PROVE  OthersUntouched(m) /\ StateKept(m) /\ BookLoses(m)
PROOF
  <1>1. \E ids, refunded : CommitCancels(m, ids, refunded)
        BY DEF Cancel, CancelOrder, CancelAllOrders, InternalCancelOrder, InternalCancelAllOrders
  <1>. QED  BY <1>1, CommitCancelsMarket

(* The owner can also set a state, to one of those tried.                  *)
LEMMA AdminMarket ==
  ASSUME TypeOK, NEW m \in Markets, Admin(m)
  PROVE  /\ OthersUntouched(m) /\ BookLoses(m)
         /\ StateKept(m) \/ markets'[m].state \in MarketStatesTried
PROOF
  <1>1. /\ markets = [k \in Markets |-> markets[k]] /\ DOMAIN markets = Markets
        /\ IsMarket(markets[m], prev_order_sequence_number)
        BY DEF TypeOK
  <1>2. markets[m] \in [state : MarketStates, book : {markets[m].book}, fees_accrued : Nat,
                        minimum_bid_bps : BidWindows, maximum_ask_bps : AskWindows]
        BY <1>1 DEF IsMarket
  <1>3. CASE \E ids, refunded : CommitCancels(m, ids, refunded)
        BY <1>3, CommitCancelsMarket
  <1>4. ASSUME NEW state \in MarketStatesTried, SetMarketState(m, state)
        PROVE  /\ OthersUntouched(m) /\ BookLoses(m)
               /\ markets'[m].state \in MarketStatesTried
        BY <1>1, <1>2, <1>4 DEF SetMarketState, OthersUntouched, BookLoses
  <1>5. ASSUME NEW bps, SetMarketBidWindow(m, bps)
        PROVE  OthersUntouched(m) /\ BookLoses(m) /\ StateKept(m)
        BY <1>1, <1>2, <1>5 DEF SetMarketBidWindow, OthersUntouched, BookLoses, StateKept
  <1>6. ASSUME NEW bps, SetMarketAskWindow(m, bps)
        PROVE  OthersUntouched(m) /\ BookLoses(m) /\ StateKept(m)
        BY <1>1, <1>2, <1>6 DEF SetMarketAskWindow, OthersUntouched, BookLoses, StateKept
  <1>7. ASSUME NEW id, AdminCancelOrder(m, id)
        PROVE  \E ids, refunded : CommitCancels(m, ids, refunded)
        BY <1>7 DEF AdminCancelOrder, InternalCancelOrder
  <1>8. ASSUME NEW a, AdminCancelAllUserOrders(a, m)
        PROVE  \E ids, refunded : CommitCancels(m, ids, refunded)
        BY <1>8 DEF AdminCancelAllUserOrders, InternalCancelAllOrders
  <1>9. ASSUME NEW limit, AdminClearOrderbook(m, limit)
        PROVE  \E ids, refunded : CommitCancels(m, ids, refunded)
        BY <1>9 DEF AdminClearOrderbook
  <1>. QED  BY <1>3, <1>4, <1>5, <1>6, <1>7, <1>8, <1>9 DEF Admin

-----------------------------------------------------------------------------
(* A market as it is created is well formed.                               *)
LEMMA FreshIsMarket ==
  ASSUME NEW n \in Nat
  PROVE  IsMarket(FreshMarket, n)
PROOF
  <1>1. IsPartialFunction(EmptyBook, 1 .. n, RestingOrder)
        BY DEF EmptyBook, IsPartialFunction
  <1>. QED  BY <1>1, LifecycleAssumption DEF FreshMarket, IsMarket, MarketStates

(* Trading keeps the types: it is confined to one created market, and      *)
(* orders are only added where the base decimals are known.                *)
LEMMA TradingTypes ==
  ASSUME LifecycleTypeOK, NEW m \in created, UNCHANGED lifecycleVars,
         \/ HasDenomination(m) /\ NewOrder(m)
         \/ Cancel(m)
         \/ Admin(m)
  PROVE  LifecycleTypeOK'
PROOF
  <1>1. TypeOK /\ m \in Markets
        BY DEF LifecycleTypeOK
  <1>2. TypeOK'
        BY <1>1, StepFacts DEF Next
  <1>3. OthersUntouched(m)
        BY <1>1, NewOrderMarket, CancelMarket, AdminMarket
  <1>4. HasDenomination(m) \/ BookLoses(m)
        BY <1>1, CancelMarket, AdminMarket
  <1>5. created' = created /\ known' = known /\ metadata' = metadata
        BY DEF lifecycleVars
  <1>6. \A k \in Markets \ created : markets'[k] = FreshMarket /\ known[k] = {}
        BY <1>3 DEF LifecycleTypeOK, OthersUntouched
  <1>7. \A k \in Markets : DOMAIN markets'[k].book # {} => "Base" \in known[k]
    <2> SUFFICES ASSUME NEW k \in Markets, DOMAIN markets'[k].book # {}
                 PROVE  "Base" \in known[k]
        OBVIOUS
    <2>1. DOMAIN markets[k].book # {} => "Base" \in known[k]
          BY DEF LifecycleTypeOK, HasDenomination
    <2>2. CASE k = m
          BY <1>4, <2>1, <2>2 DEF HasDenomination, BookLoses
    <2>3. CASE k # m
      <3>1. markets'[k] = markets[k]
            BY <1>3, <2>3 DEF OthersUntouched
      <3>. QED  BY <2>1, <3>1
    <2>. QED  BY <2>2, <2>3
  <1>. QED  BY <1>2, <1>5, <1>6, <1>7 DEF LifecycleTypeOK, HasDenomination

(* A market replaced by a well formed one keeps the types of Exchange.     *)
LEMMA MarketReplaced ==
  ASSUME TypeOK, NEW m \in Markets, NEW market,
         IsMarket(market, prev_order_sequence_number),
         markets' = [markets EXCEPT ![m] = market],
         UNCHANGED <<contract_state, accounts, prev_order_sequence_number>>
  PROVE  TypeOK' /\ OthersUntouched(m) /\ markets'[m] = market
PROOF
  <1>1. /\ markets = [k \in Markets |-> markets[k]]
        /\ \A k \in Markets : IsMarket(markets[k], prev_order_sequence_number)
        BY DEF TypeOK
  <1>2. /\ markets' = [k \in Markets |-> markets'[k]]
        /\ markets'[m] = market
        /\ \A k \in Markets \ {m} : markets'[k] = markets[k]
        BY <1>1
  <1>3. \A k \in Markets : IsMarket(markets'[k], prev_order_sequence_number)
        BY <1>1, <1>2
  <1>. QED  BY <1>2, <1>3 DEF TypeOK, OthersUntouched

(* create_market finds nothing under the id, and leaves a fresh market.    *)
LEMMA CreateMarketFacts ==
  ASSUME LifecycleTypeOK, NEW m \in Markets, CreateMarket(m)
  PROVE  LifecycleTypeOK' /\ markets' = markets /\ UNCHANGED <<accounts, prev_order_sequence_number>>
PROOF
  <1>1. /\ TypeOK /\ prev_order_sequence_number \in Nat
        /\ markets = [k \in Markets |-> markets[k]]
        /\ markets[m] = FreshMarket
        BY DEF LifecycleTypeOK, TypeOK, CreateMarket
  <1>2. markets' = markets
        BY <1>1 DEF CreateMarket
  <1>3. TypeOK'
        BY <1>1, <1>2 DEF CreateMarket, TypeOK
  <1>4. /\ created' = created \cup {m}
        /\ known' = [known EXCEPT ![m] = KnownAtOnce(m)]
        /\ known \in [Markets -> SUBSET PairSides]
        /\ KnownAtOnce(m) \in SUBSET PairSides
        BY DEF CreateMarket, LifecycleTypeOK, KnownAtOnce
  <1>5. metadata' \in [Markets -> [PairSides -> Nat]]
    <2>1. metadata \in [Markets -> [PairSides -> Nat]]
          BY DEF LifecycleTypeOK
    <2>2. [side \in PairSides |-> IF side \in KnownAtOnce(m) THEN metadata[m][side]
                                  ELSE metadata[m][side] + 1] \in [PairSides -> Nat]
          BY <2>1
    <2>. QED  BY <2>1, <2>2 DEF CreateMarket
  <1>6. DOMAIN markets[m].book = {}
        BY <1>1 DEF FreshMarket, EmptyBook
  <1>7. \A k \in Markets \ created' : markets'[k] = FreshMarket /\ known'[k] = {}
        BY <1>2, <1>4 DEF LifecycleTypeOK
  <1>8. \A k \in Markets : DOMAIN markets'[k].book # {} => "Base" \in known'[k]
        BY <1>2, <1>4, <1>6 DEF LifecycleTypeOK, HasDenomination
  <1>9. created' \subseteq Markets /\ known' \in [Markets -> SUBSET PairSides]
        BY <1>4 DEF LifecycleTypeOK
  <1>10. UNCHANGED <<accounts, prev_order_sequence_number>>
        BY DEF CreateMarket
  <1>. QED  BY <1>2, <1>3, <1>5, <1>7, <1>8, <1>9, <1>10 DEF LifecycleTypeOK, HasDenomination

(* admin_delete_market leaves nothing under the id.                        *)
LEMMA AdminDeleteMarketFacts ==
  ASSUME LifecycleTypeOK, NEW m \in Markets, AdminDeleteMarket(m)
  PROVE  /\ LifecycleTypeOK' /\ OthersUntouched(m) /\ markets'[m] = FreshMarket
         /\ UNCHANGED <<accounts, prev_order_sequence_number>>
PROOF
  <1>1. TypeOK /\ prev_order_sequence_number \in Nat
        BY DEF LifecycleTypeOK, TypeOK
  <1>2. IsMarket(FreshMarket, prev_order_sequence_number)
        BY <1>1, FreshIsMarket
  <1>3. /\ markets' = [markets EXCEPT ![m] = FreshMarket]
        /\ UNCHANGED <<contract_state, accounts, prev_order_sequence_number>>
        /\ created' = created \ {m}
        /\ known' = [known EXCEPT ![m] = {}]
        /\ metadata' = metadata
        BY DEF AdminDeleteMarket
  <1>4. TypeOK' /\ OthersUntouched(m) /\ markets'[m] = FreshMarket
        BY <1>1, <1>2, <1>3, MarketReplaced
  <1>5. /\ known \in [Markets -> SUBSET PairSides] /\ created \subseteq Markets
        /\ metadata \in [Markets -> [PairSides -> Nat]]
        BY DEF LifecycleTypeOK
  <1>6. \A k \in Markets \ created' : markets'[k] = FreshMarket /\ known'[k] = {}
        BY <1>3, <1>4, <1>5 DEF LifecycleTypeOK, OthersUntouched
  <1>7. \A k \in Markets : DOMAIN markets'[k].book # {} => "Base" \in known'[k]
    <2> SUFFICES ASSUME NEW k \in Markets, DOMAIN markets'[k].book # {}
                 PROVE  "Base" \in known'[k]
        OBVIOUS
    <2>1. k # m
          BY <1>4 DEF FreshMarket, EmptyBook
    <2>2. markets'[k] = markets[k] /\ known'[k] = known[k]
          BY <1>3, <1>4, <1>5, <2>1 DEF OthersUntouched
    <2>. QED  BY <2>2 DEF LifecycleTypeOK, HasDenomination
  <1>8. created' \subseteq Markets /\ known' \in [Markets -> SUBSET PairSides]
        BY <1>3, <1>5
  <1>. QED  BY <1>3, <1>4, <1>5, <1>6, <1>7, <1>8 DEF LifecycleTypeOK, HasDenomination

(* A metadata callback touches neither books nor accounts.                 *)
LEMMA OnMetadataFacts ==
  ASSUME LifecycleTypeOK, NEW m \in Markets, NEW side \in PairSides, NEW isValid,
         OnMetadata(m, side, isValid)
  PROVE  /\ LifecycleTypeOK' /\ OthersUntouched(m)
         /\ markets'[m].book = markets[m].book
         /\ StateKept(m) \/ markets'[m].state = "Active"
         /\ UNCHANGED <<accounts, prev_order_sequence_number>>
PROOF
  <1>1. /\ TypeOK /\ markets = [k \in Markets |-> markets[k]]
        /\ IsMarket(markets[m], prev_order_sequence_number)
        BY DEF LifecycleTypeOK, TypeOK
  <1>2. /\ known \in [Markets -> SUBSET PairSides] /\ created \subseteq Markets
        /\ metadata \in [Markets -> [PairSides -> Nat]]
        BY DEF LifecycleTypeOK
  <1>3. /\ metadata[m][side] > 0
        /\ metadata' = [metadata EXCEPT ![m][side] = @ - 1]
        /\ UNCHANGED <<contract_state, accounts, prev_order_sequence_number>>
        /\ created' = created
        BY DEF OnMetadata
  <1>4. metadata' \in [Markets -> [PairSides -> Nat]]
    <2>1. metadata[m] \in [PairSides -> Nat] /\ metadata[m][side] - 1 \in Nat
          BY <1>2, <1>3
    <2>2. [metadata[m] EXCEPT ![side] = @ - 1] \in [PairSides -> Nat]
          BY <2>1
    <2>. QED  BY <1>2, <1>3, <2>2
  <1>5. CASE m \in created /\ TokenOf(m, side) \in Readable
    <2> DEFINE market == [markets[m] EXCEPT !.state = IF isValid THEN "Active" ELSE @]
    <2>1. markets[m] \in [state : MarketStates, book : {markets[m].book}, fees_accrued : Nat,
                          minimum_bid_bps : BidWindows, maximum_ask_bps : AskWindows]
          BY <1>1 DEF IsMarket
    <2>2. /\ IsMarket(market, prev_order_sequence_number)
          /\ market.book = markets[m].book
          /\ market.state = markets[m].state \/ market.state = "Active"
      <3>1. CASE isValid
            BY <1>1, <2>1, <3>1 DEF IsMarket, MarketStates
      <3>2. CASE ~ isValid
            BY <1>1, <2>1, <3>2 DEF IsMarket, MarketStates
      <3>. QED  BY <3>1, <3>2
    <2>3. /\ markets' = [markets EXCEPT ![m] = market]
          /\ known' = [known EXCEPT ![m] = @ \cup {side}]
          BY <1>1, <1>5 DEF OnMetadata
    <2> HIDE DEF market
    <2>4. TypeOK' /\ OthersUntouched(m) /\ markets'[m] = market
          BY <1>1, <1>3, <2>2, <2>3, MarketReplaced
    <2>5. known' \in [Markets -> SUBSET PairSides] /\ \A k \in Markets : known[k] \subseteq known'[k]
          BY <1>2, <2>3
    <2>6. \A k \in Markets \ created : markets'[k] = FreshMarket /\ known'[k] = {}
          BY <1>2, <1>5, <2>3, <2>4 DEF LifecycleTypeOK, OthersUntouched
    <2>7. \A k \in Markets : markets'[k].book = markets[k].book
          BY <2>2, <2>4 DEF OthersUntouched
    <2>8. \A k \in Markets : DOMAIN markets'[k].book # {} => "Base" \in known'[k]
          BY <2>5, <2>7 DEF LifecycleTypeOK, HasDenomination
    <2>9. LifecycleTypeOK'
          BY <1>2, <1>3, <1>4, <2>4, <2>5, <2>6, <2>8 DEF LifecycleTypeOK, HasDenomination
    <2>. QED  BY <1>3, <2>2, <2>4, <2>9 DEF StateKept
  <1>6. CASE ~ (m \in created /\ TokenOf(m, side) \in Readable)
    <2>1. UNCHANGED <<known, markets>>
          BY <1>6 DEF OnMetadata
    <2>2. TypeOK'
          BY <1>1, <1>3, <2>1 DEF TypeOK
    <2>3. LifecycleTypeOK'
          BY <1>2, <1>3, <1>4, <2>1, <2>2 DEF LifecycleTypeOK, HasDenomination
    <2>. QED  BY <1>1, <1>3, <2>1, <2>3 DEF OthersUntouched, StateKept
  <1>. QED  BY <1>5, <1>6

-----------------------------------------------------------------------------
(* Every step keeps the types.                                             *)
LEMMA TypesStep ==
  ASSUME LifecycleTypeOK, LifecycleNext
  PROVE  LifecycleTypeOK'
PROOF
  <1>1. CASE Switch /\ UNCHANGED lifecycleVars
    <2>1. TypeOK'
          BY <1>1, StepFacts DEF LifecycleTypeOK, Next
    <2>2. markets' = markets
          BY <1>1 DEF Switch, SetContractState
    <2>. QED  BY <1>1, <2>1, <2>2 DEF LifecycleTypeOK, HasDenomination, lifecycleVars
  <1>2. ASSUME NEW m \in created, UNCHANGED lifecycleVars,
               (HasDenomination(m) /\ NewOrder(m)) \/ Cancel(m) \/ Admin(m)
        PROVE  LifecycleTypeOK'
        BY <1>2, TradingTypes
  <1>3. ASSUME NEW m \in Markets, CreateMarket(m) \/ AdminDeleteMarket(m)
        PROVE  LifecycleTypeOK'
        BY <1>3, CreateMarketFacts, AdminDeleteMarketFacts
  <1>4. ASSUME NEW m \in Markets, NEW side \in PairSides,
               OnFtMetadata(m, side) \/ OnMtMetadata(m, side)
        PROVE  LifecycleTypeOK'
        BY <1>4, OnMetadataFacts DEF OnFtMetadata, OnMtMetadata
  <1>. QED  BY <1>1, <1>2, <1>3, <1>4 DEF LifecycleNext, NewOrder

(* A contract without markets has the right types.                         *)
LEMMA LifecycleInitTypes ==
  ASSUME LifecycleInit
  PROVE  LifecycleTypeOK
PROOF
  <1>1. \A m \in Markets : IsMarket(markets[m], 0)
        BY FreshIsMarket DEF LifecycleInit
  <1>2. TypeOK
    <2>1. /\ accounts = [a \in DOMAIN accounts |-> accounts[a]]
          /\ \A a \in DOMAIN accounts : IsAccount(accounts[a])
          /\ DOMAIN accounts \subseteq Accounts
          BY InitialAccountsAssumption DEF LifecycleInit
    <2>2. markets = [m \in Markets |-> markets[m]]
          BY DEF LifecycleInit
    <2>. QED  BY <1>1, <2>1, <2>2 DEF LifecycleInit, TypeOK, ContractStates
  <1>3. \A m \in Markets : markets[m] = FreshMarket /\ known[m] = {}
        BY DEF LifecycleInit
  <1>4. \A m \in Markets : DOMAIN markets[m].book = {}
        BY <1>3 DEF FreshMarket, EmptyBook
  <1>. QED  BY <1>2, <1>3, <1>4 DEF LifecycleInit, LifecycleTypeOK

(* Nothing is left of a market that does not exist, whatever callbacks are *)
(* still on their way to it, and no order rests where its refund could not *)
(* be computed: the base decimals are known wherever a book is not empty   *)
(* (external_tokens.rs, admin_delete_market).                              *)
THEOREM LifecycleTypes == LifecycleSpec => []LifecycleTypeOK
PROOF
  <1>1. LifecycleInit => LifecycleTypeOK
        BY LifecycleInitTypes
  <1>2. LifecycleTypeOK /\ [LifecycleNext]_allVars => LifecycleTypeOK'
    <2>1. LifecycleTypeOK /\ UNCHANGED allVars => LifecycleTypeOK'
          BY DEF LifecycleTypeOK, TypeOK, HasDenomination, allVars, vars, lifecycleVars
    <2>. QED  BY <2>1, TypesStep
  <1>. QED  BY <1>1, <1>2, PTL DEF LifecycleSpec

-----------------------------------------------------------------------------
(* An uninitialized market has no orders, if the owner does not make one   *)
(* uninitialized again: what admin_delete_market relies on.                *)
UninitializedEmpty ==
  \A m \in Markets : markets[m].state = "Uninitialized" => DOMAIN markets[m].book = {}

(* A step that is not one of Exchange leaves accounts and numbers alone,   *)
(* and the books too, unless it deletes a market that still has orders.    *)
Managed ==
  /\ UNCHANGED <<accounts, prev_order_sequence_number>>
  /\ \A k \in Markets : \A i \in DOMAIN markets'[k].book :
       i \in DOMAIN markets[k].book /\ markets'[k].book[i] = markets[k].book[i]
  /\ UninitializedEmpty =>
       \A k \in Markets : DOMAIN markets[k].book \subseteq DOMAIN markets'[k].book

(* Every step is a step of Exchange or one that manages markets.           *)
LEMMA ManagedStep ==
  ASSUME LifecycleTypeOK, LifecycleNext
  PROVE  Next \/ Managed
PROOF
  <1>1. CASE Switch
        BY <1>1 DEF Next
  <1>2. ASSUME NEW m \in created, NewOrder(m) \/ Cancel(m) \/ Admin(m)
        PROVE  Next
        BY <1>2 DEF Next, LifecycleTypeOK
  <1>3. ASSUME NEW m \in Markets, CreateMarket(m)
        PROVE  Managed
        BY <1>3, CreateMarketFacts DEF Managed
  <1>4. ASSUME NEW m \in Markets, AdminDeleteMarket(m)
        PROVE  Managed
    <2>1. /\ OthersUntouched(m) /\ markets'[m] = FreshMarket
          /\ UNCHANGED <<accounts, prev_order_sequence_number>>
          BY <1>4, AdminDeleteMarketFacts
    <2>2. DOMAIN markets'[m].book = {}
          BY <2>1 DEF FreshMarket, EmptyBook
    <2>3. UninitializedEmpty => DOMAIN markets[m].book = {}
          BY <1>4 DEF AdminDeleteMarket, CanDelete, UninitializedEmpty
    <2>. QED  BY <2>1, <2>2, <2>3 DEF Managed, OthersUntouched
  <1>5. ASSUME NEW m \in Markets, NEW side \in PairSides,
               OnFtMetadata(m, side) \/ OnMtMetadata(m, side)
        PROVE  Managed
    <2>1. /\ OthersUntouched(m) /\ markets'[m].book = markets[m].book
          /\ UNCHANGED <<accounts, prev_order_sequence_number>>
          BY <1>5, OnMetadataFacts DEF OnFtMetadata, OnMtMetadata
    <2>2. \A k \in Markets : markets'[k].book = markets[k].book
          BY <2>1 DEF OthersUntouched
    <2>. QED  BY <2>1, <2>2 DEF Managed
  <1>. QED  BY <1>1, <1>2, <1>3, <1>4, <1>5 DEF LifecycleNext, NewOrder

(* Order numbers are given out once and in order, and resting orders only  *)
(* ever shrink, also across the deletion of a market and its creation      *)
(* under the same id: one counter serves all markets (lib.rs).             *)
THEOREM LifecycleOrdersShrinkOnly == LifecycleSpec => OrdersOnlyShrink
PROOF
  <1>1. ASSUME LifecycleTypeOK, LifecycleNext PROVE OrdersShrink
    <2>1. TypeOK /\ \A m \in Markets : IsBook(markets[m].book, prev_order_sequence_number)
          BY <1>1 DEF LifecycleTypeOK, TypeOK, IsMarket, IsBook
    <2>2. CASE Next
          BY <2>1, <2>2, ShrinkInStep
    <2>3. CASE Managed
      <3>1. \A k \in Markets : \A i \in DOMAIN markets[k].book : markets[k].book[i].qty \in Nat
            BY <2>1, BookFinite DEF TypeOK, RestingOrder
      <3>. QED  BY <2>3, <3>1 DEF Managed, OrdersShrink
    <2>. QED  BY <1>1, <2>2, <2>3, ManagedStep
  <1>2. LifecycleTypeOK /\ [LifecycleNext]_allVars => [OrdersShrink]_vars
        BY <1>1 DEF allVars
  <1>. QED  BY <1>2, LifecycleTypes, PTL DEF LifecycleSpec, OrdersOnlyShrink

(* Uninitialized markets stay empty: orders are placed in active markets   *)
(* only, and no other step adds to a book.                                 *)
LEMMA EmptyStep ==
  ASSUME "Uninitialized" \notin MarketStatesTried,
         LifecycleTypeOK, UninitializedEmpty, LifecycleNext
  PROVE  UninitializedEmpty'
PROOF
  <1>1. TypeOK /\ created \subseteq Markets
        BY DEF LifecycleTypeOK
  <1>2. CASE Switch
        BY <1>2 DEF Switch, SetContractState, UninitializedEmpty
  <1>3. ASSUME NEW m \in Markets, OthersUntouched(m),
               markets'[m].state = "Uninitialized" => DOMAIN markets'[m].book = {}
        PROVE  UninitializedEmpty'
        BY <1>3 DEF OthersUntouched, UninitializedEmpty
  <1>4. ASSUME NEW m \in Markets, NewOrder(m)
        PROVE  UninitializedEmpty'
        BY <1>1, <1>3, <1>4, NewOrderMarket DEF StateKept
  <1>5. ASSUME NEW m \in Markets, Cancel(m) \/ Admin(m)
        PROVE  UninitializedEmpty'
    <2>1. /\ OthersUntouched(m) /\ BookLoses(m)
          /\ StateKept(m) \/ markets'[m].state # "Uninitialized"
          BY <1>1, <1>5, CancelMarket, AdminMarket
    <2>. QED  BY <1>3, <2>1 DEF BookLoses, StateKept, UninitializedEmpty
  <1>6. ASSUME NEW m \in Markets, CreateMarket(m)
        PROVE  UninitializedEmpty'
        BY <1>6, CreateMarketFacts DEF UninitializedEmpty
  <1>7. ASSUME NEW m \in Markets, AdminDeleteMarket(m)
        PROVE  UninitializedEmpty'
        BY <1>3, <1>7, AdminDeleteMarketFacts DEF FreshMarket, EmptyBook
  <1>8. ASSUME NEW m \in Markets, NEW side \in PairSides,
               OnFtMetadata(m, side) \/ OnMtMetadata(m, side)
        PROVE  UninitializedEmpty'
    <2>1. /\ OthersUntouched(m) /\ markets'[m].book = markets[m].book
          /\ StateKept(m) \/ markets'[m].state = "Active"
          BY <1>8, OnMetadataFacts DEF OnFtMetadata, OnMtMetadata
    <2>. QED  BY <1>3, <2>1 DEF StateKept, UninitializedEmpty
  <1>. QED  BY <1>1, <1>2, <1>4, <1>5, <1>6, <1>7, <1>8 DEF LifecycleNext, NewOrder

(* Books and account lists stay in step while a market comes and goes.     *)
LEMMA BooksMatchStep ==
  ASSUME LifecycleTypeOK, UninitializedEmpty, BooksMatchAccounts, LifecycleNext
  PROVE  BooksMatchAccounts'
PROOF
  <1>1. TypeOK
        BY DEF LifecycleTypeOK
  <1>2. CASE SomeOrderPlaced
        BY <1>1, <1>2, BooksMatchWhenPlaced
  <1>3. CASE SomeOrdersCancelled
        BY <1>1, <1>3, BooksMatchWhenCancelled
  <1>4. CASE OnlySwitched
        BY <1>4 DEF BooksMatchAccounts, OnlySwitched
  <1>5. CASE Managed
    <2>1. /\ accounts' = accounts
          /\ \A k \in Markets :
               /\ DOMAIN markets'[k].book = DOMAIN markets[k].book
               /\ \A i \in DOMAIN markets[k].book : markets'[k].book[i] = markets[k].book[i]
          BY <1>5 DEF Managed
    <2>2. \A k \in Markets : \A i \in DOMAIN markets'[k].book :
            markets'[k].book[i].owner \in DOMAIN accounts'
          BY <2>1 DEF BooksMatchAccounts
    <2>3. ASSUME NEW k \in Markets, NEW a \in DOMAIN accounts
          PROVE  accounts[a].open[k]
                   = {i \in DOMAIN markets'[k].book : markets'[k].book[i].owner = a}
      <3>1. accounts[a].open[k] = {i \in DOMAIN markets[k].book : markets[k].book[i].owner = a}
            BY DEF BooksMatchAccounts
      <3>. QED  BY <2>1, <3>1
    <2>. QED  BY <2>1, <2>2, <2>3 DEF BooksMatchAccounts
  <1>. QED  BY <1>1, <1>2, <1>3, <1>4, <1>5, StepFacts, ManagedStep

(* The orders an account lists are the orders of the books it owns, while  *)
(* markets are created, activated, paused, deleted and created again, as   *)
(* long as the owner does not set a market to Uninitialized by hand: that  *)
(* one call is all that separates admin_delete_market from losing orders.  *)
THEOREM LifecycleBooksMatch ==
  ASSUME "Uninitialized" \notin MarketStatesTried
  PROVE  LifecycleSpec => []BooksMatchAccounts
PROOF
  <1>1. LifecycleInit => UninitializedEmpty /\ BooksMatchAccounts
        BY InitialAccountsAssumption
        DEF LifecycleInit, UninitializedEmpty, BooksMatchAccounts, FreshMarket, EmptyBook
  <1>2. /\ LifecycleTypeOK /\ UninitializedEmpty /\ BooksMatchAccounts
        /\ [LifecycleNext]_allVars
        => UninitializedEmpty' /\ BooksMatchAccounts'
    <2>1. UninitializedEmpty /\ BooksMatchAccounts /\ UNCHANGED allVars
          => UninitializedEmpty' /\ BooksMatchAccounts'
          BY DEF UninitializedEmpty, BooksMatchAccounts, allVars, vars
    <2>. QED  BY <2>1, EmptyStep, BooksMatchStep
  <1>. QED  BY <1>1, <1>2, LifecycleTypes, PTL DEF LifecycleSpec

(* No account lists more than max_orders orders in a market, across its    *)
(* deletion and creation anew too.                                         *)
THEOREM LifecycleOrderLimitHolds ==
  ASSUME "Uninitialized" \notin MarketStatesTried
  PROVE  LifecycleSpec => []OrderLimit
PROOF
  <1>1. LifecycleInit => OrderLimit
    <2> SUFFICES ASSUME LifecycleInit, NEW a \in DOMAIN accounts, NEW m \in Markets
                 PROVE  Cardinality(accounts[a].open[m]) <= MarketParams[m].max_orders
        BY DEF OrderLimit
    <2>1. accounts[a].open[m] = {}
          BY InitialAccountsAssumption DEF LifecycleInit
    <2>2. MarketParams[m].max_orders \in Nat
          BY ParamsAssumption
    <2>. QED  BY <2>1, <2>2, FS_EmptySet
  <1>2. LifecycleTypeOK /\ BooksMatchAccounts /\ OrderLimit /\ [LifecycleNext]_allVars
        => OrderLimit'
    <2>1. ASSUME LifecycleTypeOK, BooksMatchAccounts, OrderLimit, LifecycleNext
          PROVE  OrderLimit'
      <3>1. TypeOK
            BY <2>1 DEF LifecycleTypeOK
      <3>2. CASE SomeOrderPlaced
            BY <2>1, <3>1, <3>2, LimitWhenPlaced
      <3>3. CASE SomeOrdersCancelled
            BY <2>1, <3>1, <3>3, LimitWhenCancelled
      <3>4. CASE OnlySwitched
            BY <2>1, <3>4 DEF OrderLimit, OnlySwitched
      <3>5. CASE Managed
            BY <2>1, <3>5 DEF OrderLimit, Managed
      <3>. QED  BY <2>1, <3>1, <3>2, <3>3, <3>4, <3>5, StepFacts, ManagedStep
    <2>2. OrderLimit /\ UNCHANGED allVars => OrderLimit'
          BY DEF OrderLimit, allVars, vars
    <2>. QED  BY <2>1, <2>2
  <1>. QED  BY <1>1, <1>2, LifecycleTypes, LifecycleBooksMatch, PTL DEF LifecycleSpec

(* Every order can be paid back while markets come and go: no account gets *)
(* short of storage by what is done to markets, and no order is in a book  *)
(* without being on the list of a registered account.                      *)
THEOREM LifecycleCancellable ==
  ASSUME "Uninitialized" \notin MarketStatesTried
  PROVE  LifecycleSpec => []AlwaysCancellable
PROOF
  <1>1. LifecycleInit => AccountsCovered
        BY InitialAccountsAssumption DEF LifecycleInit, AccountsCovered
  <1>2. LifecycleTypeOK /\ AccountsCovered /\ [LifecycleNext]_allVars => AccountsCovered'
    <2>1. ASSUME LifecycleTypeOK, AccountsCovered, LifecycleNext PROVE AccountsCovered'
      <3>1. CASE Next
            BY <2>1, <3>1, CoveredInStep DEF LifecycleTypeOK
      <3>2. CASE Managed
            BY <2>1, <3>2 DEF AccountsCovered, Managed
      <3>. QED  BY <2>1, <3>1, <3>2, ManagedStep
    <2>2. AccountsCovered /\ UNCHANGED allVars => AccountsCovered'
          BY DEF AccountsCovered, allVars, vars
    <2>. QED  BY <2>1, <2>2
  <1>3. LifecycleTypeOK /\ BooksMatchAccounts /\ AccountsCovered => AlwaysCancellable
        BY CoveredIsCancellable DEF LifecycleTypeOK
  <1>. QED  BY <1>1, <1>2, <1>3, LifecycleTypes, LifecycleBooksMatch, PTL DEF LifecycleSpec
=============================================================================
