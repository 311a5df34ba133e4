---------------------------- MODULE SwapsProofs ----------------------------
(***************************************************************************)
(* Proofs about swaps: a chain of market orders, paid with tokens sent     *)
(* along and settled on the state the swaps before have left, keeps the    *)
(* inductive invariant of Custody, and costs no account of the exchange    *)
(* anything, whatever the markets, fee rates, lot sizes and accounts.      *)
(*                                                                         *)
(* One swap.  Exchange's operators read the variables of the exchange, a   *)
(* swap works on the record of a chain instead.  What SolvencyProofs says  *)
(* of an order settled in the present state (SettledFromOutside) is needed *)
(* in that of the record: suppose that some record is a counterexample and *)
(* call it Odd; the instance X of SolvencyProofs has the accounts and      *)
(* markets of Odd for the variables.  There the order is settled fairly,   *)
(* so Odd is no counterexample, so there is none (OddIsSound, SwapIsFair). *)
(*                                                                         *)
(* A chain.  ExecuteSwaps folds over the swaps.  The fold is unfolded into *)
(* the states the chain passes through (ChainUnfolding), and the first of  *)
(* them that were not fair would be left by an unfair swap (ChainIsFair).  *)
(*                                                                         *)
(* A step.  Committing a chain and sending its output then keeps           *)
(* CustodyInv, as does sending the input back (SwapsInvHolds).             *)
(***************************************************************************)
EXTENDS Swaps, CustodyProofs, MatchingProofs

(* Sums of multiples.                                                      *)
LEMMA SumScaled ==
  ASSUME NEW S, IsFiniteSet(S), NEW f, NEW g, NEW c \in Nat,
         \A x \in S : f[x] \in Nat /\ g[x] = f[x] * c
  PROVE  SumFunctionOnSet(g, S) = SumFunctionOnSet(f, S) * c
PROOF
  <1> DEFINE Good == {T \in SUBSET S : SumFunctionOnSet(g, T) = SumFunctionOnSet(f, T) * c}
  <1>1. \A n \in Nat : n * c \in Nat /\ 0 * c = 0
        BY TimesNat
  <1>2. {} \in Good
        BY <1>1, SumOfEmpty
  <1>3. ASSUME NEW T \in SUBSET S, NEW x \in T, T \ {x} \in Good
        PROVE  T \in Good
    <2> DEFINE u == SumFunctionOnSet(f, T \ {x})
               v == SumFunctionOnSet(g, T \ {x})
    <2>1. IsFiniteSet(T) /\ IsFiniteSet(T \ {x})
          BY FS_Subset
    <2>2. /\ \A y \in T : f[y] \in Int /\ g[y] \in Int
          /\ \A y \in T \ {x} : f[y] \in Nat
          /\ f[x] \in Nat /\ g[x] = f[x] * c
          BY <1>1
    <2>3. SumFunctionOnSet(f, T) = f[x] + u /\ SumFunctionOnSet(g, T) = g[x] + v
          BY <2>1, <2>2, SumRemove
    <2>4. u \in Nat
          BY <2>1, <2>2, SumNat
    <2>5. v = u * c
          BY <1>3
    <2> HIDE DEF u, v
    <2>6. \A a, b \in Nat : a * c + b * c = (a + b) * c
          OBVIOUS
    <2>7. g[x] + v = (f[x] + u) * c
          BY <2>2, <2>4, <2>5, <2>6
    <2>. QED  BY <2>3, <2>7
  <1> HIDE DEF Good
  <1>4. S \in Good
        BY <1>2, <1>3, SubsetInduction
  <1>. QED  BY <1>4 DEF Good

(* Base amounts to lots and back: nothing is gained.                       *)
LEMMA LotsOfAmount ==
  ASSUME NEW p, IsMarketParams(p), NEW amount \in Nat
  PROVE  BaseNativeToLots(p, amount) * p.base_lot <= amount
PROOF
  <1> DEFINE d == p.base_lot
             q == amount \div d
  <1>1. d \in Nat \ {0}
        BY DEF IsMarketParams
  <1> HIDE DEF d
  <1>2. q \in Nat /\ d * q <= amount
        BY <1>1, DivNat
  <1>3. BaseNativeToLots(p, amount) = AsU64(q)
        BY DEF BaseNativeToLots, d
  <1> HIDE DEF q
  <1>4. AsU64(q) \in Nat /\ AsU64(q) <= q
        BY <1>2, AsU64Smaller
  <1>5. AsU64(q) * d <= q * d /\ q * d \in Nat /\ AsU64(q) * d \in Nat /\ q * d = d * q
        BY <1>1, <1>2, <1>4, TimesNat
  <1>. QED  BY <1>2, <1>3, <1>5 DEF d

(* A swap that sells trades no more than the tokens it holds.              *)
LEMMA SellFits ==
  ASSUME NEW p, IsMarketParams(p), NEW n \in Nat, NEW book, IsBook(book, n), NEW o,
         o.side \in Sides, NEW amount \in Nat, o.qty = BaseNativeToLots(p, amount)
  PROVE  LET fills == Matches(p, book, o)
         IN  SumFunction([i \in DOMAIN fills |-> BaseLotsToNative(p, fills[i])]) <= amount
PROOF
  <1> DEFINE fills == Matches(p, book, o)
             hit   == DOMAIN fills
             g     == [i \in hit |-> BaseLotsToNative(p, fills[i])]
             d     == p.base_lot
  <1>1. hit \in SUBSET DOMAIN book /\ \A i \in hit : fills[i] \in 1 .. book[i].qty
        BY MatchesFacts
  <1>2. IsFiniteSet(hit) /\ \A i \in DOMAIN book : book[i].qty \in Nat
        BY <1>1, BookFinite DEF RestingOrder
  <1>3. \A i \in hit : fills[i] \in Nat
        BY <1>1, <1>2
  <1>4. d \in Nat \ {0} /\ o.qty \in Nat
    <2>1. d \in Nat \ {0}
          BY DEF IsMarketParams
    <2>2. o.qty \in Nat
          BY LotsFacts
    <2>. QED  BY <2>1, <2>2
  <1>5. /\ SumFunction(fills) \in Nat /\ SumFunction(fills) <= o.qty
        /\ SumFunction(fills) = SumFunctionOnSet(fills, hit)
        BY <1>4, FillsFit DEF SumFunction
  <1>6. \A i \in hit : g[i] = fills[i] * d
        BY DEF BaseLotsToNative
  <1>7. SumFunction(g) = SumFunctionOnSet(g, hit)
        BY DEF SumFunction
  <1> HIDE DEF fills, hit, g, d
  <1>8. SumFunctionOnSet(g, hit) = SumFunctionOnSet(fills, hit) * d
        BY <1>2, <1>3, <1>4, <1>6, SumScaled
  <1>9. o.qty * d <= amount
        BY LotsOfAmount DEF d
  <1>10. /\ SumFunction(fills) * d <= o.qty * d
         /\ SumFunction(fills) * d \in Nat /\ o.qty * d \in Nat
        BY <1>4, <1>5, TimesNat
  <1>. QED  BY <1>5, <1>7, <1>8, <1>9, <1>10 DEF g, hit, fills

-----------------------------------------------------------------------------
(* What TypeOK, BooksMatchAccounts and AccountsCovered say of a state      *)
(* between two swaps.                                                      *)
IsSwapState(st) ==
  /\ st.sequence \in Nat /\ st.amount \in Nat /\ st.token \in Tokens
  /\ AreAccounts(st.accounts) /\ AreMarkets(st.markets, st.sequence)
  /\ ListsMatch(st.accounts, st.markets) /\ AreCovered(st.accounts)

(* A swap in market m that leads from st to new: no account loses, no      *)
(* other market changes, and accounts, market and swap hold no more of any *)
(* token than they did.                                                    *)
SwapsFairly(st, m, new) ==
  /\ IsSwapState(new)
  /\ NoneLoses(st.accounts, new.accounts)
  /\ \A k \in Markets \ {m} : new.markets[k] = st.markets[k]
  /\ \A t : /\ HeldBy(st.accounts, t) \in Nat /\ HeldBy(new.accounts, t) \in Nat
            /\ DueOf(m, st.markets[m], t) \in Nat /\ DueOf(m, new.markets[m], t) \in Nat
            /\ HeldBy(new.accounts, t) + DueOf(m, new.markets[m], t)
                   + In(new.token, t, new.amount)
                 <= HeldBy(st.accounts, t) + DueOf(m, st.markets[m], t)
                      + In(st.token, t, st.amount)

(* ... and the makers in its market are paid.                              *)
PaysMakers(st, w, new) ==
  MakersPaid(w.market, w.side, st.markets[w.market].book, new.markets[w.market].book,
             st.accounts, new.accounts)

(* All swaps are fair in this state.                                       *)
Sound(st) ==
  \A a \in Accounts, w \in SwapActions :
    IsSwapState(st) /\ st.ok /\ CanSwap(st, a, w, InternalSwap(st, a, w))
      => /\ SwapsFairly(st, w.market, ExecuteSwapAction(st, a, w))
         /\ PaysMakers(st, w, ExecuteSwapAction(st, a, w))

(* A counterexample, if there is one; and the exchange in that state.      *)
Odd == CHOOSE st : ~ Sound(st)

X == INSTANCE SolvencyProofs WITH accounts <- Odd.accounts, markets <- Odd.markets,
                                  prev_order_sequence_number <- Odd.sequence, contract_state <- "Active"

-----------------------------------------------------------------------------
(* The operators of X, and those of Exchange that a swap uses in this      *)
(* state, are the operators of this module where they depend on no         *)
(* variable, and each other's where they do.                               *)

(* Sums and cardinalities.                                                 *)
LEMMA SumX ==
  ASSUME NEW f
  PROVE  X!SumFunction(f) = SumFunction(f)
BY Zenon DEF SumFunction, SumFunctionOnSet, FoldFunctionOnSet, MapThenFoldSet,
   X!SumFunction, X!SumFunctionOnSet, X!FoldFunctionOnSet, X!MapThenFoldSet

LEMMA SumAt ==
  ASSUME NEW f
  PROVE  At(Odd)!SumFunction(f) = SumFunction(f)
BY Zenon DEF SumFunction, SumFunctionOnSet, FoldFunctionOnSet, MapThenFoldSet,
   At!SumFunction, At!SumFunctionOnSet, At!FoldFunctionOnSet, At!MapThenFoldSet

LEMMA SumOnX ==
  ASSUME NEW f, NEW S
  PROVE  X!SumFunctionOnSet(f, S) = SumFunctionOnSet(f, S)
BY Zenon DEF SumFunctionOnSet, FoldFunctionOnSet, MapThenFoldSet, X!SumFunctionOnSet,
   X!FoldFunctionOnSet, X!MapThenFoldSet

LEMMA CardX ==
  ASSUME NEW S
  PROVE  X!Cardinality(S) = Cardinality(S)
BY Zenon DEF Cardinality, X!Cardinality

LEMMA CardAt ==
  ASSUME NEW S
  PROVE  At(Odd)!Cardinality(S) = Cardinality(S)
BY Zenon DEF Cardinality, At!Cardinality

(* Quote values.                                                           *)
LEMMA ValueX ==
  ASSUME NEW p, NEW x, NEW y
  PROVE  X!QuoteValueOfLots(p, x, y) = QuoteValueOfLots(p, x, y)
BY Zenon DEF QuoteValueOfLots, QuoteValue, BaseLotsToNative, QuoteLotsToNative,
   X!QuoteValueOfLots, X!QuoteValue, X!BaseLotsToNative, X!QuoteLotsToNative

(* What an order takes from a book, and the book after it.                 *)
LEMMA MakersX ==
  ASSUME NEW book, NEW o
  PROVE  X!Makers(book, o) = Makers(book, o)
BY Zenon DEF Makers, X!Makers

LEMMA FilledX ==
  ASSUME NEW p, NEW book, NEW o, NEW i
  PROVE  X!LotsFilled(p, book, o, i) = LotsFilled(p, book, o, i)
BY CardX, Zenon DEF LotsFilled, Ahead, Makers, Precedes, QuoteValueOfLots, QuoteValue,
   BaseLotsToNative, QuoteLotsToNative, SumFunction, SumFunctionOnSet, FoldFunctionOnSet,
   MapThenFoldSet, X!LotsFilled, X!Ahead, X!Makers, X!Precedes, X!QuoteValueOfLots,
   X!QuoteValue, X!BaseLotsToNative, X!QuoteLotsToNative, X!SumFunction,
   X!SumFunctionOnSet, X!FoldFunctionOnSet, X!MapThenFoldSet

LEMMA CrossedX ==
  ASSUME NEW p, NEW book, NEW o
  PROVE  X!Crossed(p, book, o) = Crossed(p, book, o)
BY FilledX, MakersX DEF Crossed, X!Crossed

LEMMA RejectedX ==
  ASSUME NEW p, NEW book, NEW o
  PROVE  X!Rejected(p, book, o) = Rejected(p, book, o)
BY CrossedX, MakersX, SumX DEF Rejected, X!Rejected

LEMMA MatchesX ==
  ASSUME NEW p, NEW book, NEW o
  PROVE  X!Matches(p, book, o) = Matches(p, book, o)
BY CrossedX, RejectedX DEF Matches, X!Matches

LEMMA OpenX ==
  ASSUME NEW p, NEW book, NEW o
  PROVE  X!OpenQty(p, book, o) = OpenQty(p, book, o)
BY MatchesX, RejectedX, SumX DEF OpenQty, SaturatingSub, X!OpenQty, X!SaturatingSub

LEMMA BookAfterX ==
  ASSUME NEW p, NEW book, NEW o, NEW id
  PROVE  X!BookAfter(p, book, o, id) = BookAfter(p, book, o, id)
BY OpenX, MatchesX DEF BookAfter, FullyFilled, X!BookAfter, X!FullyFilled

(* Fees.                                                                   *)
LEMMA FeeX ==
  ASSUME NEW rate, NEW x
  PROVE  X!TakerFee(rate, x) = TakerFee(rate, x)
BY Zenon DEF TakerFee, X!TakerFee

(* What the fills of an order trade, and the rebates on them.              *)
LEMMA QuoteTradedAt ==
  ASSUME NEW m, NEW fills
  PROVE  At(Odd)!QuoteTraded(m, fills) = X!QuoteTraded(m, fills)
BY SumAt, SumX, Zenon DEF At!QuoteTraded, At!QuotePaid, At!QuoteValueOfLots,
   At!QuoteValue, At!BaseLotsToNative, At!QuoteLotsToNative, X!QuoteTraded, X!QuotePaid,
   X!QuoteValueOfLots, X!QuoteValue, X!BaseLotsToNative, X!QuoteLotsToNative

LEMMA BaseTradedAt ==
  ASSUME NEW m, NEW fills
  PROVE  At(Odd)!BaseTraded(m, fills) = X!BaseTraded(m, fills)
BY SumAt, SumX, Zenon DEF At!BaseTraded, At!BaseLotsToNative, X!BaseTraded,
   X!BaseLotsToNative

LEMMA RebateAt ==
  ASSUME NEW m, NEW fills
  PROVE  At(Odd)!TotalMakerRebate(m, fills) = X!TotalMakerRebate(m, fills)
BY SumAt, SumX, Zenon DEF At!TotalMakerRebate, At!RebateOf, At!MakerRebate, At!QuotePaid,
   At!QuoteValueOfLots, At!QuoteValue, At!BaseLotsToNative, At!QuoteLotsToNative,
   X!TotalMakerRebate, X!RebateOf, X!MakerRebate, X!QuotePaid, X!QuoteValueOfLots,
   X!QuoteValue, X!BaseLotsToNative, X!QuoteLotsToNative

(* The accounts of the makers, settled.                                    *)
LEMMA SettleMakersAt ==
  ASSUME NEW m, NEW fills, NEW side
  PROVE  At(Odd)!SettleMakerFills(m, fills, side) = X!SettleMakerFills(m, fills, side)
BY Zenon DEF At!SettleMakerFills, At!MakerAccount, At!MakerCredited, At!FilledOf,
   At!RebateOf, At!QuotePaid, At!MakerRebate, At!FullyFilled, At!RemoveOrderInfos,
   At!Deposit, At!Balance, At!QuoteValueOfLots, At!QuoteValue, At!BaseLotsToNative,
   At!QuoteLotsToNative, At!SumFunction, At!SumFunctionOnSet, At!FoldFunctionOnSet,
   At!MapThenFoldSet, X!SettleMakerFills, X!MakerAccount, X!MakerCredited, X!FilledOf,
   X!RebateOf, X!QuotePaid, X!MakerRebate, X!FullyFilled, X!RemoveOrderInfos, X!Deposit,
   X!Balance, X!QuoteValueOfLots, X!QuoteValue, X!BaseLotsToNative, X!QuoteLotsToNative,
   X!SumFunction, X!SumFunctionOnSet, X!FoldFunctionOnSet, X!MapThenFoldSet

LEMMA MakerAccountAt ==
  ASSUME NEW m, NEW fills, NEW side, NEW b, NEW settled
  PROVE  At(Odd)!MakerAccount(m, fills, side, b, settled) = X!MakerAccount(m, fills, side, b, settled)
BY Zenon DEF At!MakerAccount, At!MakerCredited, At!FilledOf, At!RebateOf, At!QuotePaid,
   At!MakerRebate, At!FullyFilled, At!RemoveOrderInfos, At!Deposit, At!Balance,
   At!QuoteValueOfLots, At!QuoteValue, At!BaseLotsToNative, At!QuoteLotsToNative,
   At!SumFunction, At!SumFunctionOnSet, At!FoldFunctionOnSet, At!MapThenFoldSet,
   X!MakerAccount, X!MakerCredited, X!FilledOf, X!RebateOf, X!QuotePaid, X!MakerRebate,
   X!FullyFilled, X!RemoveOrderInfos, X!Deposit, X!Balance, X!QuoteValueOfLots,
   X!QuoteValue, X!BaseLotsToNative, X!QuoteLotsToNative, X!SumFunction,
   X!SumFunctionOnSet, X!FoldFunctionOnSet, X!MapThenFoldSet

(* Accounts: their storage, deposits, balances and types.                  *)
LEMMA CoveredX ==
  ASSUME NEW acc
  PROVE  X!IsStorageCovered(acc) <=> IsStorageCovered(acc)
BY CardX DEF IsStorageCovered, BorshSize, OpenOrders, MarketsWithOrders,
   X!IsStorageCovered, X!BorshSize, X!OpenOrders, X!MarketsWithOrders

LEMMA CoveredAt ==
  ASSUME NEW acc
  PROVE  At(Odd)!IsStorageCovered(acc) <=> IsStorageCovered(acc)
BY CardAt DEF IsStorageCovered, BorshSize, OpenOrders, MarketsWithOrders,
   At!IsStorageCovered, At!BorshSize, At!OpenOrders, At!MarketsWithOrders

LEMMA DepositX ==
  ASSUME NEW acc, NEW token, NEW amount
  PROVE  X!Deposit(acc, token, amount) = Deposit(acc, token, amount)
BY Zenon DEF Deposit, Balance, X!Deposit, X!Balance

LEMMA BalanceX ==
  ASSUME NEW acc, NEW token
  PROVE  X!Balance(acc, token) = Balance(acc, token)
BY Zenon DEF Balance, X!Balance

LEMMA AccountX ==
  ASSUME NEW acc
  PROVE  X!IsAccount(acc) <=> IsAccount(acc)
BY Zenon DEF IsAccount, IsPartialFunction, X!IsAccount, X!IsPartialFunction

(* Amounts of one token.                                                   *)
LEMMA InX ==
  ASSUME NEW token, NEW t, NEW amount
  PROVE  X!In(token, t, amount) = In(token, t, amount)
BY Zenon DEF In, X!In

(* Whether settling the makers panics.                                     *)
LEMMA MakersCoveredAt ==
  ASSUME NEW m, NEW fills, NEW side
  PROVE  At(Odd)!MakersCovered(m, fills, side) <=> X!MakersCovered(m, fills, side)
PROOF
  <1>1. \A i, j : At(Odd)!Precedes(Odd.markets[m].book, i, j) <=> X!Precedes(Odd.markets[m].book, i, j)
        BY DEF At!Precedes, X!Precedes
  <1>2. \A b, settled : At(Odd)!IsStorageCovered(At(Odd)!MakerAccount(m, fills, side, b, settled))
                         <=> X!IsStorageCovered(X!MakerAccount(m, fills, side, b, settled))
        BY MakerAccountAt, CoveredAt, CoveredX
  <1>3. \A i : {j \in DOMAIN fills : j = i \/ At(Odd)!Precedes(Odd.markets[m].book, j, i)}
                 = {j \in DOMAIN fills : j = i \/ X!Precedes(Odd.markets[m].book, j, i)}
        BY <1>1
  <1>. QED  BY <1>2, <1>3 DEF At!MakersCovered, X!MakersCovered

(* The account of the referrer, settled.                                   *)
LEMMA SettleReferrerX ==
  ASSUME NEW accs, NEW token, NEW referrer, NEW rest
  PROVE  X!SettleReferrer(accs, token, referrer, rest) = SettleReferrer(accs, token, referrer, rest)
PROOF
  <1> DEFINE credited(r) == Deposit(accs[r], token, rest)
             payees  == {r \in referrer : r \in DOMAIN accs /\ IsStorageCovered(credited(r))}
             payeesX == {r \in referrer : /\ r \in DOMAIN accs
                                          /\ X!IsStorageCovered(X!Deposit(accs[r], token, rest))}
  <1>1. payeesX = payees
        BY CoveredX, DepositX
  <1>2. [b \in DOMAIN accs |-> IF b \in payeesX THEN X!Deposit(accs[b], token, rest) ELSE accs[b]]
          = [b \in DOMAIN accs |-> IF b \in payees THEN credited(b) ELSE accs[b]]
    <2> HIDE DEF payees, payeesX
    <2>. QED  BY <1>1, DepositX
  <1>3. SettleReferrer(accs, token, referrer, rest)
          = [accounts |-> [b \in DOMAIN accs |-> IF b \in payees THEN credited(b) ELSE accs[b]],
             paid |-> IF payees = {} THEN 0 ELSE rest]
        BY DEF SettleReferrer, ReferrerRebate
  <1>4. X!SettleReferrer(accs, token, referrer, rest)
          = [accounts |-> [b \in DOMAIN accs |->
                             IF b \in payeesX THEN X!Deposit(accs[b], token, rest) ELSE accs[b]],
             paid |-> IF payeesX = {} THEN 0 ELSE rest]
        BY DEF X!SettleReferrer, X!ReferrerRebate
  <1> HIDE DEF payees, payeesX
  <1>. QED  BY <1>1, <1>2, <1>3, <1>4

(* What accounts hold and a market owes.                                   *)
LEMMA HeldByX ==
  ASSUME NEW accs, NEW t
  PROVE  X!HeldBy(accs, t) = HeldBy(accs, t)
PROOF
  <1>1. [a \in DOMAIN accs |-> X!Balance(accs[a], t)] = [a \in DOMAIN accs |-> Balance(accs[a], t)]
        BY BalanceX
  <1>. QED  BY <1>1, SumX DEF X!HeldBy, HeldBy

LEMMA DueOfX ==
  ASSUME NEW m, NEW market, NEW t
  PROVE  X!DueOf(m, market, t) = DueOf(m, market, t)
PROOF
  <1>1. \A p, order : X!GetRefundAmount(p, order) = GetRefundAmount(p, order)
        BY Zenon DEF X!GetRefundAmount, GetRefundAmount, X!QuoteValueOfLots, QuoteValueOfLots,
                     X!QuoteValue, QuoteValue, X!BaseLotsToNative, BaseLotsToNative,
                     X!QuoteLotsToNative, QuoteLotsToNative
  <1>2. \A p, order : X!RefundToken(p, order) = RefundToken(p, order)
        BY DEF X!RefundToken, RefundToken
  <1>3. ASSUME NEW p, NEW book
        PROVE  X!LockedOf(p, book, t) = LockedOf(p, book, t)
    <2>1. {i \in DOMAIN book : X!RefundToken(p, book[i]) = t}
            = {i \in DOMAIN book : RefundToken(p, book[i]) = t}
          BY <1>2
    <2> DEFINE S == {i \in DOMAIN book : RefundToken(p, book[i]) = t}
    <2>2. [i \in S |-> X!GetRefundAmount(p, book[i])] = [i \in S |-> GetRefundAmount(p, book[i])]
      <3> HIDE DEF S
      <3>. QED  BY <1>1
    <2>. QED  BY <2>1, <2>2, SumX DEF X!LockedOf, LockedOf
  <1>. QED  BY <1>3, InX DEF X!DueOf, DueOf

(* Whether makers are paid.                                                *)
LEMMA PaidX ==
  ASSUME NEW m, NEW side, NEW old, NEW new, NEW accs, NEW accs2
  PROVE  X!MakersPaid(m, side, old, new, accs, accs2) <=> MakersPaid(m, side, old, new, accs, accs2)
PROOF
  <1>1. ASSUME NEW b, NEW s
        PROVE  X!DueSince(m, b, s, old, new) = DueSince(m, b, s, old, new)
    <2>1. X!OrdersOf(old, b, s) = OrdersOf(old, b, s)
          BY DEF X!OrdersOf, OrdersOf, X!OnSide, OnSide
    <2>2. \A x, price : X!DueFor(m, s, x, price) = DueFor(m, s, x, price)
          BY ValueX, Zenon DEF X!DueFor, DueFor, X!BaseLotsToNative, BaseLotsToNative
    <2>3. \A i : X!QtyLeft(new, i) = QtyLeft(new, i)
          BY DEF X!QtyLeft, QtyLeft
    <2>4. [i \in OrdersOf(old, b, s) |->
             X!DueFor(m, s, old[i].qty - X!QtyLeft(new, i), old[i].price)]
            = [i \in OrdersOf(old, b, s) |->
                 DueFor(m, s, old[i].qty - QtyLeft(new, i), old[i].price)]
          BY <2>2, <2>3
    <2>. QED  BY <2>1, <2>4, SumX DEF X!DueSince, DueSince
  <1>2. X!OnlyHits(side, old, new) <=> OnlyHits(side, old, new)
        BY Zenon DEF X!OnlyHits, OnlyHits, X!KeepsOrders, KeepsOrders, X!KeepsSide,
                     KeepsSide, X!OnSide, OnSide
  <1>3. \A s : X!GainToken(m, s) = GainToken(m, s)
        BY DEF X!GainToken, GainToken
  <1>4. X!Sides = Sides
        BY DEF X!Sides, Sides
  <1>. QED  BY <1>1, <1>2, <1>3, <1>4, BalanceX DEF X!MakersPaid, MakersPaid

(* What is known of a state between two swaps.                             *)
LEMMA PredicatesX ==
  /\ \A accs : X!AreAccounts(accs) <=> AreAccounts(accs)
  /\ \A mkts, last : X!AreMarkets(mkts, last) <=> AreMarkets(mkts, last)
  /\ \A accs, mkts : X!ListsMatch(accs, mkts) <=> ListsMatch(accs, mkts)
  /\ \A accs : X!AreCovered(accs) <=> AreCovered(accs)
  /\ \A old, new : X!NoneLoses(old, new) <=> NoneLoses(old, new)
PROOF
  <1>1. \A accs : X!AreAccounts(accs) <=> AreAccounts(accs)
        BY AccountX DEF X!AreAccounts, AreAccounts
  <1>2. \A mkts, last : X!AreMarkets(mkts, last) <=> AreMarkets(mkts, last)
        BY Zenon DEF X!AreMarkets, AreMarkets, X!IsMarket, IsMarket, X!MarketStates, MarketStates,
                     X!IsPartialFunction, IsPartialFunction, X!RestingOrder, RestingOrder,
                     X!Sides, Sides
  <1>3. \A accs, mkts : X!ListsMatch(accs, mkts) <=> ListsMatch(accs, mkts)
        BY Zenon DEF X!ListsMatch, ListsMatch
  <1>4. \A accs : X!AreCovered(accs) <=> AreCovered(accs)
        BY CoveredX DEF X!AreCovered, AreCovered
  <1>5. \A old, new : X!NoneLoses(old, new) <=> NoneLoses(old, new)
        BY BalanceX DEF X!NoneLoses, NoneLoses
  <1>. QED  BY <1>1, <1>2, <1>3, <1>4, <1>5

(* The assumptions of Exchange, as X states them.                          *)
LEMMA FiniteX == \A S : X!IsFiniteSet(S) <=> IsFiniteSet(S)
BY Zenon DEF X!IsFiniteSet, IsFiniteSet

LEMMA AssumptionsX ==
  /\ X!IsFiniteSet(Accounts) /\ X!IsFiniteSet(Markets) /\ X!IsFiniteSet(Tokens)
  /\ TypesTried \subseteq X!LimitOrderTypes
  /\ \A a \in DOMAIN InitialAccounts : /\ X!IsAccount(InitialAccounts[a])
                                       /\ X!IsStorageCovered(InitialAccounts[a])
PROOF
  <1>1. X!IsFiniteSet(Accounts) /\ X!IsFiniteSet(Markets) /\ X!IsFiniteSet(Tokens)
        BY FiniteX, FinitenessAssumption, EntriesAssumption
  <1>2. TypesTried \subseteq X!LimitOrderTypes
        BY InputAssumption DEF X!LimitOrderTypes, LimitOrderTypes
  <1>3. \A a \in DOMAIN InitialAccounts : /\ X!IsAccount(InitialAccounts[a])
                                          /\ X!IsStorageCovered(InitialAccounts[a])
        BY InitialAccountsAssumption, AccountX, CoveredX
  <1>. QED  BY <1>1, <1>2, <1>3

(* SettledFromOutside of SolvencyProofs, in the state Odd.                 *)
LEMMA SettledX ==
  ASSUME X!AreAccounts(Odd.accounts), X!AreMarkets(Odd.markets, Odd.sequence),
         Odd.sequence \in Nat,
         X!ListsMatch(Odd.accounts, Odd.markets), X!AreCovered(Odd.accounts),
         X!IsFiniteSet(DOMAIN Odd.accounts),
         NEW m \in Markets, NEW o, NEW referrer, X!CanSettle(m, o, referrer)
  PROVE  X!FairlySettled(m, o, referrer)
PROOF
  <1>1. "Active" \in X!ContractStates
    BY DEF X!ContractStates
  <1>2. /\ Traders \subseteq Accounts /\ Referrers \subseteq Accounts
        /\ Prices \subseteq Nat \ {0} /\ Quantities \subseteq Nat \ {0}
        /\ MaxSpends \subseteq Nat \ {0} /\ TypesTried \subseteq X!LimitOrderTypes
        /\ ContractStatesTried \subseteq {"Active", "Paused", "CancelOnly"}
        /\ MarketStatesTried \subseteq {"Uninitialized", "Active", "Paused", "CancelOnly"}
        /\ BidWindows \subseteq Nat /\ AskWindows \subseteq Nat /\ WindowBps \in Nat
        /\ MaxSequence \in Nat
        BY InputAssumption, AssumptionsX, Zenon
  <1>3. /\ DOMAIN InitialAccounts \subseteq Accounts
        /\ InitialAccounts = [a \in DOMAIN InitialAccounts |-> InitialAccounts[a]]
        /\ \A a \in DOMAIN InitialAccounts :
             /\ X!IsAccount(InitialAccounts[a])
             /\ \A m_1 \in Markets : InitialAccounts[a].open[m_1] = {}
             /\ X!IsStorageCovered(InitialAccounts[a])
        BY InitialAccountsAssumption, AssumptionsX, Zenon
  <1>4. BalanceBytes <= OrderBytes /\ X!IsFiniteSet(Tokens)
        BY EntriesAssumption, AssumptionsX
  <1>5. X!IsFiniteSet(Accounts) /\ X!IsFiniteSet(Markets)
        BY AssumptionsX
  <1>. QED  BY <1>1, <1>2, <1>3, <1>4, <1>5, X!SettledFromOutside, SizeAssumption, ParamsAssumption,
               CreationAssumption, DivisorAssumption, U64Assumption, Zenon

(* The order of a swap.                                                    *)
LEMMA SwapOrderFacts ==
  ASSUME NEW a \in Accounts, NEW w \in SwapActions, NEW amount \in Nat
  PROVE  /\ w.market \in Markets /\ w.side \in Sides
         /\ w.referrer \in SUBSET Accounts /\ X!AtMostOne(w.referrer)
         /\ IsMarketParams(MarketParams[w.market])
         /\ LET o == SwapOrder(a, w, amount)
            IN  /\ o.owner = a /\ o.side = w.side /\ o.type = "Market"
                /\ o.qty \in Nat /\ X!IsNewOrder(o)
                /\ w.side = "Sell" => o.qty = BaseNativeToLots(MarketParams[w.market], amount)
PROOF
  <1> DEFINE p == MarketParams[w.market]
             o == SwapOrder(a, w, amount)
             q == IF w.side = "Buy" THEN U128Max ELSE amount
  <1>1. /\ w.market \in Markets /\ w.side \in Sides
        /\ w.referrer \in Optional(Accounts)
        BY DEF SwapActions
  <1>2. w.referrer \in SUBSET Accounts /\ X!AtMostOne(w.referrer)
        BY <1>1 DEF Optional, X!AtMostOne
  <1>3. IsMarketParams(p)
        BY <1>1, ParamsFacts
  <1>4. q \in Nat
    <2>1. U64Max + 1 \in Nat \ {0}
          BY U64Assumption
    <2>2. (U64Max + 1) * (U64Max + 1) \in Nat \ {0}
          BY <2>1
    <2>3. U128Max \in Nat
          BY <2>2 DEF U128Max
    <2>. QED  BY <2>3
  <1>5. /\ o.owner = a /\ o.side = w.side /\ o.type = "Market"
        /\ o.qty = BaseNativeToLots(p, q)
        BY DEF SwapOrder
  <1>6. w.side = "Sell" => q = amount
        OBVIOUS
  <1> HIDE DEF q, p, o
  <1>7. o.qty \in Nat
        BY <1>3, <1>4, <1>5, LotsFacts
  <1>8. X!IsNewOrder(o)
        BY <1>1, <1>5, <1>7 DEF X!IsNewOrder, Sides, X!Sides
  <1>. QED  BY <1>1, <1>2, <1>3, <1>5, <1>6, <1>7, <1>8 DEF p, o

(* The record internal_swap works out, in the operators of X.              *)
LEMMA SwapX ==
  ASSUME NEW a \in Accounts, NEW w \in SwapActions
  PROVE  LET m    == w.market
             o    == SwapOrder(a, w, Odd.amount)
             swap == InternalSwap(Odd, a, w)
         IN  /\ swap.order = o
             /\ swap.fills = X!FillsOf(m, o)
             /\ swap.traded = X!QuoteTraded(m, X!FillsOf(m, o))
             /\ swap.fee = X!FeeOf(m, o)
             /\ swap.rebate = X!TotalMakerRebate(m, X!FillsOf(m, o))
             /\ swap.settled = X!SettledFor(m, o, w.referrer)
             /\ w.side = "Buy" => swap.output = X!BaseTraded(m, X!FillsOf(m, o))
             /\ w.side = "Sell" => swap.output = X!QuoteTraded(m, X!FillsOf(m, o)) - X!FeeOf(m, o)
PROOF
  <1> DEFINE m      == w.market
             p      == MarketParams[m]
             o      == SwapOrder(a, w, Odd.amount)
             fills  == Matches(p, Odd.markets[m].book, o)
             traded == At(Odd)!QuoteTraded(m, fills)
             fee    == TakerFee(p.taker_rate, traded)
             rebate == At(Odd)!TotalMakerRebate(m, fills)
             swap   == InternalSwap(Odd, a, w)
  <1>1. fills = X!FillsOf(m, o)
        BY MatchesX DEF X!FillsOf
  <1>2. /\ swap.order = o /\ swap.fills = fills /\ swap.traded = traded /\ swap.fee = fee
        /\ swap.rebate = rebate
        /\ swap.settled = SettleSwap(Odd, w, fills, fee - rebate)
        /\ w.side = "Buy" => swap.output = At(Odd)!BaseTraded(m, fills)
        /\ w.side = "Sell" => swap.output = traded - fee
        BY DEF InternalSwap, SwapOutcome
  <1>3. o.side = w.side
        BY DEF SwapOrder
  <1> HIDE DEF fills, o, swap
  <1>4. traded = X!QuoteTraded(m, fills)
        BY QuoteTradedAt
  <1>5. rebate = X!TotalMakerRebate(m, fills)
        BY RebateAt
  <1>6. fee = X!FeeOf(m, o)
        BY <1>1, <1>4, FeeX DEF X!FeeOf
  <1>7. At(Odd)!BaseTraded(m, fills) = X!BaseTraded(m, fills)
        BY BaseTradedAt
  <1>8. SettleSwap(Odd, w, fills, fee - rebate) = X!SettledFor(m, o, w.referrer)
    <2>1. fee - rebate = X!RestOfFee(m, o)
          BY <1>1, <1>5, <1>6 DEF X!RestOfFee
    <2>2. At(Odd)!SettleMakerFills(m, fills, w.side) = X!SettleMakerFills(m, X!FillsOf(m, o), o.side)
          BY <1>1, <1>3, SettleMakersAt
    <2>. HIDE DEF fee, rebate
    <2>. QED  BY <2>1, <2>2, SettleReferrerX DEF SettleSwap, X!SettledFor
  <1> HIDE DEF traded, fee, rebate
  <1>. QED  BY <1>1, <1>2, <1>4, <1>5, <1>6, <1>7, <1>8 DEF o, swap

(* The markets after the swap.                                             *)
LEMMA SwapMarketsX ==
  ASSUME NEW a \in Accounts, NEW w \in SwapActions,
         Odd.amount \in Nat, Odd.sequence \in Nat, AreMarkets(Odd.markets, Odd.sequence),
         Odd.ok, CanSwap(Odd, a, w, InternalSwap(Odd, a, w))
  PROVE  LET new == ExecuteSwapAction(Odd, a, w)
             o   == SwapOrder(a, w, Odd.amount)
         IN  /\ new.accounts = X!SettledFor(w.market, o, w.referrer).accounts
             /\ new.markets = X!MarketsLeft(w.market, o, w.referrer)
             /\ new.sequence = Odd.sequence + 1 /\ new.token = OutputToken(w)
             /\ new.amount = InternalSwap(Odd, a, w).output /\ new.ok
PROOF
  <1> DEFINE m      == w.market
             p      == MarketParams[m]
             o      == SwapOrder(a, w, Odd.amount)
             swap   == InternalSwap(Odd, a, w)
             new    == ExecuteSwapAction(Odd, a, w)
             fees   == Odd.markets[m].fees_accrued + swap.fee - swap.rebate - swap.settled.paid
             book   == BookAfter(p, Odd.markets[m].book, swap.order, Odd.sequence + 1)
  <1>1. /\ new.accounts = swap.settled.accounts
        /\ new.markets = [Odd.markets EXCEPT
            ![m].book = BookAfter(p, @, swap.order, At(Odd)!NextSequence),
            ![m].fees_accrued = @ + swap.fee - swap.rebate - swap.settled.paid]
        /\ new.sequence = At(Odd)!NextSequence
        /\ new.token = OutputToken(w)
        /\ new.amount = swap.output /\ new.ok
    <2> HIDE DEF swap
    <2>. QED  BY DEF ExecuteSwapAction, ApplySwap, swap
  <1>2. At(Odd)!NextSequence = Odd.sequence + 1
        BY DEF At!NextSequence
  <1>3. /\ m \in Markets
        /\ Odd.markets = [k \in Markets |-> Odd.markets[k]]
        /\ Odd.markets[m] \in [state : MarketStates, book : {Odd.markets[m].book},
                                fees_accrued : Nat, minimum_bid_bps : BidWindows,
                                maximum_ask_bps : AskWindows]
        BY DEF SwapActions, AreMarkets, IsMarket
  <1>4. /\ swap.order = o /\ swap.fee = X!FeeOf(m, o)
        /\ swap.rebate = X!TotalMakerRebate(m, X!FillsOf(m, o))
        /\ swap.settled = X!SettledFor(m, o, w.referrer)
        BY SwapX
  <1>5. book = X!BookLeft(m, o)
        BY <1>4, BookAfterX DEF X!BookLeft
  <1>6. fees = X!FeesLeft(m, o, w.referrer)
    <2> HIDE DEF swap, o
    <2>1. X!FeesLeft(m, o, w.referrer)
            = Odd.markets[m].fees_accrued + (swap.fee - swap.rebate) - swap.settled.paid
          BY <1>4 DEF X!FeesLeft, X!RestOfFee
    <2>. QED  BY <2>1
  <1> HIDE DEF fees, book, new, o, swap
  <1>7. new.markets = X!MarketsLeft(m, o, w.referrer)
    <2>1. new.markets = [Odd.markets EXCEPT ![m] = [@ EXCEPT !.book = book, !.fees_accrued = fees]]
          BY <1>1, <1>2, <1>3 DEF book, fees
    <2>. QED  BY <1>5, <1>6, <2>1 DEF X!MarketsLeft, X!MarketLeft
  <1>. QED  BY <1>1, <1>2, <1>4, <1>7 DEF new, o, swap

(* What the swap's order needs to be settled is what CanSwap asks for.     *)
LEMMA CanSettleX ==
  ASSUME NEW a \in Accounts, NEW w \in SwapActions, Odd.amount \in Nat,
         CanSwap(Odd, a, w, InternalSwap(Odd, a, w))
  PROVE  LET o    == SwapOrder(a, w, Odd.amount)
             swap == InternalSwap(Odd, a, w)
         IN  /\ X!CanSettle(w.market, o, w.referrer)
             /\ Odd.token = InputToken(w)
             /\ w.side = "Buy" => Odd.amount >= swap.traded + swap.fee
PROOF
  <1> DEFINE m    == w.market
             o    == SwapOrder(a, w, Odd.amount)
             swap == InternalSwap(Odd, a, w)
  <1>1. /\ Odd.token = InputToken(w)
        /\ At(Odd)!MakersCovered(m, swap.fills, w.side)
        /\ swap.fee >= swap.rebate /\ swap.fee >= swap.settled.paid + swap.rebate
        /\ w.side = "Buy" => Odd.amount >= swap.traded + swap.fee
    <2> HIDE DEF swap
    <2>. QED  BY DEF CanSwap, swap
  <1>2. X!IsNewOrder(o) /\ o.type = "Market" /\ X!AtMostOne(w.referrer) /\ o.side = w.side
        BY SwapOrderFacts
  <1>3. /\ swap.fills = X!FillsOf(m, o) /\ swap.fee = X!FeeOf(m, o)
        /\ swap.rebate = X!TotalMakerRebate(m, X!FillsOf(m, o))
        /\ swap.settled = X!SettledFor(m, o, w.referrer)
        BY SwapX
  <1> HIDE DEF o, swap
  <1>4. X!MakersCovered(m, X!FillsOf(m, o), o.side)
        BY <1>1, <1>2, <1>3, MakersCoveredAt
  <1>5. X!CanSettle(m, o, w.referrer)
        BY <1>1, <1>2, <1>3, <1>4 DEF X!CanSettle
  <1>. QED  BY <1>1, <1>5 DEF o, swap

(* A swap trades no more than it holds.                                    *)
LEMMA InputSuffices ==
  ASSUME NEW a \in Accounts, NEW w \in SwapActions, IsSwapState(Odd),
         CanSwap(Odd, a, w, InternalSwap(Odd, a, w)),
         LET o == SwapOrder(a, w, Odd.amount)
         IN  /\ X!BaseTraded(w.market, X!FillsOf(w.market, o)) \in Nat
             /\ X!QuoteTraded(w.market, X!FillsOf(w.market, o)) \in Nat
             /\ X!FeeOf(w.market, o) \in Nat
  PROVE  \A t : X!Brings(w.market, SwapOrder(a, w, Odd.amount), t) <= In(Odd.token, t, Odd.amount)
PROOF
  <1> DEFINE m      == w.market
             p      == MarketParams[m]
             o      == SwapOrder(a, w, Odd.amount)
             swap   == InternalSwap(Odd, a, w)
             fills  == X!FillsOf(m, o)
             base   == X!BaseTraded(m, fills)
             quote  == X!QuoteTraded(m, fills)
             fee    == X!FeeOf(m, o)
  <1>1. /\ Odd.amount \in Nat /\ Odd.sequence \in Nat
        /\ IsBook(Odd.markets[m].book, Odd.sequence)
        BY DEF IsSwapState, AreMarkets, IsMarket, IsBook, SwapActions
  <1>2. /\ o.side = w.side /\ o.side \in Sides /\ IsMarketParams(p)
        /\ w.side = "Sell" => o.qty = BaseNativeToLots(p, Odd.amount)
        BY <1>1, SwapOrderFacts
  <1>3. /\ w.side = "Buy" => Odd.amount >= quote + fee /\ Odd.token = p.quote
        /\ w.side = "Sell" => Odd.token = p.base
    <2>1. /\ Odd.token = InputToken(w)
          /\ w.side = "Buy" => Odd.amount >= swap.traded + swap.fee
          BY <1>1, CanSettleX
    <2>2. swap.traded = quote /\ swap.fee = fee
          BY SwapX
    <2> HIDE DEF swap, quote, fee
    <2>. QED  BY <2>1, <2>2 DEF InputToken
  <1>4. w.side = "Sell" => base <= Odd.amount
    <2>1. fills = Matches(p, Odd.markets[m].book, o)
          BY MatchesX DEF X!FillsOf
    <2>2. base = SumFunction([i \in DOMAIN fills |-> BaseLotsToNative(p, fills[i])])
      <3> HIDE DEF fills
      <3>1. [i \in DOMAIN fills |-> X!BaseLotsToNative(p, fills[i])]
              = [i \in DOMAIN fills |-> BaseLotsToNative(p, fills[i])]
            BY DEF BaseLotsToNative, X!BaseLotsToNative
      <3>. QED  BY <3>1, SumX DEF X!BaseTraded
    <2> HIDE DEF fills, o, base
    <2>3. ASSUME w.side = "Sell"
          PROVE  SumFunction([i \in DOMAIN fills |-> BaseLotsToNative(p, fills[i])]) <= Odd.amount
      <3>1. o.qty = BaseNativeToLots(p, Odd.amount)
            BY <1>2, <2>3
      <3> HIDE DEF p
      <3>. QED  BY <1>1, <1>2, <2>1, <3>1, SellFits
    <2>. QED  BY <2>2, <2>3
  <1>5. base \in Nat /\ quote \in Nat /\ fee \in Nat
        OBVIOUS
  <1> TAKE t
  <1>6. X!Brings(m, o, t) = IF w.side = "Buy" THEN In(p.quote, t, quote + fee) ELSE In(p.base, t, base)
        BY <1>2, InX DEF X!Brings
  <1>7. w.side = "Buy" \/ w.side = "Sell"
        BY <1>2 DEF Sides
  <1> HIDE DEF o, fills, base, quote, fee, p
  <1>8. X!Brings(m, o, t) <= In(Odd.token, t, Odd.amount)
        BY <1>1, <1>3, <1>4, <1>5, <1>6, <1>7 DEF In
  <1>. QED  BY <1>8 DEF o

(* There is no counterexample.                                             *)
LEMMA OddIsSound == Sound(Odd)
PROOF
  <1> SUFFICES ASSUME NEW a \in Accounts, NEW w \in SwapActions,
                      IsSwapState(Odd), Odd.ok, CanSwap(Odd, a, w, InternalSwap(Odd, a, w))
               PROVE  /\ SwapsFairly(Odd, w.market, ExecuteSwapAction(Odd, a, w))
                      /\ PaysMakers(Odd, w, ExecuteSwapAction(Odd, a, w))
      BY DEF Sound
  <1> DEFINE m      == w.market
             p      == MarketParams[m]
             o      == SwapOrder(a, w, Odd.amount)
             swap   == InternalSwap(Odd, a, w)
             new    == ExecuteSwapAction(Odd, a, w)
             accs   == X!SettledFor(m, o, w.referrer).accounts
             mkts   == X!MarketsLeft(m, o, w.referrer)
             fills  == X!FillsOf(m, o)
             base   == X!BaseTraded(m, fills)
             quote  == X!QuoteTraded(m, fills)
             fee    == X!FeeOf(m, o)
  <1>1. /\ Odd.sequence \in Nat /\ Odd.amount \in Nat /\ Odd.token \in Tokens
        /\ AreAccounts(Odd.accounts) /\ AreMarkets(Odd.markets, Odd.sequence)
        /\ ListsMatch(Odd.accounts, Odd.markets) /\ AreCovered(Odd.accounts)
        BY DEF IsSwapState
  <1>2. m \in Markets /\ w.side \in Sides /\ o.side = w.side /\ IsMarketParams(p)
        BY <1>1, SwapOrderFacts
  <1>3. X!CanSettle(m, o, w.referrer)
        BY <1>1, CanSettleX
  <1>4. IsFiniteSet(DOMAIN Odd.accounts)
        BY <1>1, FinitenessAssumption, FS_Subset DEF AreAccounts
  <1>5. X!FairlySettled(m, o, w.referrer)
    <2>1. /\ X!AreAccounts(Odd.accounts) /\ X!AreMarkets(Odd.markets, Odd.sequence)
          /\ X!ListsMatch(Odd.accounts, Odd.markets) /\ X!AreCovered(Odd.accounts)
          BY <1>1, PredicatesX
    <2>2. X!IsFiniteSet(DOMAIN Odd.accounts)
          BY <1>4, FiniteX
    <2> HIDE DEF o
    <2>. QED  BY <1>1, <1>2, <1>3, <2>1, <2>2, SettledX
  <1>6. /\ new.accounts = accs /\ new.markets = mkts /\ new.sequence = Odd.sequence + 1
        /\ new.token = OutputToken(w) /\ new.amount = swap.output
        BY <1>1, SwapMarketsX
  <1>7. /\ w.side = "Buy" => swap.output = base
        /\ w.side = "Sell" => swap.output = quote - fee
        BY SwapX
  <1>8. /\ AreAccounts(accs) /\ AreMarkets(mkts, Odd.sequence + 1)
        /\ ListsMatch(accs, mkts) /\ AreCovered(accs) /\ NoneLoses(Odd.accounts, accs)
    <2>1. /\ X!AreAccounts(accs) /\ X!AreMarkets(mkts, Odd.sequence + 1)
          /\ X!ListsMatch(accs, mkts) /\ X!AreCovered(accs) /\ X!NoneLoses(Odd.accounts, accs)
          BY <1>5, Zenon DEF X!FairlySettled
    <2> HIDE DEF accs, mkts
    <2>. QED  BY <2>1, PredicatesX
  <1>17. MakersPaid(m, o.side, Odd.markets[m].book, mkts[m].book, Odd.accounts, accs)
    <2>1. X!MakersPaid(m, o.side, Odd.markets[m].book, mkts[m].book, Odd.accounts, accs)
          BY <1>5, Zenon DEF X!FairlySettled
    <2> HIDE DEF accs, mkts, o
    <2>. QED  BY <2>1, PaidX
  <1>9. /\ \A k \in Markets \ {m} : mkts[k] = Odd.markets[k]
        /\ base \in Nat /\ quote \in Nat /\ fee \in Nat /\ fee <= quote
        BY <1>5, Zenon DEF X!FairlySettled
  <1>10. \A t : /\ X!HeldBy(Odd.accounts, t) \in Nat /\ X!HeldBy(accs, t) \in Nat
                /\ X!DueOf(m, Odd.markets[m], t) \in Nat /\ X!DueOf(m, mkts[m], t) \in Nat
                /\ X!Brings(m, o, t) \in Nat /\ X!Takes(m, o, t) \in Nat
                /\ X!HeldBy(accs, t) + X!DueOf(m, mkts[m], t) + X!Takes(m, o, t)
                     <= X!HeldBy(Odd.accounts, t) + X!DueOf(m, Odd.markets[m], t) + X!Brings(m, o, t)
         BY <1>5, Zenon DEF X!FairlySettled
  <1>11. \A t : X!Brings(m, o, t) <= In(Odd.token, t, Odd.amount)
         BY <1>9, InputSuffices
  <1>12. w.side = "Buy" \/ w.side = "Sell"
         BY <1>2 DEF Sides
  <1>13. \A t : X!Takes(m, o, t) = In(new.token, t, new.amount)
    <2> TAKE t
    <2>1. X!Takes(m, o, t) = IF w.side = "Buy" THEN In(p.base, t, base) ELSE In(p.quote, t, quote - fee)
          BY <1>2, InX DEF X!Takes
    <2>2. OutputToken(w) = IF w.side = "Buy" THEN p.base ELSE p.quote
          BY DEF OutputToken
    <2> HIDE DEF o, new, swap, base, quote, fee, p
    <2>. QED  BY <1>6, <1>7, <1>12, <2>1, <2>2
  <1>14. new.amount \in Nat /\ new.token \in Tokens
    <2>1. p.base \in Tokens /\ p.quote \in Tokens
          BY <1>2 DEF IsMarketParams
    <2>2. OutputToken(w) = IF w.side = "Buy" THEN p.base ELSE p.quote
          BY DEF OutputToken
    <2> HIDE DEF o, new, swap, base, quote, fee, p
    <2>. QED  BY <1>6, <1>7, <1>9, <1>12, <2>1, <2>2
  <1> HIDE DEF o, new, swap, base, quote, fee, p, accs, mkts, fills
  <1>15. IsSwapState(new)
         BY <1>1, <1>6, <1>8, <1>14 DEF IsSwapState
  <1>16. ASSUME NEW t
         PROVE  /\ HeldBy(Odd.accounts, t) \in Nat /\ HeldBy(new.accounts, t) \in Nat
                /\ DueOf(m, Odd.markets[m], t) \in Nat /\ DueOf(m, new.markets[m], t) \in Nat
                /\ HeldBy(new.accounts, t) + DueOf(m, new.markets[m], t)
                       + In(new.token, t, new.amount)
                     <= HeldBy(Odd.accounts, t) + DueOf(m, Odd.markets[m], t)
                          + In(Odd.token, t, Odd.amount)
    <2>1. /\ X!HeldBy(Odd.accounts, t) = HeldBy(Odd.accounts, t)
          /\ X!HeldBy(accs, t) = HeldBy(new.accounts, t)
          /\ X!DueOf(m, Odd.markets[m], t) = DueOf(m, Odd.markets[m], t)
          /\ X!DueOf(m, mkts[m], t) = DueOf(m, new.markets[m], t)
          BY <1>6, HeldByX, DueOfX
    <2>2. In(Odd.token, t, Odd.amount) \in Nat
          BY <1>1 DEF In
    <2>3. /\ X!Brings(m, o, t) <= In(Odd.token, t, Odd.amount)
          /\ X!Takes(m, o, t) = In(new.token, t, new.amount)
          /\ X!Brings(m, o, t) \in Nat /\ X!Takes(m, o, t) \in Nat
          BY <1>10, <1>11, <1>13
    <2>. QED  BY <1>10, <2>1, <2>2, <2>3
  <1>18. SwapsFairly(Odd, m, new)
         BY <1>6, <1>8, <1>9, <1>15, <1>16 DEF SwapsFairly
  <1>19. PaysMakers(Odd, w, new)
         BY <1>2, <1>6, <1>17 DEF PaysMakers
  <1>. QED  BY <1>18, <1>19 DEF new

(* Every swap is fair, in every state.                                     *)
LEMMA SwapIsFair ==
  ASSUME NEW st, IsSwapState(st), st.ok, NEW a \in Accounts, NEW w \in SwapActions,
         CanSwap(st, a, w, InternalSwap(st, a, w))
  PROVE  /\ SwapsFairly(st, w.market, ExecuteSwapAction(st, a, w))
         /\ PaysMakers(st, w, ExecuteSwapAction(st, a, w))
PROOF
  <1>1. \A x : Sound(x)
        BY OddIsSound DEF Odd
  <1>2. Sound(st)
        BY <1>1
  <1>. QED  BY <1>2 DEF Sound

-----------------------------------------------------------------------------
(* Chains of swaps.                                                        *)

(* What accounts, markets and the chain of swaps hold of token t.          *)
AllOf(st, t) == HeldBy(st.accounts, t) + DueIn(st.markets, t) + In(st.token, t, st.amount)

(* Swaps that have led from base to st without taking anything from an     *)
(* account, or more from all of them than they have brought.               *)
FairSince(base, st) ==
  /\ IsSwapState(st)
  /\ NoneLoses(base.accounts, st.accounts)
  /\ \A t : AllOf(st, t) \in Nat /\ AllOf(st, t) <= AllOf(base, t)

(* What markets owe, when one of them changes.                             *)
LEMMA DueInChange ==
  ASSUME NEW old, NEW new, NEW m \in Markets, NEW t,
         \A k \in Markets : DueOf(k, old[k], t) \in Nat /\ DueOf(k, new[k], t) \in Nat,
         \A k \in Markets \ {m} : new[k] = old[k]
  PROVE  /\ DueIn(old, t) \in Nat /\ DueIn(new, t) \in Nat
         /\ DueIn(new, t) + DueOf(m, old[m], t) = DueIn(old, t) + DueOf(m, new[m], t)
PROOF
  <1> DEFINE f == [k \in Markets |-> DueOf(k, old[k], t)]
             g == [k \in Markets |-> DueOf(k, new[k], t)]
  <1>1. /\ \A k \in Markets : f[k] \in Nat /\ g[k] \in Nat
        /\ \A k \in Markets \ {m} : g[k] = f[k]
        /\ f[m] = DueOf(m, old[m], t) /\ g[m] = DueOf(m, new[m], t)
        OBVIOUS
  <1>2. DueIn(old, t) = SumFunctionOnSet(f, Markets) /\ DueIn(new, t) = SumFunctionOnSet(g, Markets)
        BY DEF DueIn
  <1> HIDE DEF f, g
  <1>3. \A k \in Markets : f[k] \in Int /\ g[k] \in Int
        BY <1>1
  <1>4. SumFunctionOnSet(g, Markets) = SumFunctionOnSet(f, Markets) + g[m] - f[m]
        BY <1>1, <1>3, FinitenessAssumption, SumChange
  <1>5. SumFunctionOnSet(f, Markets) \in Nat /\ SumFunctionOnSet(g, Markets) \in Nat
        BY <1>1, FinitenessAssumption, SumNat
  <1>. QED  BY <1>1, <1>2, <1>4, <1>5

(* A well formed market owes a natural amount.                             *)
LEMMA DueOfType ==
  ASSUME NEW st, IsSwapState(st), NEW k \in Markets, NEW t
  PROVE  DueOf(k, st.markets[k], t) \in Nat
PROOF
  <1>1. st.sequence \in Nat /\ IsMarket(st.markets[k], st.sequence)
        BY DEF IsSwapState, AreMarkets
  <1>2. IsBook(st.markets[k].book, st.sequence) /\ st.markets[k].fees_accrued \in Nat
        BY <1>1 DEF IsMarket, IsBook
  <1>3. LockedOf(MarketParams[k], st.markets[k].book, t) \in Nat
        BY <1>1, <1>2, ParamsFacts, LockedSum
  <1>. QED  BY <1>2, <1>3 DEF DueOf, In

(* So do all of them.                                                      *)
LEMMA DueInOf ==
  ASSUME NEW st, IsSwapState(st), NEW t
  PROVE  DueIn(st.markets, t) \in Nat
PROOF
  <1> DEFINE f == [k \in Markets |-> DueOf(k, st.markets[k], t)]
  <1>1. \A k \in Markets : f[k] \in Nat
        BY DueOfType
  <1>2. DueIn(st.markets, t) = SumFunctionOnSet(f, Markets)
        BY DEF DueIn
  <1> HIDE DEF f
  <1>. QED  BY <1>1, <1>2, FinitenessAssumption, SumNat

(* All that there is of a token is a natural amount.                       *)
LEMMA AllOfType ==
  ASSUME NEW st, IsSwapState(st), NEW t
  PROVE  AllOf(st, t) \in Nat
PROOF
  <1>3. DueIn(st.markets, t) \in Nat
        BY DueInOf
  <1>4. HeldBy(st.accounts, t) \in Nat
        BY TotalIs DEF IsSwapState
  <1>5. In(st.token, t, st.amount) \in Nat
        BY DEF IsSwapState, In
  <1>. QED  BY <1>3, <1>4, <1>5 DEF AllOf

(* Nothing lost to one state and nothing lost from there to another.       *)
LEMMA NoneLosesTwice ==
  ASSUME NEW a1, NEW a2, NEW a3, AreAccounts(a1), AreAccounts(a2), AreAccounts(a3),
         NoneLoses(a1, a2), NoneLoses(a2, a3)
  PROVE  NoneLoses(a1, a3)
PROOF
  <1>1. DOMAIN a3 = DOMAIN a1 /\ DOMAIN a2 = DOMAIN a1
        BY DEF NoneLoses
  <1>2. ASSUME NEW b \in DOMAIN a1
        PROVE  /\ a3[b].storage = a1[b].storage
               /\ \A t : Balance(a3[b], t) >= Balance(a1[b], t)
    <2>1. IsAccount(a1[b]) /\ IsAccount(a2[b]) /\ IsAccount(a3[b])
          BY <1>1 DEF AreAccounts
    <2>2. /\ a2[b].storage = a1[b].storage /\ a3[b].storage = a2[b].storage
          /\ \A t : Balance(a2[b], t) >= Balance(a1[b], t)
          /\ \A t : Balance(a3[b], t) >= Balance(a2[b], t)
          BY <1>1 DEF NoneLoses
    <2>3. \A t : Balance(a1[b], t) \in Nat /\ Balance(a2[b], t) \in Nat /\ Balance(a3[b], t) \in Nat
          BY <2>1, BalanceType
    <2>. QED  BY <2>2, <2>3
  <1>. QED  BY <1>1, <1>2 DEF NoneLoses

(* One more fair swap.                                                     *)
LEMMA FairOnceMore ==
  ASSUME NEW base, IsSwapState(base), NEW st, FairSince(base, st),
         NEW m \in Markets, NEW new, SwapsFairly(st, m, new)
  PROVE  FairSince(base, new)
PROOF
  <1>1. IsSwapState(st) /\ IsSwapState(new)
        BY DEF FairSince, SwapsFairly
  <1>2. NoneLoses(base.accounts, new.accounts)
    <2>1. AreAccounts(base.accounts) /\ AreAccounts(st.accounts) /\ AreAccounts(new.accounts)
          BY <1>1 DEF IsSwapState
    <2>2. NoneLoses(base.accounts, st.accounts) /\ NoneLoses(st.accounts, new.accounts)
          BY DEF FairSince, SwapsFairly
    <2>. QED  BY <2>1, <2>2, NoneLosesTwice
  <1>3. ASSUME NEW t
        PROVE  AllOf(new, t) \in Nat /\ AllOf(new, t) <= AllOf(base, t)
    <2>1. AllOf(st, t) \in Nat /\ AllOf(st, t) <= AllOf(base, t)
          BY DEF FairSince
    <2>2. /\ HeldBy(st.accounts, t) \in Nat /\ HeldBy(new.accounts, t) \in Nat
          /\ DueOf(m, st.markets[m], t) \in Nat /\ DueOf(m, new.markets[m], t) \in Nat
          /\ HeldBy(new.accounts, t) + DueOf(m, new.markets[m], t) + In(new.token, t, new.amount)
               <= HeldBy(st.accounts, t) + DueOf(m, st.markets[m], t) + In(st.token, t, st.amount)
          BY DEF SwapsFairly
    <2>3. /\ DueIn(st.markets, t) \in Nat /\ DueIn(new.markets, t) \in Nat
          /\ DueIn(new.markets, t) + DueOf(m, st.markets[m], t)
               = DueIn(st.markets, t) + DueOf(m, new.markets[m], t)
      <3> DEFINE old  == st.markets
                 left == new.markets
      <3>1. \A k \in Markets : DueOf(k, old[k], t) \in Nat /\ DueOf(k, left[k], t) \in Nat
            BY <1>1, DueOfType
      <3>2. \A k \in Markets \ {m} : left[k] = old[k]
            BY DEF SwapsFairly
      <3> HIDE DEF old, left
      <3>3. /\ DueIn(old, t) \in Nat /\ DueIn(left, t) \in Nat
            /\ DueIn(left, t) + DueOf(m, old[m], t) = DueIn(old, t) + DueOf(m, left[m], t)
            BY <3>1, <3>2, DueInChange
      <3>. QED  BY <3>3 DEF old, left
    <2>4. In(st.token, t, st.amount) \in Nat /\ In(new.token, t, new.amount) \in Nat
          BY <1>1 DEF IsSwapState, In
    <2>5. AllOf(base, t) \in Nat
          BY AllOfType
    <2>. QED  BY <2>1, <2>2, <2>3, <2>4, <2>5 DEF AllOf
  <1>. QED  BY <1>1, <1>2, <1>3 DEF FairSince

(* No swap at all is fair.                                                 *)
LEMMA FairAtFirst ==
  ASSUME NEW base, IsSwapState(base)
  PROVE  FairSince(base, base)
PROOF
  <1>1. \A t : AllOf(base, t) \in Nat
        BY AllOfType
  <1>2. NoneLoses(base.accounts, base.accounts)
    <2>1. AreAccounts(base.accounts)
          BY DEF IsSwapState
    <2>2. \A b \in DOMAIN base.accounts : \A t : Balance(base.accounts[b], t) \in Nat
          BY <2>1, BalanceType DEF AreAccounts
    <2>. QED  BY <2>2 DEF NoneLoses
  <1>3. \A t : AllOf(base, t) \in Nat /\ AllOf(base, t) <= AllOf(base, t)
        BY <1>1
  <1>. QED  BY <1>2, <1>3 DEF FairSince

(* What ExecuteSwaps makes of the state it starts from.                    *)
Chain(a, base, swaps) == FoldLeft(LAMBDA st, w : ExecuteSwapAction(st, a, w), base, swaps)

(* The numbers of the first swaps of a chain have a largest one.           *)
LEMMA MaxFacts ==
  ASSUME NEW n \in Nat
  PROVE  /\ \A s \in SUBSET (1 .. n) : s # {} => Max(s) \in s
         /\ n # 0 => Max(1 .. n) = n
PROOF
  <1>1. ASSUME NEW s \in SUBSET (1 .. n), s # {}
        PROVE  Max(s) \in s
    <2> DEFINE Above == {k \in Nat : \A y \in s : y <= k}
    <2>1. n \in Above
          OBVIOUS
    <2>2. PICK k \in Above : \A l \in Above : k <= l
          BY <2>1, NatMinimum
    <2>3. k \in s
      <3>1. SUFFICES ASSUME k \notin s PROVE FALSE
            OBVIOUS
      <3>2. \A y \in s : y <= k - 1
            BY <2>2, <3>1
      <3>3. PICK y \in s : TRUE
            BY <1>1
      <3>4. k - 1 \in Above
            BY <2>2, <3>2, <3>3
      <3>. QED  BY <2>2, <3>4
    <2>4. \E x \in s : \A y \in s : x >= y
          BY <2>2, <2>3
    <2>. QED  BY <2>4 DEF Max
  <1>2. ASSUME n # 0
        PROVE  Max(1 .. n) = n
    <2>1. n \in 1 .. n /\ \A y \in 1 .. n : n >= y
          BY <1>2
    <2>2. Max(1 .. n) \in 1 .. n /\ \A y \in 1 .. n : Max(1 .. n) >= y
      <3>1. \E x \in 1 .. n : \A y \in 1 .. n : x >= y
            BY <2>1
      <3>. QED  BY <3>1 DEF Max
    <2>. QED  BY <2>1, <2>2
  <1>. QED  BY <1>1, <1>2

(* g maps sets of swaps, by number, to what they make of base, one after   *)
(* the other.                                                              *)
AfterLast(g, a, swaps, s) == ExecuteSwapAction(g[s \ {Max(s)}], a, swaps[Max(s)])

(* ... for all of the sets in D.                                           *)
Runs(g, a, base, swaps, D) ==
  \A s \in D : g[s] = IF s = {} THEN base ELSE AfterLast(g, a, swaps, s)

(* There is such a map on the sets of any size.                            *)
LEMMA RunOfSmall ==
  ASSUME NEW n \in Nat, NEW a, NEW base, NEW swaps
  PROVE  \A k \in Nat : \E g : /\ g = [s \in Small(1 .. n, k) |-> g[s]]
                               /\ Runs(g, a, base, swaps, Small(1 .. n, k))
PROOF
  <1> DEFINE S == 1 .. n
             Fits(g, k) == g = [s \in Small(S, k) |-> g[s]] /\ Runs(g, a, base, swaps, Small(S, k))
             Bad == {k \in Nat : ~ \E g : Fits(g, k)}
  <1>0. IsFiniteSet(S)
        BY FS_Interval
  <1> HIDE DEF S
  <1>1. \A s \in SUBSET S : /\ IsFiniteSet(s) /\ Cardinality(s) \in Nat
                            /\ (Cardinality(s) = 0 <=> s = {})
        BY <1>0, SubsetFacts
  <1>2. \A s \in SUBSET S : s # {} => Max(s) \in s
        BY MaxFacts DEF S
  <1>3. \A s \in SUBSET S : s # {} => Cardinality(s \ {Max(s)}) = Cardinality(s) - 1
        BY <1>1, <1>2, FS_RemoveElement
  <1>4. SUFFICES ASSUME Bad # {} PROVE FALSE
        BY DEF S
  <1>5. PICK k \in Bad : \A l \in Bad : k <= l
        BY <1>4, NatMinimum
  <1>6. CASE k = 0
    <2> DEFINE g == [s \in Small(S, 0) |-> base]
    <2>1. \A s \in Small(S, 0) : s = {}
          BY <1>1 DEF Small
    <2>2. g = [s \in Small(S, 0) |-> g[s]] /\ Runs(g, a, base, swaps, Small(S, 0))
          BY <2>1 DEF Runs
    <2>. QED  BY <1>5, <1>6, <2>2
  <1>7. CASE k # 0
    <2>1. k \in Nat /\ k - 1 \in Nat /\ k - 1 \notin Bad
          BY <1>5, <1>7
    <2>2. PICK h : Fits(h, k - 1)
          BY <2>1
    <2> DEFINE g == [s \in Small(S, k) |->
                       IF Cardinality(s) <= k - 1 THEN h[s] ELSE AfterLast(h, a, swaps, s)]
    <2>3. \A s \in Small(S, k) : s # {} => s \ {Max(s)} \in Small(S, k - 1)
          BY <2>1, <1>1, <1>2, <1>3 DEF Small
    <2>4. \A t \in Small(S, k - 1) : t \in Small(S, k) /\ g[t] = h[t]
          BY <2>1, <1>1 DEF Small
    <2>5. ASSUME NEW s \in Small(S, k), s # {}
          PROVE  AfterLast(g, a, swaps, s) = AfterLast(h, a, swaps, s)
      <3>1. g[s \ {Max(s)}] = h[s \ {Max(s)}]
            BY <2>3, <2>4, <2>5
      <3> HIDE DEF g
      <3>. QED  BY <3>1 DEF AfterLast
    <2>6. ASSUME NEW s \in Small(S, k)
          PROVE  g[s] = IF s = {} THEN base ELSE AfterLast(g, a, swaps, s)
      <3>1. CASE Cardinality(s) <= k - 1
        <4>1. s \in Small(S, k - 1)
              BY <3>1 DEF Small
        <4>2. h[s] = IF s = {} THEN base ELSE AfterLast(h, a, swaps, s)
              BY <2>2, <4>1 DEF Runs
        <4>3. g[s] = h[s]
              BY <2>4, <4>1
        <4> HIDE DEF g
        <4>. QED  BY <4>2, <4>3, <2>5
      <3>2. CASE ~ (Cardinality(s) <= k - 1)
        <4>1. s # {}
              BY <2>1, <1>1, <3>2 DEF Small
        <4>2. g[s] = AfterLast(h, a, swaps, s)
              BY <3>2
        <4> HIDE DEF g
        <4>. QED  BY <4>1, <4>2, <2>5
      <3>. QED  BY <3>1, <3>2
    <2>7. g = [s \in Small(S, k) |-> g[s]]
          OBVIOUS
    <2> HIDE DEF g
    <2>8. Runs(g, a, base, swaps, Small(S, k))
          BY <2>6 DEF Runs
    <2>. QED  BY <1>5, <2>7, <2>8
  <1>. QED  BY <1>6, <1>7

(* The chain is a run, swap by swap: the CHOOSE in the library's fold      *)
(* finds a map as above.                                                   *)
LEMMA ChainUnfolding ==
  ASSUME NEW a, NEW base, NEW swaps \in Seq(SwapActions)
  PROVE  \E h : /\ h[0] = base
                /\ \A k \in 1 .. Len(swaps) : h[k] = ExecuteSwapAction(h[k - 1], a, swaps[k])
                /\ Chain(a, base, swaps) = h[Len(swaps)]
PROOF
  <1> DEFINE n == Len(swaps)
             S == 1 .. n
             iter == CHOOSE g : g = [s \in SUBSET S |->
                       IF s = {} THEN base ELSE ExecuteSwapAction(g[s \ {Max(s)}], a, swaps[Max(s)])]
             h == [k \in 0 .. n |-> iter[1 .. k]]
  <1>0. n \in Nat /\ DOMAIN swaps = S
        OBVIOUS
  <1>1. Chain(a, base, swaps) = iter[S]
        BY <1>0, Zenon DEF Chain, FoldLeft, MapThenFoldSet
  <1> HIDE DEF n
  <1>2. IsFiniteSet(S) /\ Cardinality(S) = n
        BY <1>0, FS_Interval
  <1> HIDE DEF S
  <1>3. Small(S, n) = SUBSET S
        BY <1>0, <1>2, FS_CardinalityType, FS_Subset DEF Small
  <1>4. PICK g : g = [s \in SUBSET S |-> g[s]] /\ Runs(g, a, base, swaps, SUBSET S)
    <2>1. \E g : /\ g = [s \in Small(1 .. n, n) |-> g[s]]
                 /\ Runs(g, a, base, swaps, Small(1 .. n, n))
          BY <1>0, RunOfSmall, Zenon
    <2>2. Small(1 .. n, n) = SUBSET S
          BY <1>3 DEF S
    <2>. QED  BY <2>1, <2>2, Zenon
  <1>5. g = [s \in SUBSET S |->
               IF s = {} THEN base ELSE ExecuteSwapAction(g[s \ {Max(s)}], a, swaps[Max(s)])]
        BY <1>4, Zenon DEF Runs, AfterLast
  <1>6. iter = [s \in SUBSET S |->
               IF s = {} THEN base ELSE ExecuteSwapAction(iter[s \ {Max(s)}], a, swaps[Max(s)])]
        BY <1>5, Zenon
  <1>7. \A s \in SUBSET S :
          iter[s] = IF s = {} THEN base ELSE ExecuteSwapAction(iter[s \ {Max(s)}], a, swaps[Max(s)])
        BY <1>6, Zenon
  <1> HIDE DEF iter
  <1>8. h[0] = base
    <2>1. 1 .. 0 = {} /\ {} \in SUBSET S
          OBVIOUS
    <2>2. iter[1 .. 0] = base
          BY <1>7, <2>1
    <2>. QED  BY <1>0, <2>2
  <1>9. ASSUME NEW k \in 1 .. n
        PROVE  h[k] = ExecuteSwapAction(h[k - 1], a, swaps[k])
    <2>1. /\ 1 .. k \in SUBSET S /\ 1 .. k # {} /\ (1 .. k) \ {k} = 1 .. (k - 1)
          /\ k \in Nat \ {0} /\ k \in 0 .. n /\ k - 1 \in 0 .. n
      <3>1. k \in Nat /\ 1 <= k /\ k <= n /\ n \in Nat
            BY <1>0
      <3>2. 1 .. k \in SUBSET S
            BY <3>1 DEF S
      <3>3. k \in 1 .. k
            BY <3>1
      <3>4. (1 .. k) \ {k} = 1 .. (k - 1)
            BY <3>1
      <3>5. k \in Nat \ {0} /\ k \in 0 .. n /\ k - 1 \in 0 .. n
            BY <3>1
      <3>. QED  BY <3>2, <3>3, <3>4, <3>5
    <2>2. Max(1 .. k) = k
          BY <2>1, MaxFacts
    <2>3. iter[1 .. k] = ExecuteSwapAction(iter[1 .. (k - 1)], a, swaps[k])
          BY <1>7, <2>1, <2>2, Zenon
    <2>4. h[k] = iter[1 .. k] /\ h[k - 1] = iter[1 .. (k - 1)]
          BY <2>1
    <2> HIDE DEF h
    <2>. QED  BY <2>3, <2>4
  <1>10. h[n] = iter[S]
         BY <1>0 DEF S
  <1> HIDE DEF h
  <1>11. Chain(a, base, swaps) = h[n]
         BY <1>1, <1>10, Zenon
  <1>. QED  BY <1>8, <1>9, <1>11, Zenon DEF n

(* st is a record of the variables swaps change and what the chain holds.  *)
IsChainState(st) ==
  st = [accounts |-> st.accounts, markets |-> st.markets, sequence |-> st.sequence,
        token |-> st.token, amount |-> st.amount, ok |-> st.ok]

(* A swap that does not panic is one that CanSwap allows.                  *)
LEMMA SwapOrPanic ==
  ASSUME NEW st, IsChainState(st), NEW a, NEW w
  PROVE  LET new == ExecuteSwapAction(st, a, w)
         IN  /\ IsChainState(new)
             /\ new.ok => st.ok /\ CanSwap(st, a, w, InternalSwap(st, a, w))
PROOF
  <1> DEFINE swap == InternalSwap(st, a, w)
             new  == ExecuteSwapAction(st, a, w)
  <1>1. new = ApplySwap(st, a, w, swap)
        BY DEF ExecuteSwapAction
  <1> HIDE DEF swap, new
  <1>2. CASE st.ok /\ CanSwap(st, a, w, swap)
    <2> DEFINE mkts == [st.markets EXCEPT
                 ![w.market].book =
                    BookAfter(MarketParams[w.market], @, swap.order, At(st)!NextSequence),
                 ![w.market].fees_accrued = @ + swap.fee - swap.rebate - swap.settled.paid]
               next == At(st)!NextSequence
    <2>1. new = [accounts |-> swap.settled.accounts, markets |-> mkts, sequence |-> next,
                 token |-> OutputToken(w), amount |-> swap.output, ok |-> TRUE]
          BY <1>1, <1>2 DEF ApplySwap
    <2> HIDE DEF mkts, next
    <2>2. IsChainState(new)
          BY <2>1 DEF IsChainState
    <2>. QED  BY <1>2, <2>2 DEF new, swap
  <1>3. CASE ~ (st.ok /\ CanSwap(st, a, w, swap))
    <2>1. new = [st EXCEPT !.ok = FALSE]
          BY <1>1, <1>3 DEF ApplySwap
    <2>2. new = [accounts |-> st.accounts, markets |-> st.markets, sequence |-> st.sequence,
                 token |-> st.token, amount |-> st.amount, ok |-> FALSE]
          BY <2>1 DEF IsChainState
    <2>3. IsChainState(new) /\ ~ new.ok
          BY <2>2 DEF IsChainState
    <2>. QED  BY <2>3 DEF new
  <1>. QED  BY <1>2, <1>3

-----------------------------------------------------------------------------
(* What a chain of swaps pays to the makers it has passed through.         *)

(* Keeping orders, and a side of a book, twice is keeping them.            *)
LEMMA KeptTwice ==
  ASSUME NEW old, NEW mid, NEW new, KeepsOrders(old, mid), KeepsOrders(mid, new)
  PROVE  /\ KeepsOrders(old, new)
         /\ \A s : KeepsSide(s, old, mid) /\ KeepsSide(s, mid, new) => KeepsSide(s, old, new)
PROOF
  <1>1. KeepsOrders(old, new)
        BY DEF KeepsOrders
  <1>2. ASSUME NEW s, KeepsSide(s, old, mid), KeepsSide(s, mid, new)
        PROVE  KeepsSide(s, old, new)
    <2> SUFFICES ASSUME NEW i \in OnSide(old, s)
                 PROVE  i \in DOMAIN new /\ new[i].qty = old[i].qty
        BY DEF KeepsSide
    <2>1. i \in DOMAIN mid /\ mid[i].qty = old[i].qty
          BY <1>2 DEF KeepsSide
    <2>2. i \in OnSide(mid, s)
          BY <2>1 DEF KeepsOrders, OnSide
    <2>. QED  BY <1>2, <2>1, <2>2 DEF KeepsSide
  <1>. QED  BY <1>1, <1>2

(* What is due once a side has been hit is due from when it was first hit. *)
LEMMA DueLater ==
  ASSUME NEW old, NEW mid, NEW new, KeepsOrders(old, mid), NEW s, KeepsSide(s, old, mid),
         NEW m, NEW b
  PROVE  DueSince(m, b, s, old, new) = DueSince(m, b, s, mid, new)
PROOF
  <1> DEFINE S == OrdersOf(old, b, s)
  <1>1. OrdersOf(mid, b, s) = S
        BY DEF OrdersOf, OnSide, KeepsOrders, KeepsSide
  <1>2. \A i \in S : old[i].qty = mid[i].qty /\ old[i].price = mid[i].price
        BY DEF OrdersOf, OnSide, KeepsOrders, KeepsSide
  <1> HIDE DEF S
  <1>3. [i \in S |-> DueFor(m, s, old[i].qty - QtyLeft(new, i), old[i].price)]
          = [i \in S |-> DueFor(m, s, mid[i].qty - QtyLeft(new, i), mid[i].price)]
        BY <1>2
  <1>. QED  BY <1>1, <1>3 DEF DueSince, S

(* What is due for a side does not change while the side is kept.          *)
LEMMA DueEarlier ==
  ASSUME NEW old, NEW mid, NEW new, KeepsOrders(old, mid), KeepsOrders(mid, new),
         NEW s, KeepsSide(s, mid, new), NEW m, NEW b
  PROVE  DueSince(m, b, s, old, new) = DueSince(m, b, s, old, mid)
PROOF
  <1> DEFINE S == OrdersOf(old, b, s)
  <1>1. ASSUME NEW i \in S
        PROVE  QtyLeft(new, i) = QtyLeft(mid, i)
    <2>1. i \in DOMAIN old /\ old[i].side = s
          BY DEF OrdersOf, OnSide
    <2>2. CASE i \in DOMAIN mid
      <3>1. i \in OnSide(mid, s)
            BY <2>1, <2>2 DEF OnSide, KeepsOrders
      <3>. QED  BY <2>2, <3>1 DEF KeepsSide, QtyLeft
    <2>3. CASE i \notin DOMAIN mid
          BY <2>3 DEF KeepsOrders, QtyLeft
    <2>. QED  BY <2>2, <2>3
  <1> HIDE DEF S
  <1>2. [i \in S |-> DueFor(m, s, old[i].qty - QtyLeft(new, i), old[i].price)]
          = [i \in S |-> DueFor(m, s, old[i].qty - QtyLeft(mid, i), old[i].price)]
        BY <1>1
  <1>. QED  BY <1>2 DEF DueSince, S

(* Nothing is due when nothing has been hit.                               *)
LEMMA NothingDueAtFirst ==
  ASSUME NEW m \in Markets, NEW n \in Nat, NEW book, IsBook(book, n), NEW b, NEW s
  PROVE  DueSince(m, b, s, book, book) = 0
PROOF
  <1> DEFINE S == OrdersOf(book, b, s)
             f == [i \in S |-> DueFor(m, s, book[i].qty - QtyLeft(book, i), book[i].price)]
  <1>1. S \in SUBSET DOMAIN book /\ IsFiniteSet(S)
    <2>1. S \in SUBSET DOMAIN book
          BY DEF OrdersOf, OnSide
    <2>. QED  BY <2>1, BookFinite
  <1>2. \A i \in DOMAIN book : book[i].qty \in Nat /\ book[i].price \in Nat
        BY BookFinite DEF RestingOrder
  <1>3. ASSUME NEW i \in S PROVE f[i] = 0
    <2>1. book[i].qty - QtyLeft(book, i) = 0 /\ book[i].price \in Nat
          BY <1>1, <1>2 DEF QtyLeft
    <2>2. f[i] = DueFor(m, s, 0, book[i].price)
          BY <2>1
    <2>. QED  BY <2>1, <2>2, DueForFacts
  <1> HIDE DEF S, f
  <1>4. SumFunctionOnSet(f, S) = 0
        BY <1>1, <1>3, SumOfZeros
  <1>. QED  BY <1>4 DEF f, S, DueSince, SumFunction

(* None of the first k swaps hits side s of market m.                      *)
Fresh(swaps, k, m, s) == \A j \in 1 .. k : swaps[j].market = m => swaps[j].side = s

(* No swap of a chain comes back to a side of a market that another one of *)
(* it has hit.                                                             *)
NeverReturns(swaps) ==
  \A j, k \in DOMAIN swaps :
    swaps[j].market = swaps[k].market /\ swaps[j].side = swaps[k].side => j = k

(* The first k swaps, which lead from base to st, have paid their makers.  *)
PaidSince(base, swaps, k, st) ==
  /\ DOMAIN st.accounts = DOMAIN base.accounts
  /\ \A m \in Markets :
       /\ KeepsOrders(base.markets[m].book, st.markets[m].book)
       /\ \A s \in Sides :
            /\ Fresh(swaps, k, m, s) => KeepsSide(s, base.markets[m].book, st.markets[m].book)
            /\ \A b \in DOMAIN base.accounts :
                 LET due == DueSince(m, b, s, base.markets[m].book, st.markets[m].book)
                 IN  /\ due \in Nat
                     /\ Balance(st.accounts[b], GainToken(m, s))
                          >= Balance(base.accounts[b], GainToken(m, s)) + due

(* One swap more keeps paying them.                                        *)
LEMMA PaidOnceMore ==
  ASSUME NEW swaps \in Seq(SwapActions), NeverReturns(swaps), NEW k \in 1 .. Len(swaps),
         NEW base, IsSwapState(base), NEW st, FairSince(base, st),
         PaidSince(base, swaps, k - 1, st), NEW new,
         SwapsFairly(st, swaps[k].market, new), PaysMakers(st, swaps[k], new)
  PROVE  PaidSince(base, swaps, k, new)
PROOF
  <1> DEFINE w == swaps[k]
             was(m)  == base.markets[m].book
             mid(m)  == st.markets[m].book
             left(m) == new.markets[m].book
  <1>1. /\ IsSwapState(st) /\ IsSwapState(new)
        /\ NoneLoses(base.accounts, st.accounts) /\ NoneLoses(st.accounts, new.accounts)
        /\ \A m \in Markets \ {w.market} : left(m) = mid(m)
        BY DEF FairSince, SwapsFairly
  <1>2. /\ DOMAIN st.accounts = DOMAIN base.accounts
        /\ DOMAIN new.accounts = DOMAIN base.accounts
        BY <1>1 DEF NoneLoses
  <1>3. k \in Nat \ {0} /\ k - 1 \in Nat /\ k \in DOMAIN swaps
        /\ \A j \in 1 .. (k - 1) : j \in DOMAIN swaps /\ j # k
        OBVIOUS
  <1>4. w \in SwapActions /\ w.market \in Markets /\ w.side \in Sides
    <2>1. \A v \in SwapActions : v.market \in Markets /\ v.side \in Sides
          BY DEF SwapActions
    <2>. QED  BY <1>3, <2>1
  <1>5. \A j \in 1 .. (k - 1) : swaps[j].side \in Sides
    <2>1. \A v \in SwapActions : v.side \in Sides
          BY DEF SwapActions
    <2>. QED  BY <1>3, <2>1
  <1>6. OnlyHits(w.side, mid(w.market), left(w.market))
        BY DEF PaysMakers, MakersPaid
  <1>7. ASSUME NEW m \in Markets, m # w.market
        PROVE  KeepsOrders(mid(m), left(m)) /\ \A s : KeepsSide(s, mid(m), left(m))
    <2>1. left(m) = mid(m)
          BY <1>1, <1>7
    <2> HIDE DEF left, mid
    <2>. QED  BY <2>1 DEF KeepsOrders, KeepsSide, OnSide
  <1>8. ASSUME NEW m \in Markets
        PROVE  KeepsOrders(was(m), mid(m)) /\ KeepsOrders(mid(m), left(m))
    <2>1. KeepsOrders(was(m), mid(m))
          BY DEF PaidSince
    <2>2. KeepsOrders(mid(m), left(m))
          BY <1>6, <1>7 DEF OnlyHits
    <2>. QED  BY <2>1, <2>2
  <1>9. ASSUME NEW b \in DOMAIN base.accounts, NEW t
        PROVE  /\ Balance(base.accounts[b], t) \in Nat /\ Balance(st.accounts[b], t) \in Nat
               /\ Balance(new.accounts[b], t) \in Nat
               /\ Balance(st.accounts[b], t) >= Balance(base.accounts[b], t)
               /\ Balance(new.accounts[b], t) >= Balance(st.accounts[b], t)
    <2>1. IsAccount(base.accounts[b]) /\ IsAccount(st.accounts[b]) /\ IsAccount(new.accounts[b])
          BY <1>1, <1>2 DEF IsSwapState, AreAccounts
    <2>2. /\ Balance(base.accounts[b], t) \in Nat /\ Balance(st.accounts[b], t) \in Nat
          /\ Balance(new.accounts[b], t) \in Nat
          BY <2>1, BalanceType
    <2>. QED  BY <1>1, <1>2, <2>2 DEF NoneLoses
  <1>10. ASSUME NEW m \in Markets, NEW s \in Sides
         PROVE  /\ Fresh(swaps, k, m, s) => KeepsSide(s, was(m), left(m))
                /\ \A b \in DOMAIN base.accounts :
                     LET due == DueSince(m, b, s, was(m), left(m))
                     IN  /\ due \in Nat
                         /\ Balance(new.accounts[b], GainToken(m, s))
                              >= Balance(base.accounts[b], GainToken(m, s)) + due
    <2>1. Fresh(swaps, k - 1, m, s) => KeepsSide(s, was(m), mid(m))
          BY DEF PaidSince
    <2>2. ASSUME NEW b \in DOMAIN base.accounts
          PROVE  /\ DueSince(m, b, s, was(m), mid(m)) \in Nat
                 /\ Balance(st.accounts[b], GainToken(m, s))
                      >= Balance(base.accounts[b], GainToken(m, s)) + DueSince(m, b, s, was(m), mid(m))
          BY DEF PaidSince
    <2>3. CASE ~ (m = w.market /\ s # w.side)
      <3>1. KeepsSide(s, mid(m), left(m))
            BY <1>6, <1>7, <2>3 DEF OnlyHits
      <3>2. Fresh(swaps, k, m, s) => Fresh(swaps, k - 1, m, s)
            BY <1>3 DEF Fresh
      <3> HIDE DEF was, mid, left
      <3>3. Fresh(swaps, k, m, s) => KeepsSide(s, was(m), left(m))
            BY <1>8, <2>1, <3>1, <3>2, KeptTwice
      <3>4. ASSUME NEW b \in DOMAIN base.accounts
            PROVE  /\ DueSince(m, b, s, was(m), left(m)) \in Nat
                   /\ Balance(new.accounts[b], GainToken(m, s))
                        >= Balance(base.accounts[b], GainToken(m, s))
                             + DueSince(m, b, s, was(m), left(m))
        <4>1. DueSince(m, b, s, was(m), left(m)) = DueSince(m, b, s, was(m), mid(m))
              BY <1>8, <3>1, DueEarlier
        <4> DEFINE t == GainToken(m, s)
        <4>2. DueSince(m, b, s, was(m), mid(m)) \in Nat
              BY <2>2
        <4>3. Balance(st.accounts[b], t)
                >= Balance(base.accounts[b], t) + DueSince(m, b, s, was(m), mid(m))
              BY <2>2
        <4> HIDE DEF t
        <4>4. /\ Balance(base.accounts[b], t) \in Nat /\ Balance(st.accounts[b], t) \in Nat
              /\ Balance(new.accounts[b], t) \in Nat
              /\ Balance(new.accounts[b], t) >= Balance(st.accounts[b], t)
              BY <1>9
        <4>5. Balance(new.accounts[b], t)
                >= Balance(base.accounts[b], t) + DueSince(m, b, s, was(m), mid(m))
              BY <4>2, <4>3, <4>4
        <4>. QED  BY <4>1, <4>2, <4>5 DEF t
      <3>. QED  BY <3>3, <3>4
    <2>4. CASE m = w.market /\ s # w.side
      <3>1. Fresh(swaps, k - 1, m, s)
        <4> SUFFICES ASSUME NEW j \in 1 .. (k - 1), swaps[j].market = m PROVE swaps[j].side = s
            BY DEF Fresh
        <4>1. swaps[j].side # w.side
              BY <1>3, <2>4 DEF NeverReturns
        <4>. QED  BY <1>4, <1>5, <2>4, <4>1 DEF Sides
      <3>2. ~ Fresh(swaps, k, m, s)
            BY <1>3, <2>4 DEF Fresh
      <3>3. \A b \in DOMAIN base.accounts :
              /\ DueSince(m, b, s, mid(m), left(m)) \in Nat
              /\ Balance(new.accounts[b], GainToken(m, s))
                   >= Balance(st.accounts[b], GainToken(m, s)) + DueSince(m, b, s, mid(m), left(m))
            BY <1>2, <2>4 DEF PaysMakers, MakersPaid
      <3> HIDE DEF was, mid, left
      <3>4. ASSUME NEW b \in DOMAIN base.accounts
            PROVE  /\ DueSince(m, b, s, was(m), left(m)) \in Nat
                   /\ Balance(new.accounts[b], GainToken(m, s))
                        >= Balance(base.accounts[b], GainToken(m, s))
                             + DueSince(m, b, s, was(m), left(m))
        <4>1. DueSince(m, b, s, was(m), left(m)) = DueSince(m, b, s, mid(m), left(m))
              BY <1>8, <2>1, <3>1, DueLater
        <4> DEFINE t == GainToken(m, s)
        <4>2. DueSince(m, b, s, mid(m), left(m)) \in Nat
              BY <3>3
        <4>3. Balance(new.accounts[b], t)
                >= Balance(st.accounts[b], t) + DueSince(m, b, s, mid(m), left(m))
              BY <3>3
        <4> HIDE DEF t
        <4>4. /\ Balance(base.accounts[b], t) \in Nat /\ Balance(st.accounts[b], t) \in Nat
              /\ Balance(new.accounts[b], t) \in Nat
              /\ Balance(st.accounts[b], t) >= Balance(base.accounts[b], t)
              BY <1>9
        <4>5. Balance(new.accounts[b], t)
                >= Balance(base.accounts[b], t) + DueSince(m, b, s, mid(m), left(m))
              BY <4>2, <4>3, <4>4
        <4>. QED  BY <4>1, <4>2, <4>5 DEF t
      <3>. QED  BY <3>2, <3>4
    <2>. QED  BY <2>3, <2>4
  <1>11. \A m \in Markets : KeepsOrders(was(m), left(m))
    <2> HIDE DEF was, left, mid
    <2>. QED  BY <1>8, KeptTwice
  <1>. QED  BY <1>2, <1>10, <1>11 DEF PaidSince

(* No swap at all owes nothing.                                            *)
LEMMA PaidAtFirst ==
  ASSUME NEW base, IsSwapState(base), NEW swaps
  PROVE  PaidSince(base, swaps, 0, base)
PROOF
  <1>1. ASSUME NEW m \in Markets
        PROVE  /\ KeepsOrders(base.markets[m].book, base.markets[m].book)
               /\ \A s : KeepsSide(s, base.markets[m].book, base.markets[m].book)
               /\ \A b, s : DueSince(m, b, s, base.markets[m].book, base.markets[m].book) = 0
    <2>1. IsBook(base.markets[m].book, base.sequence) /\ base.sequence \in Nat
          BY DEF IsSwapState, AreMarkets, IsMarket, IsBook
    <2>2. \A b, s : DueSince(m, b, s, base.markets[m].book, base.markets[m].book) = 0
          BY <2>1, NothingDueAtFirst
    <2>. QED  BY <2>2 DEF KeepsOrders, KeepsSide, OnSide
  <1>2. \A b \in DOMAIN base.accounts : \A t : Balance(base.accounts[b], t) \in Nat
        BY BalanceType DEF IsSwapState, AreAccounts
  <1>3. ASSUME NEW m \in Markets, NEW s \in Sides, NEW b \in DOMAIN base.accounts
        PROVE  LET due == DueSince(m, b, s, base.markets[m].book, base.markets[m].book)
               IN  /\ due \in Nat
                   /\ Balance(base.accounts[b], GainToken(m, s))
                        >= Balance(base.accounts[b], GainToken(m, s)) + due
    <2> DEFINE t == GainToken(m, s)
    <2>1. DueSince(m, b, s, base.markets[m].book, base.markets[m].book) = 0
          BY <1>1
    <2> HIDE DEF t
    <2>2. Balance(base.accounts[b], t) \in Nat
          BY <1>2
    <2>3. Balance(base.accounts[b], t) >= Balance(base.accounts[b], t) + 0
          BY <2>2
    <2>. QED  BY <2>1, <2>3 DEF t
  <1>. QED  BY <1>1, <1>3 DEF PaidSince

(* A chain that does not panic is fair to all accounts; and pays all of    *)
(* its makers, if it never returns to one of its order books' sides.       *)
LEMMA ChainIsFair ==
  ASSUME NEW a \in Accounts, NEW swaps \in Seq(SwapActions),
         NEW base, IsChainState(base), IsSwapState(base),
         Chain(a, base, swaps).ok
  PROVE  /\ FairSince(base, Chain(a, base, swaps))
         /\ NeverReturns(swaps) => PaidSince(base, swaps, Len(swaps), Chain(a, base, swaps))
PROOF
  <1> DEFINE n == Len(swaps)
  <1>0. n \in Nat
        OBVIOUS
  <1>1. PICK h : /\ h[0] = base
                 /\ \A k \in 1 .. n : h[k] = ExecuteSwapAction(h[k - 1], a, swaps[k])
                 /\ Chain(a, base, swaps) = h[n]
        BY ChainUnfolding
  <1>2. \A k \in 1 .. n : swaps[k] \in SwapActions /\ swaps[k].market \in Markets
    <2>1. \A w \in SwapActions : w.market \in Markets
          BY DEF SwapActions
    <2>. QED  BY <2>1
  <1> DEFINE Fair(k) == /\ FairSince(base, h[k])
                        /\ NeverReturns(swaps) => PaidSince(base, swaps, k, h[k])
             Bad == {k \in 0 .. n : ~ (IsChainState(h[k]) /\ (h[k].ok => Fair(k)))}
  <1> HIDE DEF n
  <1>3. Bad = {}
    <2> SUFFICES ASSUME Bad # {} PROVE FALSE
        OBVIOUS
    <2>1. Bad \in SUBSET Nat
          BY <1>0
    <2>2. PICK k \in Bad : \A l \in Bad : k <= l
          BY <2>1, NatMinimum
    <2>3. CASE k = 0
      <3>1. Fair(0)
            BY <1>1, FairAtFirst, PaidAtFirst
      <3>. QED  BY <1>1, <2>2, <2>3, <3>1
    <2>4. CASE k # 0
      <3>1. k \in 1 .. n /\ k - 1 \in 0 .. n /\ k - 1 \notin Bad
            BY <1>0, <2>2, <2>4
      <3> DEFINE st  == h[k - 1]
                 w   == swaps[k]
                 new == ExecuteSwapAction(st, a, w)
      <3>2. h[k] = new
            BY <1>1, <3>1
      <3>3. IsChainState(st) /\ (st.ok => Fair(k - 1))
            BY <3>1
      <3>4. w \in SwapActions /\ w.market \in Markets
            BY <1>2, <3>1
      <3>9. Fair(k - 1) => /\ FairSince(base, st)
                           /\ NeverReturns(swaps) => PaidSince(base, swaps, k - 1, st)
            OBVIOUS
      <3>10. k \in 1 .. Len(swaps) /\ w = swaps[k]
            BY <3>1 DEF n
      <3> HIDE DEF st, w, Fair
      <3>5. /\ IsChainState(new)
            /\ new.ok => st.ok /\ CanSwap(st, a, w, InternalSwap(st, a, w))
            BY <3>3, SwapOrPanic
      <3>6. ASSUME new.ok
            PROVE  /\ FairSince(base, new)
                   /\ NeverReturns(swaps) => PaidSince(base, swaps, k, new)
        <4>1. /\ st.ok /\ CanSwap(st, a, w, InternalSwap(st, a, w)) /\ FairSince(base, st)
              /\ NeverReturns(swaps) => PaidSince(base, swaps, k - 1, st)
              BY <3>3, <3>5, <3>6, <3>9
        <4>2. IsSwapState(st)
              BY <4>1 DEF FairSince
        <4>3. SwapsFairly(st, w.market, new) /\ PaysMakers(st, w, new)
              BY <3>4, <4>1, <4>2, SwapIsFair
        <4> HIDE DEF new
        <4>4. FairSince(base, new)
              BY <3>4, <4>1, <4>3, FairOnceMore
        <4>5. ASSUME NeverReturns(swaps)
              PROVE  PaidSince(base, swaps, k, new)
          <5>1. SwapsFairly(st, swaps[k].market, new) /\ PaysMakers(st, swaps[k], new)
                BY <3>10, <4>3
          <5>. QED  BY <3>10, <4>1, <4>5, <5>1, PaidOnceMore
        <4>. QED  BY <4>4, <4>5
      <3> HIDE DEF new
      <3>7. h[k].ok => Fair(k)
            BY <3>2, <3>6 DEF Fair
      <3>. QED  BY <2>2, <3>2, <3>5, <3>7
    <2>. QED  BY <2>3, <2>4
  <1>4. n \in 0 .. n
        BY <1>0
  <1>5. h[n].ok => Fair(n)
        BY <1>3, <1>4
  <1>. QED  BY <1>1, <1>5 DEF n

-----------------------------------------------------------------------------
(* Swaps as steps of the exchange.                                         *)

(* The state a chain starts from.                                          *)
StartOf(swaps, token, amount) ==
  [accounts |-> accounts, markets |-> markets, sequence |-> prev_order_sequence_number,
   token |-> token, amount |-> amount,
   ok |-> contract_state = "Active" /\ swaps # <<>> /\ Last(swaps).min_out # {}]

(* A chain is one from the present state.                                  *)
LEMMA StartFacts ==
  ASSUME CustodyInv, NEW a \in Accounts, NEW swaps \in Seq(SwapActions),
         NEW token \in Tokens, NEW amount \in Nat
  PROVE  LET base == StartOf(swaps, token, amount)
         IN  /\ ExecuteSwaps(a, swaps, token, amount) = Chain(a, base, swaps)
             /\ base.accounts = accounts /\ base.markets = markets
             /\ base.sequence = prev_order_sequence_number
             /\ base.token = token /\ base.amount = amount
             /\ IsChainState(base) /\ IsSwapState(base)
PROOF
  <1> DEFINE base == StartOf(swaps, token, amount)
  <1>1. /\ TypeOK /\ BooksMatchAccounts /\ AccountsCovered
        BY DEF CustodyInv, CustodyTypeOK
  <1>2. ExecuteSwaps(a, swaps, token, amount) = Chain(a, base, swaps)
        BY Zenon DEF ExecuteSwaps, Chain, StartOf
  <1>3. /\ base.accounts = accounts /\ base.markets = markets
        /\ base.sequence = prev_order_sequence_number
        /\ base.token = token /\ base.amount = amount
        BY DEF StartOf
  <1>4. IsChainState(base)
        BY DEF StartOf, IsChainState
  <1> HIDE DEF base
  <1>5. IsSwapState(base)
    <2>1. AreAccounts(accounts)
          BY <1>1 DEF TypeOK, AreAccounts
    <2>2. AreMarkets(markets, prev_order_sequence_number) /\ prev_order_sequence_number \in Nat
          BY <1>1 DEF TypeOK, AreMarkets
    <2>3. ListsMatch(accounts, markets)
          BY <1>1 DEF BooksMatchAccounts, ListsMatch
    <2>4. AreCovered(accounts)
          BY <1>1 DEF AccountsCovered, AreCovered
    <2>. QED  BY <1>3, <2>1, <2>2, <2>3, <2>4 DEF IsSwapState
  <1>. QED  BY <1>2, <1>3, <1>4, <1>5 DEF base

(* A chain that does not panic is fair to the present accounts.            *)
LEMMA ExecutedFairly ==
  ASSUME CustodyInv, NEW a \in Accounts, NEW swaps \in Seq(SwapActions),
         NEW token \in Tokens, NEW amount \in Nat,
         ExecuteSwaps(a, swaps, token, amount).ok
  PROVE  LET st == ExecuteSwaps(a, swaps, token, amount)
         IN  /\ IsSwapState(st) /\ NoneLoses(accounts, st.accounts)
             /\ \A t : /\ HeldBy(st.accounts, t) \in Nat /\ DueIn(st.markets, t) \in Nat
                       /\ HeldBy(accounts, t) \in Nat /\ DueIn(markets, t) \in Nat
                       /\ In(st.token, t, st.amount) \in Nat /\ In(token, t, amount) \in Nat
                       /\ HeldBy(st.accounts, t) + DueIn(st.markets, t) + In(st.token, t, st.amount)
                            <= HeldBy(accounts, t) + DueIn(markets, t) + In(token, t, amount)
PROOF
  <1> DEFINE base == StartOf(swaps, token, amount)
             st   == ExecuteSwaps(a, swaps, token, amount)
  <1>2. /\ st = Chain(a, base, swaps)
        /\ base.accounts = accounts /\ base.markets = markets
        /\ base.token = token /\ base.amount = amount
        /\ IsChainState(base)
        BY StartFacts
  <1>5. IsSwapState(base)
        BY StartFacts
  <1> HIDE DEF base, st
  <1>6. st.ok
        BY DEF st
  <1>7. FairSince(base, st)
        BY <1>2, <1>5, <1>6, ChainIsFair
  <1>8. IsSwapState(st) /\ NoneLoses(accounts, st.accounts)
        BY <1>2, <1>7 DEF FairSince
  <1>9. ASSUME NEW t
        PROVE  /\ HeldBy(st.accounts, t) \in Nat /\ DueIn(st.markets, t) \in Nat
               /\ HeldBy(accounts, t) \in Nat /\ DueIn(markets, t) \in Nat
               /\ In(st.token, t, st.amount) \in Nat /\ In(token, t, amount) \in Nat
               /\ HeldBy(st.accounts, t) + DueIn(st.markets, t) + In(st.token, t, st.amount)
                    <= HeldBy(accounts, t) + DueIn(markets, t) + In(token, t, amount)
    <2>1. AllOf(st, t) <= AllOf(base, t)
          BY <1>7 DEF FairSince
    <2>2. HeldBy(st.accounts, t) \in Nat /\ HeldBy(base.accounts, t) \in Nat
          BY <1>5, <1>8, TotalIs DEF IsSwapState
    <2>3. DueIn(st.markets, t) \in Nat /\ DueIn(base.markets, t) \in Nat
          BY <1>5, <1>8, DueInOf
    <2>4. In(st.token, t, st.amount) \in Nat /\ In(base.token, t, base.amount) \in Nat
          BY <1>5, <1>8 DEF IsSwapState, In
    <2>. QED  BY <1>2, <2>1, <2>2, <2>3, <2>4 DEF AllOf
  <1>. QED  BY <1>8, <1>9 DEF st

(* ... and, if it never returns, makes them whole when it is committed.    *)
LEMMA ExecutedPays ==
  ASSUME CustodyInv, NEW a \in Accounts, NEW swaps \in Seq(SwapActions), NeverReturns(swaps),
         NEW token \in Tokens, NEW amount \in Nat,
         ExecuteSwaps(a, swaps, token, amount).ok,
         CommitSwaps(ExecuteSwaps(a, swaps, token, amount)),
         NEW b \in DOMAIN accounts
  PROVE  MadeWhole(b)
PROOF
  <1> DEFINE base == StartOf(swaps, token, amount)
             st   == ExecuteSwaps(a, swaps, token, amount)
  <1>1. /\ st = Chain(a, base, swaps)
        /\ base.accounts = accounts /\ base.markets = markets
        /\ IsChainState(base)
        BY StartFacts
  <1>2. IsSwapState(base)
        BY StartFacts
  <1>3. st.ok /\ accounts' = st.accounts /\ markets' = st.markets
        BY DEF CommitSwaps
  <1> HIDE DEF base, st
  <1>4. FairSince(base, st) /\ PaidSince(base, swaps, Len(swaps), st)
        BY <1>1, <1>2, <1>3, ChainIsFair
  <1>5. ASSUME NEW m \in Markets, NEW s \in Sides
        PROVE  Balance(accounts'[b], GainToken(m, s)) - Balance(accounts[b], GainToken(m, s))
                 >= SumFunction(DueForLost(b, m, s))
    <2> DEFINE t   == GainToken(m, s)
               due == DueSince(m, b, s, markets[m].book, markets'[m].book)
    <2>1. due \in Nat /\ Balance(accounts'[b], t) >= Balance(accounts[b], t) + due
          BY <1>1, <1>3, <1>4 DEF PaidSince
    <2>2. SumFunction(DueForLost(b, m, s)) = due
          BY DueForLostIs
    <2>3. IsAccount(accounts[b]) /\ IsAccount(accounts'[b])
      <3>1. IsSwapState(st) /\ DOMAIN st.accounts = DOMAIN base.accounts
            BY <1>4 DEF FairSince, NoneLoses
      <3>. QED  BY <1>1, <1>2, <1>3, <3>1 DEF IsSwapState, AreAccounts
    <2> HIDE DEF t, due
    <2>4. Balance(accounts[b], t) \in Nat /\ Balance(accounts'[b], t) \in Nat
          BY <2>3, BalanceType
    <2>5. Balance(accounts'[b], t) - Balance(accounts[b], t) >= due
          BY <2>1, <2>4
    <2>. QED  BY <2>2, <2>5 DEF t
  <1>. QED  BY <1>5, MadeWholeParts DEF GainToken

(* Storage balances add up to what they did.                               *)
LEMMA SameStorageIn ==
  ASSUME NEW old, NEW new, NoneLoses(old, new), NEW t
  PROVE  StorageIn(new, t) = StorageIn(old, t)
PROOF
  <1>1. [a \in DOMAIN new |-> new[a].storage] = [a \in DOMAIN old |-> old[a].storage]
        BY DEF NoneLoses
  <1>. QED  BY <1>1 DEF StorageIn

(* A chain that is committed, with its input taken in or out of flight and *)
(* its output on its way, keeps the invariant.                             *)
LEMMA InvWhenSwapped ==
  ASSUME CustodyInv, NEW a \in Accounts, NEW swaps \in Seq(SwapActions),
         NEW token \in Tokens, NEW amount \in Nat,
         ExecuteSwaps(a, swaps, token, amount).ok,
         CommitSwaps(ExecuteSwaps(a, swaps, token, amount)),
         wallets' \in [Accounts -> [Tokens -> Nat]], held' \in [Tokens -> Nat],
         IsReceiptBag(receipts'),
         \A t \in Tokens :
           /\ FlowOf(receipts', t) \in Nat
           /\ FlowOf(receipts', t) + held[t] + In(token, t, amount)
                = FlowOf(receipts, t) + held'[t]
                    + In(ExecuteSwaps(a, swaps, token, amount).token, t,
                         ExecuteSwaps(a, swaps, token, amount).amount)
  PROVE  CustodyInv'
PROOF
  <1> DEFINE st == ExecuteSwaps(a, swaps, token, amount)
  <1>1. /\ accounts' = st.accounts /\ markets' = st.markets
        /\ prev_order_sequence_number' = st.sequence
        /\ contract_state' = contract_state /\ owner_id' = owner_id
        BY DEF CommitSwaps
  <1>2. /\ IsSwapState(st) /\ NoneLoses(accounts, st.accounts)
        /\ \A t : /\ HeldBy(st.accounts, t) \in Nat /\ DueIn(st.markets, t) \in Nat
                  /\ HeldBy(accounts, t) \in Nat /\ DueIn(markets, t) \in Nat
                  /\ In(st.token, t, st.amount) \in Nat /\ In(token, t, amount) \in Nat
                  /\ HeldBy(st.accounts, t) + DueIn(st.markets, t) + In(st.token, t, st.amount)
                       <= HeldBy(accounts, t) + DueIn(markets, t) + In(token, t, amount)
        BY ExecutedFairly
  <1>3. \A t \in Tokens :
           /\ FlowOf(receipts', t) \in Nat
           /\ FlowOf(receipts', t) + held[t] + In(token, t, amount)
                = FlowOf(receipts, t) + held'[t] + In(st.token, t, st.amount)
        OBVIOUS
  <1> HIDE DEF st
  <1>4. /\ AreAccounts(accounts') /\ AreMarkets(markets', prev_order_sequence_number')
        /\ prev_order_sequence_number' \in Nat
        /\ ListsMatch(accounts', markets') /\ AreCovered(accounts')
        BY <1>1, <1>2 DEF IsSwapState
  <1>5. TypeOK'
        BY <1>1, <1>4 DEF CustodyInv, CustodyTypeOK, TypeOK, AreAccounts, AreMarkets
  <1>6. BooksMatchAccounts'
        BY <1>4 DEF BooksMatchAccounts, ListsMatch
  <1>7. AccountsCovered'
        BY <1>4 DEF AccountsCovered, AreCovered
  <1>8. ASSUME NEW t \in Tokens
        PROVE  Debt(accounts', markets', receipts', t) <= held'[t]
    <2>1. Debt(accounts, markets, receipts, t) <= held[t]
          BY DEF CustodyInv
    <2>2. AreAccounts(accounts) /\ held[t] \in Nat /\ held'[t] \in Nat
          BY DEF CustodyInv, CustodyTypeOK, TypeOK, AreAccounts
    <2>3. /\ TotalOf(accounts, t) = HeldBy(accounts, t) + StorageIn(accounts, t)
          /\ TotalOf(accounts', t) = HeldBy(accounts', t) + StorageIn(accounts', t)
          /\ StorageIn(accounts, t) \in Nat
          BY <1>4, <2>2, TotalIs
    <2>4. StorageIn(accounts', t) = StorageIn(accounts, t)
          BY <1>1, <1>2, SameStorageIn
    <2>5. FlowOf(receipts, t) \in Nat
          BY FlowIs DEF CustodyInv
    <2>6. /\ HeldBy(accounts', t) \in Nat /\ DueIn(markets', t) \in Nat
          /\ HeldBy(accounts, t) \in Nat /\ DueIn(markets, t) \in Nat
          /\ In(st.token, t, st.amount) \in Nat /\ In(token, t, amount) \in Nat
          /\ HeldBy(accounts', t) + DueIn(markets', t) + In(st.token, t, st.amount)
               <= HeldBy(accounts, t) + DueIn(markets, t) + In(token, t, amount)
          BY <1>1, <1>2
    <2>7. /\ FlowOf(receipts', t) \in Nat
          /\ FlowOf(receipts', t) + held[t] + In(token, t, amount)
               = FlowOf(receipts, t) + held'[t] + In(st.token, t, st.amount)
          BY <1>3
    <2> DEFINE h == HeldBy(accounts', t)     d == DueIn(markets', t)    f == FlowOf(receipts', t)
               k == HeldBy(accounts, t)      e == DueIn(markets, t)     g == FlowOf(receipts, t)
               x == In(st.token, t, st.amount)    y == In(token, t, amount)
               z == StorageIn(accounts, t)   new == held'[t]            old == held[t]
    <2>8. /\ h \in Nat /\ d \in Nat /\ f \in Nat /\ k \in Nat /\ e \in Nat /\ g \in Nat
          /\ x \in Nat /\ y \in Nat /\ z \in Nat /\ new \in Nat /\ old \in Nat
          BY <2>2, <2>3, <2>5, <2>6, <2>7
    <2>9. /\ h + d + x <= k + e + y /\ f + old + y = g + new + x
          /\ k + z + e + g <= old
          /\ Debt(accounts', markets', receipts', t) = h + z + d + f
          BY <2>1, <2>3, <2>4, <2>6, <2>7, Zenon DEF Debt
    <2> HIDE DEF h, d, f, k, e, g, x, y, z, new, old
    <2>10. h + z + d + f <= new
          BY <2>8, <2>9
    <2>. QED  BY <2>9, <2>10 DEF new
  <1>9. owner_id' \in Accounts
        BY <1>1 DEF CustodyInv, CustodyTypeOK
  <1>10. CustodyTypeOK'
        BY <1>5, <1>9 DEF CustodyTypeOK, IsReceiptBag
  <1>. QED  BY <1>6, <1>7, <1>8, <1>10 DEF CustodyInv

(* The output of a chain is on its way as long as it is not zero.          *)
LEMMA OutputSent ==
  ASSUME NEW B, IsReceiptBag(B), NEW a \in Accounts, NEW st, IsSwapState(st)
  PROVE  /\ IsReceiptBag(SendOutput(B, a, st))
         /\ \A t : /\ FlowOf(B, t) \in Nat
                   /\ FlowOf(SendOutput(B, a, st), t) = FlowOf(B, t) + In(st.token, t, st.amount)
PROOF
  <1>1. st.token \in Tokens /\ st.amount \in Nat
        BY DEF IsSwapState
  <1>2. \A t : FlowOf(B, t) \in Nat
    <2>1. 1 \in Nat \ {0} /\ "transfer" \in {"transfer", "callback", "notify", "return", "pay"}
          OBVIOUS
    <2>2. MakeReceipt("transfer", a, st.token, 1, TRUE) \in Receipt
          BY <1>1, <2>1, MadeReceipt
    <2>. QED  BY <2>2, FlowOfAdd
  <1>3. CASE st.amount = 0
    <2>1. SendOutput(B, a, st) = B
          BY <1>3 DEF SendOutput
    <2>2. \A t : In(st.token, t, st.amount) = 0
          BY <1>3 DEF In
    <2>. QED  BY <1>2, <2>1, <2>2
  <1>4. CASE st.amount # 0
    <2> DEFINE x == MakeReceipt("transfer", a, st.token, st.amount, TRUE)
    <2>1. SendOutput(B, a, st) = Bag!BagAdd(B, x)
          BY <1>4 DEF SendOutput
    <2>2. st.amount \in Nat \ {0} /\ "transfer" \in {"transfer", "callback", "notify", "return", "pay"}
          BY <1>1, <1>4
    <2>3. x \in Receipt
          BY <1>1, <2>2, MadeReceipt
    <2>4. \A t : HeldFor(x, t) = In(st.token, t, st.amount)
          BY DEF MakeReceipt, HeldFor, In
    <2> HIDE DEF x
    <2>5. IsReceiptBag(Bag!BagAdd(B, x))
          BY <2>3, FlowOfAdd
    <2>6. \A t : FlowOf(Bag!BagAdd(B, x), t) = FlowOf(B, t) + HeldFor(x, t)
          BY <2>3, FlowOfAdd
    <2>. QED  BY <1>2, <2>1, <2>4, <2>5, <2>6
  <1>. QED  BY <1>3, <1>4

(* The state that a chain which does not panic leaves behind.              *)
LEMMA ExecutedSound ==
  ASSUME CustodyInv, NEW a \in Accounts, NEW swaps \in Seq(SwapActions),
         NEW token \in Tokens, NEW amount \in Nat,
         ExecuteSwaps(a, swaps, token, amount).ok
  PROVE  IsSwapState(ExecuteSwaps(a, swaps, token, amount))
BY ExecutedFairly, Zenon

(* swap_near takes its input in and commits the chain in one step.         *)
LEMMA InvWhenSwappedNear ==
  ASSUME CustodyInv, NEW a \in Accounts, NEW swaps \in Seq(SwapActions),
         NEW amount \in Nat, SwapNear(a, swaps, amount)
  PROVE  CustodyInv'
PROOF
  <1> DEFINE st == ExecuteSwaps(a, swaps, Near, amount)
  <1>1. /\ st.ok /\ TakeIn(a, Near, amount)
        /\ receipts' = SendOutput(receipts, a, st)
        /\ CommitSwaps(st)
        BY Zenon DEF SwapNear
  <1>2. Near \in Tokens /\ CustodyTypeOK /\ IsReceiptBag(receipts)
        BY CustodyAssumption DEF CustodyInv
  <1>3. IsSwapState(st)
        BY <1>1, <1>2, ExecutedSound
  <1> HIDE DEF st
  <1>4. /\ wallets' \in [Accounts -> [Tokens -> Nat]] /\ held' \in [Tokens -> Nat]
        /\ \A t \in Tokens : held[t] \in Nat /\ held'[t] = held[t] + In(Near, t, amount)
        BY <1>1, <1>2, HeldMoves
  <1>5. /\ IsReceiptBag(receipts')
        /\ \A t : /\ FlowOf(receipts, t) \in Nat
                  /\ FlowOf(receipts', t) = FlowOf(receipts, t) + In(st.token, t, st.amount)
        BY <1>1, <1>2, <1>3, OutputSent
  <1>6. \A t : In(st.token, t, st.amount) \in Nat /\ In(Near, t, amount) \in Nat
        BY <1>3 DEF In, IsSwapState
  <1>7. ASSUME NEW t \in Tokens
        PROVE  /\ FlowOf(receipts', t) \in Nat
               /\ FlowOf(receipts', t) + held[t] + In(Near, t, amount)
                    = FlowOf(receipts, t) + held'[t] + In(st.token, t, st.amount)
    <2>1. held[t] \in Nat /\ held'[t] = held[t] + In(Near, t, amount)
          BY <1>4
    <2>2. /\ FlowOf(receipts, t) \in Nat
          /\ FlowOf(receipts', t) = FlowOf(receipts, t) + In(st.token, t, st.amount)
          BY <1>5
    <2>3. In(st.token, t, st.amount) \in Nat /\ In(Near, t, amount) \in Nat
          BY <1>6
    <2>. QED  BY <2>1, <2>2, <2>3
  <1>. QED  BY <1>1, <1>2, <1>4, <1>5, <1>7, InvWhenSwapped DEF st

(* ft_on_transfer commits the chain, or sends its input back.              *)
LEMMA InvWhenSwapNotified ==
  ASSUME CustodyInv, NEW r \in Due("notify"), FtOnTransferSwap(r)
  PROVE  CustodyInv'
PROOF
  <1> DEFINE back == MakeReceipt("return", r.account, r.token, r.amount, TRUE)
             st   == ExecuteSwaps(r.account, r.msg, r.token, r.amount)
             rest == Bag!BagRemove(receipts, r)
  <1>1. /\ r \in BagToSet(receipts) /\ r.kind = "notify"
        /\ r \in Receipt /\ r.account \in Accounts /\ r.token \in Tokens
        /\ r.amount \in Nat \ {0} /\ r.ok \in BOOLEAN /\ IsReceiptBag(receipts)
        BY ReceiptFacts DEF Due
  <1>2. /\ r.msg # <<>>
        /\ st.ok => receipts' = SendOutput(rest, r.account, st) /\ CommitSwaps(st)
        /\ ~ st.ok => receipts' = Bag!BagAdd(rest, back) /\ UNCHANGED <<vars, owner_id>>
        /\ UNCHANGED <<wallets, held>>
        BY Zenon DEF FtOnTransferSwap, SendBack
  <1>3. /\ wallets' \in [Accounts -> [Tokens -> Nat]]
        /\ held' \in [Tokens -> Nat] /\ held' = held
        BY <1>2 DEF CustodyInv, CustodyTypeOK
  <1>4. r.msg \in Seq(SwapActions) /\ r.amount \in Nat
    <2>1. r.msg \in Messages
          BY <1>1, <1>2 DEF Receipt
    <2>. QED  BY <1>1, <2>1, SwapsAssumption
  <1>5. /\ back \in Receipt
        /\ \A t : /\ HeldFor(r, t) = In(r.token, t, r.amount)
                  /\ HeldFor(back, t) = In(r.token, t, r.amount)
                  /\ In(r.token, t, r.amount) \in Nat
    <2>1. "return" \in {"transfer", "callback", "notify", "return", "pay"}
          OBVIOUS
    <2>2. back \in Receipt
          BY <1>1, <2>1, MadeReceipt
    <2>3. \A t : HeldFor(back, t) = In(r.token, t, r.amount)
          BY DEF MakeReceipt, HeldFor, In
    <2>4. \A t : HeldFor(r, t) = In(r.token, t, r.amount) /\ In(r.token, t, r.amount) \in Nat
          BY <1>1 DEF HeldFor, In
    <2>. QED  BY <2>2, <2>3, <2>4
  <1>6. CASE st.ok
    <2>1. IsSwapState(st)
          BY <1>1, <1>4, <1>6, ExecutedSound
    <2>2. receipts' = SendOutput(rest, r.account, st) /\ CommitSwaps(st)
          BY <1>2, <1>6
    <2>3. /\ IsReceiptBag(rest)
          /\ \A t : /\ FlowOf(rest, t) \in Nat
                    /\ FlowOf(receipts, t) = FlowOf(rest, t) + HeldFor(r, t)
          BY <1>1, FlowOfRemove
    <2> HIDE DEF st, rest
    <2>4. /\ IsReceiptBag(receipts')
          /\ \A t : FlowOf(receipts', t) = FlowOf(rest, t) + In(st.token, t, st.amount)
          BY <1>1, <2>1, <2>2, <2>3, OutputSent
    <2>5. \A t : In(st.token, t, st.amount) \in Nat
          BY <2>1 DEF In, IsSwapState
    <2>6. ASSUME NEW t \in Tokens
          PROVE  /\ FlowOf(receipts', t) \in Nat
                 /\ FlowOf(receipts', t) + held[t] + In(r.token, t, r.amount)
                      = FlowOf(receipts, t) + held'[t] + In(st.token, t, st.amount)
      <3>1. held'[t] = held[t] /\ held[t] \in Nat
            BY <1>3
      <3>2. /\ FlowOf(rest, t) \in Nat
            /\ FlowOf(receipts, t) = FlowOf(rest, t) + In(r.token, t, r.amount)
            BY <1>5, <2>3
      <3>3. FlowOf(receipts', t) = FlowOf(rest, t) + In(st.token, t, st.amount)
            BY <2>4
      <3>4. In(st.token, t, st.amount) \in Nat /\ In(r.token, t, r.amount) \in Nat
            BY <1>5, <2>5
      <3>. QED  BY <3>1, <3>2, <3>3, <3>4
    <2> DEFINE a == r.account    token == r.token    amount == r.amount    swaps == r.msg
    <2>7. /\ a \in Accounts /\ token \in Tokens /\ amount \in Nat /\ swaps \in Seq(SwapActions)
          /\ st = ExecuteSwaps(a, swaps, token, amount)
          BY <1>1, <1>4 DEF st
    <2>8. \A t \in Tokens :
             /\ FlowOf(receipts', t) \in Nat
             /\ FlowOf(receipts', t) + held[t] + In(token, t, amount)
                  = FlowOf(receipts, t) + held'[t] + In(st.token, t, st.amount)
          BY <2>6
    <2> HIDE DEF a, token, amount, swaps
    <2>. QED  BY <1>3, <1>6, <2>2, <2>4, <2>7, <2>8, InvWhenSwapped
  <1>7. CASE ~ st.ok
    <2>1. UNCHANGED vars /\ owner_id' = owner_id /\ owner_id' \in Accounts
          BY <1>2, <1>7 DEF CustodyInv, CustodyTypeOK
    <2>2. receipts' = Bag!BagAdd(rest, back)
          BY <1>2, <1>7
    <2> HIDE DEF back, st
    <2>3. /\ IsReceiptBag(receipts')
          /\ \A t : /\ FlowOf(receipts', t) + HeldFor(r, t) = FlowOf(receipts, t) + HeldFor(back, t)
                    /\ FlowOf(receipts', t) \in Nat /\ FlowOf(receipts, t) \in Nat
          BY <1>1, <1>5, <2>2, FlowOfReplace
    <2>4. ASSUME NEW t \in Tokens
          PROVE  FlowOf(receipts', t) + held[t] = FlowOf(receipts, t) + held'[t]
      <3>1. HeldFor(r, t) \in Nat /\ HeldFor(back, t) = HeldFor(r, t)
            BY <1>5
      <3>2. held'[t] = held[t] /\ held[t] \in Nat
            BY <1>3
      <3>3. /\ FlowOf(receipts', t) + HeldFor(r, t) = FlowOf(receipts, t) + HeldFor(back, t)
            /\ FlowOf(receipts', t) \in Nat /\ FlowOf(receipts, t) \in Nat
            BY <2>3
      <3>. QED  BY <3>1, <3>2, <3>3
    <2>. QED  BY <1>3, <2>1, <2>3, <2>4, InvWhenTokensMove
  <1>. QED  BY <1>6, <1>7

(* The inductive invariant of Custody is one of trading with swaps.        *)
LEMMA SwapsInvHolds == SwapsSpec => []CustodyInv
PROOF
  <1>1. CustodyInit => CustodyInv
        BY InvAtFirst
  <1>2. CustodyInv /\ [SwapsNext]_allVars => CustodyInv'
    <2> SUFFICES ASSUME CustodyInv, [SwapsNext]_allVars PROVE CustodyInv'
        OBVIOUS
    <2>1. CASE [CustodyNext]_allVars
          BY <2>1, InvInStep
    <2>2. ASSUME NEW a \in Users, NEW swaps \in NearSwaps, NEW amount \in Amounts,
                 SwapNear(a, swaps, amount)
          PROVE  CustodyInv'
      <3>1. a \in Accounts /\ swaps \in Seq(SwapActions) /\ amount \in Nat
            BY CustodyAssumption, SwapsAssumption
      <3>. QED  BY <2>2, <3>1, InvWhenSwappedNear
    <2>3. ASSUME NEW r \in Due("notify"), FtOnTransferSwap(r)
          PROVE  CustodyInv'
          BY <2>3, InvWhenSwapNotified
    <2>. QED  BY <2>1, <2>2, <2>3 DEF SwapsNext
  <1>. QED  BY <1>1, <1>2, PTL DEF SwapsSpec

-----------------------------------------------------------------------------
(* Wallets, custody and accounts hold natural amounts and receipts are     *)
(* well formed through swaps as well: no fee, rebate or refund of a swap   *)
(* underflows.                                                             *)
THEOREM SwapsTypeCorrect == SwapsSpec => []CustodyTypeOK
PROOF
  <1>1. CustodyInv => CustodyTypeOK
        BY InvImplies
  <1>. QED  BY <1>1, SwapsInvHolds, PTL

(* Swaps move orders out of books without an exchange account of the taker *)
(* to change: all the same every order in a book is listed by its owner,   *)
(* and every account pays for its storage.                                 *)
THEOREM SwapsAccountsHold == SwapsSpec => [](BooksMatchAccounts /\ AccountsCovered)
PROOF
  <1>1. CustodyInv => BooksMatchAccounts /\ AccountsCovered
        BY InvImplies
  <1>. QED  BY <1>1, SwapsInvHolds, PTL

(* Every order that swaps have left in a book can be paid back.            *)
THEOREM SwapsCancellable == SwapsSpec => []AlwaysCancellable
PROOF
  <1>1. CustodyInv => AlwaysCancellable
        BY CoveredIsCancellable DEF CustodyInv, CustodyTypeOK
  <1>. QED  BY <1>1, SwapsInvHolds, PTL

(* The exchange is backed through swaps: what a chain of swaps pays to its *)
(* makers, referrers and sender, and keeps as fees, is never more than the *)
(* tokens it was sent and what the makers had locked, however many swaps a *)
(* chain has, whichever markets it passes through and however often.       *)
THEOREM SwapsBacked == SwapsSpec => []Backed
PROOF
  <1>1. CustodyInv => Backed
        BY InvImplies
  <1>. QED  BY <1>1, SwapsInvHolds, PTL

-----------------------------------------------------------------------------
(* Who pays for swaps, and who is paid.                                    *)

(* A chain of swaps by a is committed in this step.                        *)
Commits(a, swaps) ==
  \E token \in Tokens, amount \in Nat :
    /\ ExecuteSwaps(a, swaps, token, amount).ok
    /\ CommitSwaps(ExecuteSwaps(a, swaps, token, amount))

(* Deposits, withdrawals and receipts number no orders.                    *)
LEMMA NumbersStay ==
  ASSUME MoveTokens \/ Execute
  PROVE  prev_order_sequence_number' = prev_order_sequence_number
PROOF
  <1> DEFINE Same == prev_order_sequence_number' = prev_order_sequence_number
  <1>1. ASSUME MoveTokens PROVE Same
    <2>1. /\ \A a, amount : DepositNear(a, amount) => Same
          /\ \A a, token, amount, msg : FtTransferCall(a, token, amount, msg) => Same
          /\ \A a, token, amount : InternalWithdraw(a, token, amount) => Same
          BY DEF DepositNear, FtTransferCall, InternalWithdraw, vars
    <2>2. \A a, b, registration_only, amount :
            StorageDeposit(a, b, registration_only, amount) => Same
          BY DEF StorageDeposit, vars
    <2>3. /\ \A a, amount : StorageWithdraw(a, amount) => Same
          /\ \A a : StorageUnregister(a) => Same
          BY DEF StorageWithdraw, StorageUnregister, vars
    <2> HIDE DEF Same
    <2>. QED  BY <1>1, <2>1, <2>2, <2>3 DEF MoveTokens
  <1>2. Execute => Same
        BY DEF Execute, FtOnTransfer, Deliver, TransferSucceeds, TransferFails,
               ExchangeCallbackPostWithdraw, vars
  <1>. QED  BY <1>1, <1>2

(* Only the commit of a chain numbers orders and moves tokens in one step. *)
LEMMA ExecutedIsCommitted ==
  ASSUME CustodyInv, [SwapsNext]_allVars, SwapsExecuted
  PROVE  \E a \in Accounts, swaps \in Messages \cup NearSwaps :
           swaps \in Seq(SwapActions) /\ Commits(a, swaps)
PROOF
  <1>1. ASSUME [CustodyNext]_allVars
        PROVE  FALSE
    <2>1. CASE UNCHANGED custodyVars
          BY <2>1 DEF SwapsExecuted, custodyVars
    <2>2. CASE MoveTokens \/ Execute
          BY <2>2, NumbersStay DEF SwapsExecuted
    <2>3. ASSUME NEW a \in OwnersTried, SetOwner(a)
          PROVE  FALSE
          BY <2>3 DEF SetOwner, vars, SwapsExecuted
    <2>4. CASE UNCHANGED allVars
          BY <2>1, <2>4 DEF allVars
    <2>. QED  BY <1>1, <2>1, <2>2, <2>3, <2>4 DEF CustodyNext
  <1>2. ASSUME NEW a \in Users, NEW swaps \in NearSwaps, NEW amount \in Amounts,
               SwapNear(a, swaps, amount)
        PROVE  a \in Accounts /\ swaps \in Seq(SwapActions) /\ Commits(a, swaps)
    <2>1. a \in Accounts /\ swaps \in Seq(SwapActions) /\ amount \in Nat /\ Near \in Tokens
          BY CustodyAssumption, SwapsAssumption
    <2>2. /\ ExecuteSwaps(a, swaps, Near, amount).ok
          /\ CommitSwaps(ExecuteSwaps(a, swaps, Near, amount))
          BY <1>2, Zenon DEF SwapNear
    <2>. QED  BY <2>1, <2>2 DEF Commits
  <1>3. ASSUME NEW r \in Due("notify"), FtOnTransferSwap(r)
        PROVE  /\ r.account \in Accounts /\ r.msg \in Messages
               /\ r.msg \in Seq(SwapActions) /\ Commits(r.account, r.msg)
    <2> DEFINE st == ExecuteSwaps(r.account, r.msg, r.token, r.amount)
    <2>1. /\ r \in Receipt /\ r.account \in Accounts /\ r.token \in Tokens /\ r.amount \in Nat
          BY ReceiptFacts DEF Due
    <2>2. /\ r.msg # <<>>
          /\ st.ok => CommitSwaps(st)
          /\ ~ st.ok => UNCHANGED <<vars, owner_id>>
          BY <1>3, Zenon DEF FtOnTransferSwap
    <2>3. r.msg \in Messages
          BY <2>1, <2>2 DEF Receipt
    <2>4. r.msg \in Seq(SwapActions)
          BY <2>3, SwapsAssumption
    <2>5. st.ok /\ CommitSwaps(st)
      <3> HIDE DEF st
      <3>. QED  BY <2>2 DEF SwapsExecuted, vars
    <2>6. Commits(r.account, r.msg)
          BY <2>1, <2>5 DEF Commits
    <2>. QED  BY <2>1, <2>3, <2>4, <2>6
  <1>. QED  BY <1>1, <1>2, <1>3 DEF SwapsNext

(* A chain that is committed lowers nobody's balance; and makes everybody  *)
(* whole if it never returns.                                              *)
LEMMA CommitsFairly ==
  ASSUME CustodyInv, NEW a \in Accounts, NEW swaps \in Seq(SwapActions), Commits(a, swaps)
  PROVE  /\ PayingAccounts = {}
         /\ NeverReturns(swaps) => \A b \in DOMAIN accounts : MadeWhole(b)
PROOF
  <1>1. PICK token \in Tokens, amount \in Nat :
          /\ ExecuteSwaps(a, swaps, token, amount).ok
          /\ CommitSwaps(ExecuteSwaps(a, swaps, token, amount))
        BY DEF Commits
  <1> DEFINE st == ExecuteSwaps(a, swaps, token, amount)
  <1>2. IsSwapState(st) /\ NoneLoses(accounts, st.accounts)
        BY <1>1, ExecutedFairly
  <1>3. accounts' = st.accounts
        BY <1>1 DEF CommitSwaps
  <1>4. NeverReturns(swaps) => \A b \in DOMAIN accounts : MadeWhole(b)
        BY <1>1, ExecutedPays
  <1> HIDE DEF st
  <1>5. ASSUME NEW b \in DOMAIN accounts, NEW t \in Tokens
        PROVE  ~ (Balance(accounts'[b], t) < Balance(accounts[b], t))
    <2>1. IsAccount(accounts[b]) /\ IsAccount(accounts'[b])
      <3>1. TypeOK /\ DOMAIN st.accounts = DOMAIN accounts
            BY <1>2 DEF CustodyInv, CustodyTypeOK, NoneLoses
      <3>. QED  BY <1>2, <1>3, <3>1 DEF IsSwapState, AreAccounts, TypeOK
    <2>2. Balance(accounts[b], t) \in Nat /\ Balance(accounts'[b], t) \in Nat
          BY <2>1, BalanceType
    <2>3. Balance(accounts'[b], t) >= Balance(accounts[b], t)
          BY <1>2, <1>3 DEF NoneLoses
    <2>. QED  BY <2>2, <2>3
  <1>6. PayingAccounts = {}
        BY <1>5 DEF PayingAccounts
  <1>. QED  BY <1>4, <1>6

(* "Swaps are market orders using the taker's wallet balance"              *)
(* (swap_order.rs:3): no account of the exchange pays for a swap, not even *)
(* that of its sender, whatever the chain passes through.                  *)
THEOREM NobodyPaysForSwaps ==
  SwapsSpec => [][SwapsExecuted => PayingAccounts = {}]_allVars
PROOF
  <1> DEFINE Free == SwapsExecuted => PayingAccounts = {}
  <1>1. CustodyInv /\ [SwapsNext]_allVars => Free
        BY ExecutedIsCommitted, CommitsFairly
  <1> HIDE DEF Free
  <1>2. CustodyInv /\ [SwapsNext]_allVars => [Free]_allVars
        BY <1>1
  <1>3. SwapsSpec => [][Free]_allVars
        BY <1>2, SwapsInvHolds, PTL DEF SwapsSpec
  <1>. QED  BY <1>3 DEF Free

(* Every maker a chain has passed through keeps all that the swaps owe it, *)
(* when no chain comes back to a side of a book: a quote value is rounded  *)
(* down in each swap, and what two swaps pay for the halves of an order    *)
(* may be one less than what it is worth.                                  *)
THEOREM SwapsPaidFromWalletHolds ==
  ASSUME \A swaps \in Messages \cup NearSwaps : NeverReturns(swaps)
  PROVE  SwapsSpec => SwapsPaidFromWallet
PROOF
  <1> DEFINE Paid == SwapsExecuted =>
                       /\ PayingAccounts = {}
                       /\ \A a \in DOMAIN accounts : MadeWhole(a)
  <1>1. CustodyInv /\ [SwapsNext]_allVars => Paid
        BY ExecutedIsCommitted, CommitsFairly
  <1> HIDE DEF Paid
  <1>2. CustodyInv /\ [SwapsNext]_allVars => [Paid]_allVars
        BY <1>1
  <1>3. SwapsSpec => [][Paid]_allVars
        BY <1>2, SwapsInvHolds, PTL DEF SwapsSpec
  <1>. QED  BY <1>3 DEF Paid, SwapsPaidFromWallet

-----------------------------------------------------------------------------
(* What swaps that buy take.                                               *)

(* The lots on a side of a book.                                           *)
LotsOn(book, side) == SumFunction([i \in OnSide(book, side) |-> book[i].qty])

(* An order that wants all lots of the other side wants every lot that     *)
(* there is of any maker after all that is ahead of it.                    *)
LEMMA AllWanted ==
  ASSUME NEW n \in Nat, NEW book, IsBook(book, n), NEW o, o.side = "Buy",
         o.qty \in Nat, LotsOn(book, "Sell") <= o.qty, NEW i \in Makers(book, o)
  PROVE  /\ LotsAhead(book, o, i) \in Nat
         /\ \A l \in 1 .. book[i].qty : LotsAhead(book, o, i) + l <= o.qty
PROOF
  <1> DEFINE q == [j \in DOMAIN book |-> book[j].qty]
             A == Ahead(book, o, i)
             S == OnSide(book, "Sell")
             f == [j \in S |-> book[j].qty]
  <1>1. /\ \A j \in DOMAIN book : /\ book[j].price \in Nat /\ book[j].qty \in Nat
                                  /\ book[j].side \in Sides
        /\ \A T \in SUBSET DOMAIN book : IsFiniteSet(T)
        BY BookFinite DEF RestingOrder
  <1>2. i \in DOMAIN book /\ A \in SUBSET Makers(book, o)
        BY DEF Ahead, Makers
  <1>3. Makers(book, o) \in SUBSET S /\ S \in SUBSET DOMAIN book
        BY <1>1 DEF Makers, OnSide, Sides
  <1>4. i \notin A
    <2>1. i \in Nat /\ book[i].price \in Nat
          BY <1>1, <1>2, BookFinite
    <2>. QED  BY <2>1 DEF Ahead, Precedes
  <1>5. /\ LotsAhead(book, o, i) \in Nat
        /\ LotsAhead(book, o, i) = SumFunctionOnSet(q, A)
        BY LotsAheadFacts
  <1>6. \A j \in DOMAIN book : q[j] = book[j].qty /\ q[j] \in Nat
        BY <1>1
  <1>7. LotsOn(book, "Sell") = SumFunctionOnSet(f, S) /\ \A j \in S : f[j] = book[j].qty
        BY DEF LotsOn, SumFunction
  <1> HIDE DEF q, A, S, f
  <1>8. SumFunctionOnSet(f, S) = SumFunctionOnSet(q, S)
    <2>1. IsFiniteSet(S) /\ \A j \in S : f[j] \in Int /\ q[j] \in Int /\ f[j] = q[j]
          BY <1>1, <1>3, <1>6, <1>7
    <2>. QED  BY <2>1, SumSame
  <1> DEFINE B == A \cup {i}
  <1>9. /\ B \in SUBSET S /\ IsFiniteSet(S) /\ IsFiniteSet(B) /\ i \in B /\ B \ {i} = A
        /\ \A j \in S : q[j] \in Nat
        /\ \A j \in B : q[j] \in Int
    <2>1. B \in SUBSET S
          BY <1>2, <1>3
    <2>2. B \in SUBSET DOMAIN book /\ S \in SUBSET DOMAIN book
          BY <1>3, <2>1
    <2>. QED  BY <1>1, <1>4, <1>6, <2>1, <2>2
  <1> HIDE DEF B
  <1>10. SumFunctionOnSet(q, B) <= SumFunctionOnSet(q, S) /\ SumFunctionOnSet(q, S) \in Nat
        BY <1>9, PartOfSum
  <1>11. SumFunctionOnSet(q, B) = q[i] + SumFunctionOnSet(q, A)
    <2>1. SumFunctionOnSet(q, B) = q[i] + SumFunctionOnSet(q, B \ {i})
          BY <1>9, SumRemove
    <2>. QED  BY <1>9, <2>1
  <1>12. ASSUME NEW l \in 1 .. book[i].qty
         PROVE  LotsAhead(book, o, i) + l <= o.qty
    <2>1. q[i] \in Nat /\ l \in Nat /\ l <= q[i]
          BY <1>2, <1>6
    <2>. QED  BY <1>5, <1>7, <1>8, <1>10, <1>11, <2>1
  <1>. QED  BY <1>5, <1>12

(* Market orders that both want all lots of the other side, and spend at   *)
(* most the same, are filled alike.                                        *)
LEMMA FilledAlike ==
  ASSUME NEW n \in Nat, NEW book, IsBook(book, n), NEW p, NEW o, NEW r,
         o.side = "Buy" /\ r.side = "Buy", o.limit = r.limit, o.quote = r.quote,
         o.type = "Market" /\ r.type = "Market", o.qty \in Nat /\ r.qty \in Nat,
         LotsOn(book, "Sell") <= o.qty, LotsOn(book, "Sell") <= r.qty
  PROVE  Matches(p, book, o) = Matches(p, book, r)
PROOF
  <1>1. Makers(book, o) = Makers(book, r)
        BY DEF Makers
  <1>2. \A i : Ahead(book, o, i) = Ahead(book, r, i)
        BY <1>1 DEF Ahead
  <1>3. ASSUME NEW i \in Makers(book, o)
        PROVE  LotsFilled(p, book, o, i) = LotsFilled(p, book, r, i)
    <2> DEFINE Spent(v) == SumFunction([j \in Ahead(book, v, i) |->
                                          QuoteValueOfLots(p, book[j].qty, book[j].price)])
               Pays(v, l) == \A c \in v.quote :
                 Spent(v) + QuoteValueOfLots(p, l, book[i].price) <= QuoteLotsToNative(p, c)
               Wanted(v) == {l \in 1 .. book[i].qty : LotsAhead(book, v, i) + l <= v.qty /\ Pays(v, l)}
    <2>1. /\ \A l \in 1 .. book[i].qty : LotsAhead(book, o, i) + l <= o.qty
          /\ \A l \in 1 .. book[i].qty : LotsAhead(book, r, i) + l <= r.qty
          BY <1>1, AllWanted
    <2>2. \A v : LotsFilled(p, book, v, i) = Cardinality(Wanted(v))
          BY Zenon DEF LotsFilled, LotsAhead
    <2>3. Ahead(book, o, i) = Ahead(book, r, i)
          BY <1>2
    <2>4. Spent(o) = Spent(r)
          BY <2>3
    <2> HIDE DEF Spent
    <2>5. \A l : Pays(o, l) <=> Pays(r, l)
          BY <2>4
    <2> HIDE DEF Pays
    <2>6. Wanted(o) = Wanted(r)
          BY <2>1, <2>5
    <2> HIDE DEF Wanted
    <2>. QED  BY <2>2, <2>6
  <1>4. Crossed(p, book, o) = Crossed(p, book, r)
    <2> DEFINE hit(v) == {i \in Makers(book, v) : LotsFilled(p, book, v, i) > 0}
    <2>1. hit(o) = hit(r)
          BY <1>1, <1>3
    <2>2. \A i \in hit(o) : LotsFilled(p, book, o, i) = LotsFilled(p, book, r, i)
          BY <1>3
    <2>. QED  BY <2>1, <2>2 DEF Crossed
  <1>5. ~ Rejected(p, book, o) /\ ~ Rejected(p, book, r)
        BY DEF Rejected
  <1>. QED  BY <1>4, <1>5 DEF Matches

(* No book has more asks than the quantity that a swap which buys asks     *)
(* for: u128::MAX in lots, truncated to 64 bits.                           *)
AsksFit ==
  \A m \in Markets :
    LotsOn(markets[m].book, "Sell") <= BaseNativeToLots(MarketParams[m], U128Max)

(* A swap that buys takes all that its input can pay for, as long as the   *)
(* books have no more asks than u128::MAX in lots gives after truncation,  *)
(* which depends on the lot size: it is the largest u64 for lots of 1.     *)
THEOREM SwapsBuyAllTheyAfford == SwapsSpec => [](AsksFit => SwapBuysAllItAffords)
PROOF
  <1>1. ASSUME CustodyInv, AsksFit
        PROVE  SwapBuysAllItAffords
    <2> SUFFICES ASSUME NEW m \in Markets, NEW a \in Users, NEW amount \in Amounts
                 PROVE  LET p     == MarketParams[m]
                            book  == markets[m].book
                            o     == SwapOrder(a, [market |-> m, side |-> "Buy"], amount)
                            total == LotsOn(book, "Sell")
                        IN  Matches(p, book, o) = Matches(p, book, [o EXCEPT !.qty = total])
        BY DEF SwapBuysAllItAffords, LotsOn
    <2> DEFINE p     == MarketParams[m]
               book  == markets[m].book
               o     == SwapOrder(a, [market |-> m, side |-> "Buy"], amount)
               total == LotsOn(book, "Sell")
               r     == [o EXCEPT !.qty = total]
    <2>1. IsBook(book, prev_order_sequence_number) /\ prev_order_sequence_number \in Nat
          BY <1>1 DEF CustodyInv, CustodyTypeOK, TypeOK, IsMarket, IsBook
    <2>2. /\ o.side = "Buy" /\ o.type = "Market" /\ o.qty = BaseNativeToLots(p, U128Max)
          /\ r.side = "Buy" /\ r.type = "Market" /\ r.qty = total
          /\ r.limit = o.limit /\ r.quote = o.quote
          BY DEF SwapOrder
    <2>3. total <= BaseNativeToLots(p, U128Max)
          BY <1>1 DEF AsksFit
    <2>4. BaseNativeToLots(p, U128Max) \in Nat
      <3>1. U64Max + 1 \in Nat \ {0}
            BY U64Assumption
      <3>2. (U64Max + 1) * (U64Max + 1) \in Nat \ {0}
            BY <3>1
      <3>3. U128Max \in Nat
            BY <3>2 DEF U128Max
      <3>. QED  BY <3>3, ParamsFacts, LotsFacts
    <2>5. total \in Nat
      <3> DEFINE S == OnSide(book, "Sell")
                 f == [i \in S |-> book[i].qty]
      <3>1. IsFiniteSet(S) /\ \A i \in S : book[i].qty \in Nat
        <4>1. S \in SUBSET DOMAIN book
              BY DEF OnSide
        <4>. QED  BY <2>1, <4>1, BookFinite DEF RestingOrder
      <3>2. total = SumFunctionOnSet(f, S) /\ \A i \in S : f[i] \in Nat
            BY <3>1 DEF LotsOn, SumFunction
      <3> HIDE DEF total, f, S
      <3>. QED  BY <3>1, <3>2, SumNat
    <2> HIDE DEF p, book, o, r
    <2>6. total <= o.qty /\ total <= r.qty /\ o.qty \in Nat /\ r.qty \in Nat
      <3> HIDE DEF total
      <3>. QED  BY <2>2, <2>3, <2>4, <2>5
    <2>7. Matches(p, book, o) = Matches(p, book, r)
          BY <2>1, <2>2, <2>6, FilledAlike
    <2>. QED  BY <2>7 DEF p, book, o, r
  <1>. QED  BY <1>1, SwapsInvHolds, PTL
=============================================================================
