--------------------------- MODULE CustodyProofs ---------------------------
(***************************************************************************)
(* Proofs about tokens moving in and out of the exchange: whatever         *)
(* transfers succeed or fail, in whatever order receipts are executed and  *)
(* whoever trades, registers and unregisters in between, the exchange      *)
(* holds what it owes, for every number of users, tokens and receipts.     *)
(***************************************************************************)
EXTENDS SolvencyProofs, Custody

-----------------------------------------------------------------------------
(* Trading leaves storage balances alone.                                  *)

(* Every account keeps its storage balance.                                *)
SameStorage ==
  /\ DOMAIN accounts' = DOMAIN accounts
  /\ \A b \in DOMAIN accounts : accounts'[b].storage = accounts[b].storage

(* Committing an order settles makers, the referrer and the taker without  *)
(* touching their storage ...                                              *)
LEMMA ExecuteOrderStorage ==
  ASSUME TypeOK, NEW m \in Markets, NEW o, NEW referrer, NEW taker, ExecuteOrder(m, o, referrer, taker),
         o.owner \in DOMAIN accounts, StorageIs(taker, accounts[o.owner].storage)
  PROVE  SameStorage
PROOF
  <1> DEFINE p      == MarketParams[m]
             fills  == Matches(p, markets[m].book, o)
             rest   == TakerFee(p.taker_rate, QuoteTraded(m, fills)) - TotalMakerRebate(m, fills)
             settled == SettleMakerFills(m, fills, o.side)
             ref    == SettleReferrer(settled, p.quote, referrer, rest)
             made(b) == MakerAccount(m, fills, o.side, b, DOMAIN fills)
             paid(b) == Deposit(settled[b], p.quote, ReferrerRebate(rest))
             was(b)  == accounts[b].storage
  <1>1. accounts' = [ref.accounts EXCEPT ![o.owner] = taker]
        BY DEF ExecuteOrder
  <1>2. /\ DOMAIN settled = DOMAIN accounts
        /\ \A b \in DOMAIN accounts : settled[b] = made(b)
        BY DEF SettleMakerFills
  <1>3. /\ DOMAIN ref.accounts = DOMAIN settled
        /\ \A b \in DOMAIN settled : ref.accounts[b] = settled[b] \/ ref.accounts[b] = paid(b)
        BY DEF SettleReferrer
  <1>4. ASSUME NEW b \in DOMAIN accounts
        PROVE  StorageIs(made(b), was(b))
    <2> DEFINE credited == MakerCredited(m, fills, o.side, b, DOMAIN fills)
    <2>1. StorageIs(accounts[b], was(b))
          BY <1>4, StorageNow DEF TypeOK
    <2>2. credited = accounts[b]
            \/ \E x, y, v, w : credited = Deposit(Deposit(accounts[b], x, v), y, w)
          BY DEF MakerCredited
    <2> HIDE DEF credited, fills
    <2>3. StorageIs(credited, was(b))
          BY <2>1, <2>2, StorageKept
    <2>. QED  BY <2>3, StorageKept DEF MakerAccount, credited
  <1> HIDE DEF settled, ref, rest, made
  <1>5. ASSUME NEW b \in DOMAIN accounts
        PROVE  ref.accounts[b].storage = was(b)
    <2>1. StorageIs(settled[b], was(b))
          BY <1>2, <1>4, <1>5
    <2>2. StorageIs(paid(b), was(b))
          BY <2>1, StorageKept
    <2>. QED  BY <1>2, <1>3, <1>5, <2>1, <2>2 DEF StorageIs
  <1>. QED  BY <1>1, <1>2, <1>3, <1>5 DEF SameStorage, StorageIs

(* ... in the three ways of placing one ...                                *)
LEMMA NewOrderStorage ==
  ASSUME TypeOK, NEW m \in Markets, NewOrder(m)
  PROVE  SameStorage
PROOF
  <1> DEFINE p == MarketParams[m]
             listed(acc, open) == WithPostedOrder(acc, m, open)
  <1>1. ASSUME NEW acc, NEW s, StorageIs(acc, s)
        PROVE  /\ \A x, y, v, w : StorageIs(Withdraw(Deposit(acc, x, v), y, w), s)
               /\ \A x, y, v, w : StorageIs(Deposit(Withdraw(acc, x, v), y, w), s)
               /\ \A open : StorageIs(listed(acc, open), s)
        BY <1>1, StorageKept DEF WithPostedOrder
  <1> HIDE DEF listed
  <1>2. \A a \in DOMAIN accounts : StorageIs(accounts[a], accounts[a].storage)
        BY StorageNow DEF TypeOK
  <1>3. ASSUME NEW a \in DOMAIN accounts, NEW o, o.owner = a, NEW referrer,
               \/ \E x, y, v, w, open :
                    ExecuteOrder(m, o, referrer,
                                 listed(Withdraw(Deposit(accounts[a], x, v), y, w), open))
               \/ \E x, y, v, w :
                    ExecuteOrder(m, o, referrer, Deposit(Withdraw(accounts[a], x, v), y, w))
        PROVE  SameStorage
        BY <1>1, <1>2, <1>3, ExecuteOrderStorage
  <1>4. CASE NewLimitBuy(m)
    <2>1. PICK a, type, price, quantity, max_spend, referrer :
            PlaceLimitBuy(a, m, type, price, quantity, max_spend, referrer)
          BY <1>4 DEF NewLimitBuy, LimitBuyBy
    <2> DEFINE o == LimitBuyOrder(a, m, type, price, quantity, max_spend)
    <2>2. /\ a \in DOMAIN accounts
          /\ \E x, y, v, w, open :
               ExecuteOrder(m, o, referrer,
                            listed(Withdraw(Deposit(accounts[a], x, v), y, w), open))
          BY <2>1 DEF PlaceLimitBuy, CanPlaceOrder, listed
    <2>3. o.owner = a
          BY DEF LimitBuyOrder
    <2> HIDE DEF o
    <2>. QED  BY <1>3, <2>2, <2>3
  <1>5. CASE NewLimitSell(m)
    <2>1. PICK a, type, price, quantity, referrer :
            PlaceLimitSell(a, m, type, price, quantity, referrer)
          BY <1>5 DEF NewLimitSell, LimitSellBy
    <2> DEFINE o == LimitSellOrder(a, m, type, price, quantity)
    <2>2. /\ a \in DOMAIN accounts
          /\ \E x, y, v, w, open :
               ExecuteOrder(m, o, referrer,
                            listed(Withdraw(Deposit(accounts[a], x, v), y, w), open))
          BY <2>1 DEF PlaceLimitSell, CanPlaceOrder, listed
    <2>3. o.owner = a
          BY DEF LimitSellOrder
    <2> HIDE DEF o
    <2>. QED  BY <1>3, <2>2, <2>3
  <1>6. CASE NewMarketOrder(m)
    <2>1. PICK a, side, quantity, max_spend, referrer :
            PlaceMarketOrder(a, m, side, quantity, max_spend, referrer)
          BY <1>6 DEF NewMarketOrder, MarketOrderBy
    <2> DEFINE o == MarketOrder(a, m, side, quantity, max_spend)
    <2>2. /\ a \in DOMAIN accounts
          /\ \E x, y, v, w :
               ExecuteOrder(m, o, referrer, Deposit(Withdraw(accounts[a], x, v), y, w))
          BY <2>1 DEF PlaceMarketOrder, CanPlaceOrder
    <2>3. o.owner = a
          BY DEF MarketOrder
    <2> HIDE DEF o
    <2>. QED  BY <1>3, <2>2, <2>3
  <1>. QED  BY <1>4, <1>5, <1>6 DEF NewOrder

(* ... and so do refunds ...                                               *)
LEMMA RefundedStorage ==
  ASSUME TypeOK, NEW a \in DOMAIN accounts, NEW m, NEW ids
  PROVE  StorageIs(Refunded(accounts[a], m, ids), accounts[a].storage)
PROOF
  <1> DEFINE s == accounts[a].storage
             all == PaidBack(accounts[a], m, ids)
  <1>1. StorageIs(accounts[a], s)
        BY StorageNow DEF TypeOK
  <1>2. \/ all = accounts[a]
        \/ \E x, v : all = Deposit(accounts[a], x, v)
        \/ \E x, y, v, w : all = Deposit(Deposit(accounts[a], x, v), y, w)
        BY DEF PaidBack
  <1> HIDE DEF all, s
  <1>3. StorageIs(all, s)
        BY <1>1, <1>2, StorageKept
  <1>. QED  BY <1>3, StorageKept DEF Refunded, all, s

(* ... and with them all of cancelling.                                    *)
LEMMA CancelStorage ==
  ASSUME TypeOK, NEW m \in Markets,
         \/ \E a, id : InternalCancelOrder(a, m, id)
         \/ \E a : InternalCancelAllOrders(a, m)
         \/ \E limit : AdminClearOrderbook(m, limit)
  PROVE  SameStorage
PROOF
  <1>0. accounts = [b \in DOMAIN accounts |-> accounts[b]]
        BY DEF TypeOK
  <1>1. ASSUME NEW a, NEW id, InternalCancelOrder(a, m, id)
        PROVE  SameStorage
    <2> DEFINE after == Refunded(accounts[a], m, {id})
    <2>1. a \in DOMAIN accounts /\ accounts' = [accounts EXCEPT ![a] = after]
          BY <1>1 DEF InternalCancelOrder, CommitCancels
    <2>2. after.storage = accounts[a].storage
          BY <2>1, RefundedStorage DEF StorageIs
    <2> HIDE DEF after
    <2>. QED  BY <1>0, <2>1, <2>2 DEF SameStorage
  <1>2. ASSUME NEW a, InternalCancelAllOrders(a, m)
        PROVE  SameStorage
    <2> DEFINE listed == accounts[a].open[m]
               found == listed \cap DOMAIN markets[m].book
               after == RemoveOrderInfos(Refunded(accounts[a], m, found), m, listed)
    <2>1. a \in DOMAIN accounts /\ accounts' = [accounts EXCEPT ![a] = after]
          BY <1>2 DEF InternalCancelAllOrders, CommitCancels
    <2>2. after.storage = accounts[a].storage
      <3>1. StorageIs(Refunded(accounts[a], m, found), accounts[a].storage)
            BY <2>1, RefundedStorage
      <3>2. StorageIs(after, accounts[a].storage)
            BY <3>1, StorageKept
      <3>. QED  BY <3>2 DEF StorageIs
    <2> HIDE DEF after
    <2>. QED  BY <1>0, <2>1, <2>2 DEF SameStorage
  <1>3. ASSUME NEW limit, AdminClearOrderbook(m, limit)
        PROVE  SameStorage
    <2>1. /\ DOMAIN accounts' = DOMAIN accounts
          /\ \A a \in DOMAIN accounts :
               \/ accounts'[a] = accounts[a]
               \/ \E ids : accounts'[a] = Refunded(accounts[a], m, ids)
          BY <1>3 DEF AdminClearOrderbook, CommitCancels
    <2>. QED  BY <2>1, RefundedStorage DEF SameStorage, StorageIs
  <1>. QED  BY <1>1, <1>2, <1>3

(* No step of trading touches a storage balance.                           *)
LEMMA TradingStorage ==
  ASSUME TypeOK, Next
  PROVE  SameStorage
PROOF
  <1>1. ASSUME accounts' = accounts PROVE SameStorage
        BY <1>1 DEF SameStorage
  <1>2. CASE Switch
        BY <1>1, <1>2 DEF Switch, SetContractState
  <1>3. ASSUME NEW m \in Markets, Cancel(m) PROVE SameStorage
        BY <1>3, CancelStorage DEF Cancel, CancelOrder, CancelAllOrders
  <1>4. ASSUME NEW m \in Markets, Admin(m) PROVE SameStorage
        BY <1>1, <1>4, CancelStorage
        DEF Admin, AdminCancelOrder, AdminCancelAllUserOrders,
            SetMarketState, SetMarketBidWindow, SetMarketAskWindow
  <1>. QED  BY <1>2, <1>3, <1>4, NewOrderStorage DEF Next

-----------------------------------------------------------------------------
(* Receipts.                                                               *)

(* One more copy of a receipt.                                             *)
LEMMA BagAddFacts ==
  ASSUME NEW B, IsABag(B), NEW x
  PROVE  /\ IsABag(Bag!BagAdd(B, x)) /\ BagToSet(Bag!BagAdd(B, x)) = BagToSet(B) \cup {x}
         /\ \A y \in BagToSet(B) \ {x} : Bag!BagAdd(B, x)[y] = B[y]
         /\ Bag!BagAdd(B, x)[x] = IF x \in BagToSet(B) THEN B[x] + 1 ELSE 1
PROOF
  <1> DEFINE C == Bag!BagAdd(B, x)
  <1>1. \A e \in DOMAIN B : B[e] \in Nat /\ B[e] > 0
        BY DEF IsABag
  <1>2. C = [e \in DOMAIN B \cup {x} |-> IF e # x THEN B[e]
                                         ELSE IF x \in DOMAIN B THEN B[x] + 1 ELSE 1]
    <2>1. CASE x \in DOMAIN B
      <3>1. C = [e \in DOMAIN B |-> IF e = x THEN B[e] + 1 ELSE B[e]]
            BY <2>1 DEF Bag!BagAdd
      <3>2. DOMAIN B = DOMAIN B \cup {x}
            BY <2>1
      <3>. QED  BY <2>1, <3>1, <3>2
    <2>2. CASE x \notin DOMAIN B
      <3>1. C = [e \in DOMAIN B \cup {x} |-> IF e = x THEN 1 ELSE B[e]]
            BY <2>2 DEF Bag!BagAdd
      <3>. QED  BY <2>2, <3>1
    <2>. QED  BY <2>1, <2>2
  <1> HIDE DEF C
  <1>3. /\ DOMAIN C = DOMAIN B \cup {x}
        /\ \A e \in DOMAIN B \ {x} : C[e] = B[e]
        /\ C[x] = IF x \in DOMAIN B THEN B[x] + 1 ELSE 1
        BY <1>2
  <1>4. \A e \in DOMAIN C : C[e] \in {n \in Nat : n > 0}
        BY <1>1, <1>3
  <1>5. IsABag(C)
        BY <1>2, <1>3, <1>4 DEF IsABag
  <1>. QED  BY <1>3, <1>5 DEF BagToSet, C

(* One copy of a receipt less: adding it again gives the same bag.         *)
LEMMA BagRemoveFacts ==
  ASSUME NEW B, IsABag(B), NEW x \in BagToSet(B)
  PROVE  /\ IsABag(Bag!BagRemove(B, x)) /\ BagToSet(Bag!BagRemove(B, x)) \subseteq BagToSet(B)
         /\ Bag!BagAdd(Bag!BagRemove(B, x), x) = B
PROOF
  <1> DEFINE C == Bag!BagRemove(B, x)
  <1>1. B = [e \in DOMAIN B |-> B[e]] /\ \A e \in DOMAIN B : B[e] \in Nat /\ B[e] > 0
        BY DEF IsABag
  <1>2. x \in DOMAIN B
        BY DEF BagToSet
  <1>3. CASE B[x] = 1
    <2>1. C = [e \in DOMAIN B \ {x} |-> B[e]]
          BY <1>2, <1>3 DEF Bag!BagRemove
    <2> HIDE DEF C
    <2>2. DOMAIN C = DOMAIN B \ {x} /\ \A e \in DOMAIN C : C[e] = B[e]
          BY <2>1
    <2>3. Bag!BagAdd(C, x) = [e \in DOMAIN C \cup {x} |-> IF e = x THEN 1 ELSE C[e]]
          BY <2>2 DEF Bag!BagAdd
    <2>4. DOMAIN C \cup {x} = DOMAIN B
          BY <1>2, <2>2
    <2>5. \A e \in DOMAIN B : B[e] = IF e = x THEN 1 ELSE C[e]
          BY <1>3, <2>2
    <2>6. Bag!BagAdd(C, x) = B
          BY <1>1, <2>3, <2>4, <2>5
    <2>7. IsABag(C) /\ BagToSet(C) \subseteq BagToSet(B)
          BY <1>1, <2>1 DEF IsABag, BagToSet
    <2>. QED  BY <2>6, <2>7 DEF C
  <1>4. CASE B[x] # 1
    <2>1. C = [e \in DOMAIN B |-> IF e = x THEN B[e] - 1 ELSE B[e]]
          BY <1>2, <1>4 DEF Bag!BagRemove
    <2> HIDE DEF C
    <2>2. DOMAIN C = DOMAIN B /\ \A e \in DOMAIN C : C[e] = IF e = x THEN B[e] - 1 ELSE B[e]
          BY <2>1
    <2>3. Bag!BagAdd(C, x) = [e \in DOMAIN C |-> IF e = x THEN C[e] + 1 ELSE C[e]]
          BY <1>2, <2>2 DEF Bag!BagAdd
    <2>5. \A e \in DOMAIN B : B[e] = IF e = x THEN C[e] + 1 ELSE C[e]
          BY <1>1, <2>2
    <2>6. Bag!BagAdd(C, x) = B
          BY <1>1, <2>2, <2>3, <2>5
    <2>7. \A e \in DOMAIN C : C[e] \in Nat /\ C[e] > 0
          BY <1>1, <1>2, <1>4, <2>2
    <2>8. IsABag(C) /\ BagToSet(C) \subseteq BagToSet(B)
          BY <2>1, <2>2, <2>7 DEF IsABag, BagToSet
    <2>. QED  BY <2>6, <2>8 DEF C
  <1>. QED  BY <1>3, <1>4

(* What the exchange still holds of token t for one copy of receipt r, and *)
(* for all copies of the receipts of a bag.                                *)
HeldFor(r, t) == IF r.token = t /\ (r.kind = "callback" => ~ r.ok) THEN r.amount ELSE 0

FlowOf(B, t) == SumFunction([r \in BagToSet(B) |-> B[r] * HeldFor(r, t)])

(* Bags of receipts as the exchange makes them.                            *)
IsReceiptBag(B) == IsABag(B) /\ IsFiniteSet(BagToSet(B)) /\ BagToSet(B) \subseteq Receipt

(* A receipt holds a natural amount.                                       *)
LEMMA HeldForType ==
  ASSUME NEW r \in Receipt, NEW t
  PROVE  HeldFor(r, t) \in Nat
BY DEF Receipt, HeldFor

(* The receipts of a bag, each of them counted for its weight.             *)
Flow(B, w) == SumFunction([r \in BagToSet(B) |-> B[r] * w[r]])

(* A new receipt adds its weight.                                          *)
LEMMA FlowAdd ==
  ASSUME NEW B, IsReceiptBag(B), NEW x \in Receipt, NEW w, \A r \in Receipt : w[r] \in Nat
  PROVE  /\ IsReceiptBag(Bag!BagAdd(B, x))
         /\ Flow(B, w) \in Nat
         /\ Flow(Bag!BagAdd(B, x), w) = Flow(B, w) + w[x]
PROOF
  <1> DEFINE C == Bag!BagAdd(B, x)
             S == BagToSet(B) \cup {x}
             f == [r \in BagToSet(B) |-> B[r] * w[r]]
             g == [r \in BagToSet(C) |-> C[r] * w[r]]
             h == [r \in S |-> IF r \in BagToSet(B) THEN B[r] * w[r] ELSE 0]
  <1>1. /\ IsABag(B) /\ IsFiniteSet(BagToSet(B)) /\ BagToSet(B) \subseteq Receipt
        /\ \A r \in BagToSet(B) : B[r] \in Nat \ {0}
        BY DEF IsReceiptBag, IsABag, BagToSet
  <1>2. /\ IsABag(C) /\ BagToSet(C) = S
        /\ \A r \in BagToSet(B) \ {x} : C[r] = B[r]
        /\ C[x] = IF x \in BagToSet(B) THEN B[x] + 1 ELSE 1
    <2>1. IsABag(B)
          BY <1>1
    <2>2. BagToSet(B) \cup {x} = S
          OBVIOUS
    <2> HIDE DEF S
    <2>. QED  BY <2>1, <2>2, BagAddFacts
  <1>3. IsFiniteSet(S) /\ S \subseteq Receipt /\ x \in S
        BY <1>1, FS_AddElement
  <1> HIDE DEF C
  <1>4. IsReceiptBag(C)
        BY <1>2, <1>3 DEF IsReceiptBag
  <1>5. \A r \in S : w[r] \in Nat
        BY <1>3
  <1>6. \A n, k \in Nat : n * k \in Nat /\ (n + 1) * k = n * k + k /\ 1 * k = k
        OBVIOUS
  <1>7. /\ \A r \in BagToSet(B) : f[r] \in Nat /\ h[r] = f[r]
        /\ \A r \in S \ BagToSet(B) : h[r] = 0
        /\ \A r \in S : h[r] \in Nat
        BY <1>1, <1>5, <1>6
  <1>8. \A r \in S : g[r] = h[r] + IF r = x THEN w[x] ELSE 0
    <2> TAKE r \in S
    <2>1. g[r] = C[r] * w[r]
          BY <1>2
    <2>2. CASE r # x
          BY <1>2, <1>7, <2>1, <2>2
    <2>3. CASE r = x /\ x \in BagToSet(B)
          BY <1>1, <1>2, <1>5, <1>6, <2>1, <2>3
    <2>4. CASE r = x /\ x \notin BagToSet(B)
          BY <1>2, <1>5, <1>6, <1>7, <2>1, <2>4
    <2>. QED  BY <2>2, <2>3, <2>4
  <1>9. /\ Flow(B, w) = SumFunctionOnSet(f, BagToSet(B))
        /\ Flow(C, w) = SumFunctionOnSet(g, S)
        BY <1>2 DEF Flow, SumFunction
  <1>10. BagToSet(B) \in SUBSET S
        OBVIOUS
  <1> HIDE DEF f, g, h, S
  <1>11. SumFunctionOnSet(f, BagToSet(B)) = SumFunctionOnSet(h, S)
        BY <1>3, <1>7, <1>10, SumOfPart
  <1>12. SumFunctionOnSet(g, S) = SumFunctionOnSet(h, S) + g[x] - h[x]
    <2>1. \A r \in S : g[r] \in Nat
          BY <1>3, <1>5, <1>7, <1>8
    <2>. QED  BY <1>3, <1>7, <1>8, <2>1, SumChange
  <1>13. SumFunctionOnSet(h, S) \in Nat
        BY <1>3, <1>7, SumNat
  <1>14. g[x] = h[x] + w[x] /\ h[x] \in Nat /\ w[x] \in Nat
        BY <1>3, <1>5, <1>7, <1>8
  <1>. QED  BY <1>4, <1>9, <1>11, <1>12, <1>13, <1>14 DEF C

(* A receipt that is executed no longer counts.                            *)
LEMMA FlowRemove ==
  ASSUME NEW B, IsReceiptBag(B), NEW x \in BagToSet(B)
  PROVE  /\ x \in Receipt
         /\ IsReceiptBag(Bag!BagRemove(B, x))
         /\ \A w : (\A r \in Receipt : w[r] \in Nat) =>
              /\ Flow(Bag!BagRemove(B, x), w) \in Nat
              /\ Flow(B, w) = Flow(Bag!BagRemove(B, x), w) + w[x]
PROOF
  <1> DEFINE C == Bag!BagRemove(B, x)
  <1>1. IsABag(B) /\ IsFiniteSet(BagToSet(B)) /\ BagToSet(B) \subseteq Receipt
        BY DEF IsReceiptBag
  <1>2. IsABag(C) /\ BagToSet(C) \subseteq BagToSet(B) /\ Bag!BagAdd(C, x) = B
        BY <1>1, BagRemoveFacts
  <1> HIDE DEF C
  <1>3. IsReceiptBag(C)
        BY <1>1, <1>2, FS_Subset DEF IsReceiptBag
  <1>4. x \in Receipt
        BY <1>1
  <1>5. ASSUME NEW w, \A r \in Receipt : w[r] \in Nat
        PROVE  Flow(C, w) \in Nat /\ Flow(Bag!BagAdd(C, x), w) = Flow(C, w) + w[x]
        BY <1>3, <1>4, <1>5, FlowAdd
  <1>. QED  BY <1>2, <1>3, <1>4, <1>5 DEF C

(* What is held for receipts is such a weight.                             *)
LEMMA FlowOfIs ==
  ASSUME NEW B, IsReceiptBag(B), NEW t
  PROVE  /\ \A r \in Receipt : [x \in Receipt |-> HeldFor(x, t)][r] \in Nat
         /\ FlowOf(B, t) = Flow(B, [x \in Receipt |-> HeldFor(x, t)])
PROOF
  <1>1. \A r \in Receipt : HeldFor(r, t) \in Nat
        BY HeldForType
  <1>2. BagToSet(B) \subseteq Receipt
        BY DEF IsReceiptBag
  <1>. QED  BY <1>1, <1>2 DEF FlowOf, Flow

(* A new receipt adds what is held for it.                                 *)
LEMMA FlowOfAdd ==
  ASSUME NEW B, IsReceiptBag(B), NEW x \in Receipt, NEW t
  PROVE  /\ IsReceiptBag(Bag!BagAdd(B, x))
         /\ FlowOf(B, t) \in Nat
         /\ FlowOf(Bag!BagAdd(B, x), t) = FlowOf(B, t) + HeldFor(x, t)
PROOF
  <1> DEFINE w == [r \in Receipt |-> HeldFor(r, t)]
             C == Bag!BagAdd(B, x)
  <1>1. (\A r \in Receipt : w[r] \in Nat) /\ FlowOf(B, t) = Flow(B, w) /\ w[x] = HeldFor(x, t)
        BY FlowOfIs
  <1> HIDE DEF w
  <1>2. IsReceiptBag(C) /\ Flow(B, w) \in Nat /\ Flow(C, w) = Flow(B, w) + w[x]
        BY <1>1, FlowAdd
  <1>3. FlowOf(C, t) = Flow(C, w)
        BY <1>2, FlowOfIs DEF w
  <1>. QED  BY <1>1, <1>2, <1>3

(* A receipt that is executed no longer takes what was held for it.        *)
LEMMA FlowOfRemove ==
  ASSUME NEW B, IsReceiptBag(B), NEW x \in BagToSet(B), NEW t
  PROVE  /\ x \in Receipt
         /\ IsReceiptBag(Bag!BagRemove(B, x))
         /\ FlowOf(Bag!BagRemove(B, x), t) \in Nat
         /\ FlowOf(B, t) = FlowOf(Bag!BagRemove(B, x), t) + HeldFor(x, t)
PROOF
  <1> DEFINE w == [r \in Receipt |-> HeldFor(r, t)]
             C == Bag!BagRemove(B, x)
  <1>1. (\A r \in Receipt : w[r] \in Nat) /\ FlowOf(B, t) = Flow(B, w)
        BY FlowOfIs
  <1>2. x \in Receipt /\ w[x] = HeldFor(x, t)
        BY DEF IsReceiptBag
  <1> HIDE DEF w
  <1>3. IsReceiptBag(C) /\ Flow(C, w) \in Nat /\ Flow(B, w) = Flow(C, w) + w[x]
        BY <1>1, FlowRemove
  <1>4. FlowOf(C, t) = Flow(C, w)
        BY <1>3, FlowOfIs DEF w
  <1>. QED  BY <1>1, <1>2, <1>3, <1>4

(* A receipt that is executed and leaves another one behind.               *)
LEMMA FlowOfReplace ==
  ASSUME NEW B, IsReceiptBag(B), NEW x \in BagToSet(B), NEW y \in Receipt,
         NEW new, new = Bag!BagAdd(Bag!BagRemove(B, x), y)
  PROVE  /\ IsReceiptBag(new)
         /\ \A t : /\ FlowOf(new, t) \in Nat /\ FlowOf(B, t) \in Nat
                   /\ FlowOf(new, t) + HeldFor(x, t) = FlowOf(B, t) + HeldFor(y, t)
PROOF
  <1> DEFINE C == Bag!BagRemove(B, x)
  <1>1. x \in Receipt /\ IsReceiptBag(C)
        BY FlowOfRemove
  <1>2. \A t : FlowOf(C, t) \in Nat /\ FlowOf(B, t) = FlowOf(C, t) + HeldFor(x, t)
        BY FlowOfRemove
  <1> HIDE DEF C
  <1>3. IsReceiptBag(new) /\ \A t : FlowOf(new, t) = FlowOf(C, t) + HeldFor(y, t)
    <2>1. new = Bag!BagAdd(C, y)
          BY DEF C
    <2>. QED  BY <1>1, <2>1, FlowOfAdd
  <1>4. ASSUME NEW t
        PROVE  /\ FlowOf(new, t) \in Nat /\ FlowOf(B, t) \in Nat
               /\ FlowOf(new, t) + HeldFor(x, t) = FlowOf(B, t) + HeldFor(y, t)
    <2>1. FlowOf(C, t) \in Nat /\ FlowOf(B, t) = FlowOf(C, t) + HeldFor(x, t)
          BY <1>2
    <2>2. FlowOf(new, t) = FlowOf(C, t) + HeldFor(y, t)
          BY <1>3
    <2>3. HeldFor(x, t) \in Nat /\ HeldFor(y, t) \in Nat
          BY <1>1, HeldForType
    <2>. QED  BY <2>1, <2>2, <2>3
  <1>. QED  BY <1>3, <1>4

-----------------------------------------------------------------------------
(* What accounts have.                                                     *)

(* What account a has of token t, its storage balance included, and what   *)
(* all accounts have.  Summing over all names makes registering and        *)
(* unregistering an account a change of one of the terms.                  *)
WorthOf(accs, a, t) ==
  IF a \in DOMAIN accs THEN Balance(accs[a], t) + In(Near, t, accs[a].storage) ELSE 0

TotalOf(accs, t) == SumFunctionOnSet([a \in Accounts |-> WorthOf(accs, a, t)], Accounts)

(* The storage balances of all accounts.                                   *)
StorageIn(accs, t) ==
  IF t = Near THEN SumFunction([a \in DOMAIN accs |-> accs[a].storage]) ELSE 0

(* What an account has is a natural.                                       *)
LEMMA WorthType ==
  ASSUME NEW accs, AreAccounts(accs), NEW a, NEW t
  PROVE  WorthOf(accs, a, t) \in Nat
PROOF
  <1>1. ASSUME a \in DOMAIN accs
        PROVE  Balance(accs[a], t) \in Nat /\ accs[a].storage \in Nat
    <2>1. IsAccount(accs[a])
          BY <1>1 DEF AreAccounts
    <2>. QED  BY <2>1, BalanceType DEF IsAccount
  <1>. QED  BY <1>1 DEF WorthOf, In

(* All that accounts have is what is available to them and what they pay   *)
(* for storage.                                                            *)
LEMMA TotalIs ==
  ASSUME NEW accs, AreAccounts(accs), NEW t
  PROVE  /\ HeldBy(accs, t) \in Nat /\ StorageIn(accs, t) \in Nat
         /\ TotalOf(accs, t) = HeldBy(accs, t) + StorageIn(accs, t)
PROOF
  <1> DEFINE D == DOMAIN accs
             f == [a \in D |-> Balance(accs[a], t)]
             s == [a \in D |-> accs[a].storage]
             g == [a \in D |-> In(Near, t, accs[a].storage)]
             h == [a \in D |-> Balance(accs[a], t) + In(Near, t, accs[a].storage)]
             w == [a \in Accounts |-> WorthOf(accs, a, t)]
  <1>1. D \in SUBSET Accounts /\ IsFiniteSet(D)
        BY FinitenessAssumption, FS_Subset DEF AreAccounts
  <1>2. \A a \in D : Balance(accs[a], t) \in Nat /\ accs[a].storage \in Nat
    <2> TAKE a \in D
    <2>1. IsAccount(accs[a])
          BY DEF AreAccounts
    <2>. QED  BY <2>1, BalanceType DEF IsAccount
  <1>3. \A a \in D : f[a] \in Nat /\ s[a] \in Nat /\ g[a] = In(Near, t, s[a])
        BY <1>2
  <1>4. \A a \in D : f[a] \in Int /\ g[a] \in Int /\ h[a] = f[a] + g[a] /\ h[a] \in Int
        BY <1>2 DEF In
  <1>5. /\ \A a \in D : h[a] \in Int /\ w[a] = h[a]
        /\ \A a \in Accounts \ D : w[a] = 0
        BY <1>1, <1>4 DEF WorthOf
  <1>6. /\ HeldBy(accs, t) = SumFunctionOnSet(f, D)
        /\ StorageIn(accs, t) = In(Near, t, SumFunctionOnSet(s, D))
        /\ TotalOf(accs, t) = SumFunctionOnSet(w, Accounts)
        BY DEF HeldBy, StorageIn, TotalOf, SumFunction, In
  <1> HIDE DEF f, g, h, s, w, D
  <1>7. SumFunctionOnSet(g, D) = In(Near, t, SumFunctionOnSet(s, D))
        BY <1>1, <1>3, InSum
  <1>8. SumFunctionOnSet(h, D) = SumFunctionOnSet(f, D) + SumFunctionOnSet(g, D)
        BY <1>1, <1>4, SumPlus
  <1>9. SumFunctionOnSet(h, D) = SumFunctionOnSet(w, Accounts)
        BY <1>1, <1>5, FinitenessAssumption, SumOfPart
  <1>10. SumFunctionOnSet(f, D) \in Nat /\ SumFunctionOnSet(s, D) \in Nat
        BY <1>1, <1>3, SumNat
  <1>. QED  BY <1>6, <1>7, <1>8, <1>9, <1>10 DEF In

(* When only account a changes, the total changes by what it gains.        *)
LEMMA TotalChange ==
  ASSUME NEW accs, AreAccounts(accs), NEW new, AreAccounts(new), NEW a \in Accounts, NEW t,
         \A b \in Accounts \ {a} : WorthOf(new, b, t) = WorthOf(accs, b, t)
  PROVE  TotalOf(new, t) + WorthOf(accs, a, t) = TotalOf(accs, t) + WorthOf(new, a, t)
PROOF
  <1> DEFINE f == [b \in Accounts |-> WorthOf(accs, b, t)]
             g == [b \in Accounts |-> WorthOf(new, b, t)]
  <1>1. /\ \A b \in Accounts : f[b] \in Nat /\ g[b] \in Nat
        /\ \A b \in Accounts \ {a} : g[b] = f[b]
        /\ f[a] = WorthOf(accs, a, t) /\ g[a] = WorthOf(new, a, t)
        BY WorthType
  <1>2. TotalOf(accs, t) = SumFunctionOnSet(f, Accounts) /\ TotalOf(new, t) = SumFunctionOnSet(g, Accounts)
        BY DEF TotalOf
  <1> HIDE DEF f, g
  <1>3. \A b \in Accounts : f[b] \in Int /\ g[b] \in Int
        BY <1>1
  <1>4. SumFunctionOnSet(g, Accounts) = SumFunctionOnSet(f, Accounts) + g[a] - f[a]
        BY <1>1, <1>3, FinitenessAssumption, SumChange
  <1>5. SumFunctionOnSet(f, Accounts) \in Nat
        BY <1>1, FinitenessAssumption, SumNat
  <1>. QED  BY <1>1, <1>2, <1>4, <1>5

-----------------------------------------------------------------------------
(* The inductive invariant.                                                *)

(* What markets in these states owe.                                       *)
DueIn(states, t) == SumFunctionOnSet([k \in Markets |-> DueOf(k, states[k], t)], Markets)

(* All that the exchange owes of token t.                                  *)
Debt(accs, states, B, t) == TotalOf(accs, t) + DueIn(states, t) + FlowOf(B, t)

(* The inductive form of CustodyTypeOK, AccountsCovered and Backed.        *)
CustodyInv ==
  /\ CustodyTypeOK /\ IsReceiptBag(receipts)
  /\ BooksMatchAccounts /\ AccountsCovered
  /\ \A t \in Tokens : Debt(accounts, markets, receipts, t) <= held[t]

(* If somebody can claim all that the exchange holds, somebody still can.  *)
StaysClaimed ==
  \A t \in Tokens : held[t] = Debt(accounts, markets, receipts, t)
                       => held'[t] = Debt(accounts', markets', receipts', t)

(* What markets owe is a natural.                                          *)
LEMMA DueInType ==
  ASSUME TypeOK, NEW t
  PROVE  DueIn(markets, t) \in Nat
PROOF
  <1> DEFINE f == [k \in Markets |-> DueOf(k, markets[k], t)]
  <1>1. \A k \in Markets : f[k] \in Nat
        BY DueType
  <1>2. DueIn(markets, t) = SumFunctionOnSet(f, Markets)
        BY DEF DueIn
  <1> HIDE DEF f
  <1>. QED  BY <1>1, <1>2, FinitenessAssumption, SumNat

(* What the exchange still holds for receipts in flight.                   *)
LEMMA FlowIs ==
  ASSUME IsReceiptBag(receipts), NEW t
  PROVE  /\ FlowOf(receipts, t) \in Nat
         /\ InFlight({r \in Pending : r.token = t}) = FlowOf(receipts, t)
PROOF
  <1> DEFINE S == BagToSet(receipts)
             P == {r \in Pending : r.token = t}
             f == [r \in P |-> receipts[r] * r.amount]
             g == [r \in S |-> receipts[r] * HeldFor(r, t)]
  <1>1. /\ IsFiniteSet(S) /\ S \subseteq Receipt /\ P \in SUBSET S
        /\ \A r \in S : receipts[r] \in Nat
        BY DEF IsReceiptBag, IsABag, BagToSet, Pending
  <1>2. \A r \in S : r.amount \in Nat /\ HeldFor(r, t) = IF r \in P THEN r.amount ELSE 0
        BY <1>1 DEF HeldFor, Pending, Receipt
  <1>3. \A n, k \in Nat : n * k \in Nat /\ n * 0 = 0
        OBVIOUS
  <1>4. /\ \A r \in P : f[r] \in Nat /\ g[r] = f[r]
        /\ \A r \in S \ P : g[r] = 0
        /\ \A r \in S : g[r] \in Nat
    <2>1. \A r \in P : r \in S /\ HeldFor(r, t) = r.amount /\ r.amount \in Nat
          BY <1>1, <1>2
    <2>2. \A r \in S \ P : HeldFor(r, t) = 0
          BY <1>2
    <2>3. \A r \in S : HeldFor(r, t) \in Nat
          BY <1>2
    <2> HIDE DEF P, S
    <2>. QED  BY <1>1, <1>3, <2>1, <2>2, <2>3
  <1>5. InFlight(P) = SumFunctionOnSet(f, P) /\ FlowOf(receipts, t) = SumFunctionOnSet(g, S)
        BY DEF InFlight, FlowOf, SumFunction
  <1> HIDE DEF f, g, S, P
  <1>6. SumFunctionOnSet(f, P) = SumFunctionOnSet(g, S)
        BY <1>1, <1>4, SumOfPart
  <1>7. SumFunctionOnSet(g, S) \in Nat
        BY <1>1, <1>4, SumNat
  <1>. QED  BY <1>5, <1>6, <1>7 DEF P

(* Liabilities are the debt of the current state.                          *)
LEMMA LiabilitiesAre ==
  ASSUME TypeOK, IsReceiptBag(receipts), NEW t
  PROVE  Liabilities(t) = Debt(accounts, markets, receipts, t)
PROOF
  <1>1. AreAccounts(accounts)
        BY DEF AreAccounts, TypeOK
  <1>2. /\ HeldBy(accounts, t) \in Nat /\ StorageIn(accounts, t) \in Nat
        /\ TotalOf(accounts, t) = HeldBy(accounts, t) + StorageIn(accounts, t)
        BY <1>1, TotalIs
  <1>3. Owed(t) = HeldBy(accounts, t) + DueIn(markets, t) /\ DueIn(markets, t) \in Nat
        BY OwedNow, DueInType DEF OwedOf, DueIn
  <1>4. StorageHeld(t) = StorageIn(accounts, t)
        BY DEF StorageHeld, StorageIn
  <1>5. /\ FlowOf(receipts, t) \in Nat
        /\ InFlight({r \in Pending : r.token = t}) = FlowOf(receipts, t)
        BY FlowIs
  <1>. QED  BY <1>2, <1>3, <1>4, <1>5 DEF Liabilities, Debt

(* The inductive invariant implies the ones of the runs.                   *)
LEMMA InvImplies ==
  ASSUME CustodyInv
  PROVE  CustodyTypeOK /\ BooksMatchAccounts /\ AccountsCovered /\ Backed
PROOF
  <1>1. \A t \in Tokens : Liabilities(t) <= held[t]
    <2> TAKE t \in Tokens
    <2>1. TypeOK /\ IsReceiptBag(receipts) /\ Debt(accounts, markets, receipts, t) <= held[t]
          BY DEF CustodyInv, CustodyTypeOK
    <2>. QED  BY <2>1, LiabilitiesAre
  <1>. QED  BY <1>1 DEF CustodyInv, Backed

(* It holds at first: the exchange holds exactly what was deposited.       *)
LEMMA InvAtFirst ==
  ASSUME CustodyInit
  PROVE  CustodyInv /\ \A t \in Tokens : held[t] = Debt(accounts, markets, receipts, t)
PROOF
  <1>1. Init /\ TypeOK
        BY InitTypeOK DEF CustodyInit
  <1>2. BooksMatchAccounts /\ AccountsCovered
    <2>1. accounts = InitialAccounts /\ \A m \in Markets : markets[m].book = EmptyBook
          BY <1>1 DEF Init
    <2>2. \A a \in DOMAIN accounts : \A m \in Markets : accounts[a].open[m] = {}
          BY <2>1, InitialAccountsAssumption
    <2>3. \A m \in Markets : DOMAIN markets[m].book = {}
          BY <2>1 DEF EmptyBook
    <2>4. AccountsCovered
          BY <2>1, InitialAccountsAssumption DEF AccountsCovered
    <2>. QED  BY <2>2, <2>3, <2>4 DEF BooksMatchAccounts
  <1>3. IsReceiptBag(receipts) /\ IsABag(receipts) /\ BagToSet(receipts) = {}
    <2>1. receipts = [e \in {} |-> 1]
          BY DEF CustodyInit, EmptyBag, SetToBag
    <2>2. IsABag(receipts) /\ BagToSet(receipts) = {}
          BY <2>1 DEF IsABag, BagToSet
    <2>. QED  BY <2>2, FS_EmptySet DEF IsReceiptBag
  <1>4. ASSUME NEW t \in Tokens
        PROVE  /\ held[t] \in Nat
               /\ Debt(accounts, markets, receipts, t) = held[t]
    <2> DEFINE D == DOMAIN accounts
               h == [a \in D |-> Balance(accounts[a], t) + IF t = Near THEN accounts[a].storage ELSE 0]
               f == [a \in D |-> Balance(accounts[a], t)]
               g == [a \in D |-> In(Near, t, accounts[a].storage)]
               s == [a \in D |-> accounts[a].storage]
    <2>1. AreAccounts(accounts)
          BY <1>1 DEF AreAccounts, TypeOK
    <2>2. held[t] = SumFunctionOnSet(h, D)
      <3>1. accounts = InitialAccounts
            BY <1>1 DEF Init
      <3>. QED  BY <1>4, <3>1 DEF CustodyInit, SumFunction
    <2>3. /\ HeldBy(accounts, t) = SumFunctionOnSet(f, D)
          /\ StorageIn(accounts, t) = In(Near, t, SumFunctionOnSet(s, D))
          BY DEF HeldBy, StorageIn, SumFunction, In
    <2>4. IsFiniteSet(D)
          BY <2>1, FinitenessAssumption, FS_Subset DEF AreAccounts
    <2>5. \A a \in D : f[a] \in Nat /\ s[a] \in Nat
      <3> TAKE a \in D
      <3>1. IsAccount(accounts[a])
            BY <2>1 DEF AreAccounts
      <3>. QED  BY <3>1, BalanceType DEF IsAccount
    <2>6. /\ \A a \in D : g[a] = In(Near, t, s[a])
          /\ \A a \in D : f[a] \in Int /\ g[a] \in Int /\ h[a] = f[a] + g[a]
          BY <2>5 DEF In
    <2> HIDE DEF f, g, h, s, D
    <2>7. SumFunctionOnSet(g, D) = In(Near, t, SumFunctionOnSet(s, D))
          BY <2>4, <2>5, <2>6, InSum
    <2>8. SumFunctionOnSet(h, D) = SumFunctionOnSet(f, D) + SumFunctionOnSet(g, D)
          BY <2>4, <2>6, SumPlus
    <2>9. /\ HeldBy(accounts, t) \in Nat /\ StorageIn(accounts, t) \in Nat
          /\ TotalOf(accounts, t) = HeldBy(accounts, t) + StorageIn(accounts, t)
          BY <2>1, TotalIs
    <2>10. DueIn(markets, t) = 0
      <3>1. Owed(t) = HeldBy(accounts, t) + DueIn(markets, t) /\ DueIn(markets, t) \in Nat
            BY <1>1, OwedNow, DueInType DEF OwedOf, DueIn
      <3>2. Owed(t) = Endowment(t)
            BY <1>1, OwedAtFirst
      <3>3. Endowment(t) = HeldBy(accounts, t)
            BY <1>1 DEF Endowment, HeldBy, Init
      <3>. QED  BY <2>9, <3>1, <3>2, <3>3
    <2>11. FlowOf(receipts, t) = 0
      <3> DEFINE v == [r \in BagToSet(receipts) |-> receipts[r] * HeldFor(r, t)]
      <3>1. FlowOf(receipts, t) = SumFunctionOnSet(v, {})
            BY <1>3 DEF FlowOf, SumFunction
      <3> HIDE DEF v
      <3>. QED  BY <3>1, SumOfEmpty
    <2>. QED  BY <2>2, <2>3, <2>7, <2>8, <2>9, <2>10, <2>11 DEF Debt
  <1>5. CustodyTypeOK
    <2>1. held = [t \in Tokens |-> held[t]]
          BY DEF CustodyInit
    <2>2. held \in [Tokens -> Nat]
          BY <1>4, <2>1
    <2>3. owner_id \in Accounts /\ wallets \in [Accounts -> [Tokens -> Nat]]
          BY CustodyAssumption DEF CustodyInit
    <2>. QED  BY <1>1, <1>3, <2>2, <2>3 DEF CustodyTypeOK
  <1>6. \A t \in Tokens : Debt(accounts, markets, receipts, t) <= held[t]
        BY <1>4
  <1>. QED  BY <1>2, <1>3, <1>4, <1>5, <1>6 DEF CustodyInv

(* Trading keeps it: no order, cancel or switch creates a debt or moves a  *)
(* token, and none forgets a debt if nothing rounds.                       *)
LEMMA InvWhenTrading ==
  ASSUME CustodyInv, Next, UNCHANGED custodyVars
  PROVE  CustodyInv' /\ (AlignedBids /\ NoSelfReferral /\ AllEven => StaysClaimed)
PROOF
  <1>1. TypeOK /\ BooksMatchAccounts /\ AccountsCovered
        BY DEF CustodyInv, CustodyTypeOK
  <1>2. TypeOK'
        BY <1>1, StepFacts
  <1>3. BooksMatchAccounts' /\ AccountsCovered'
    <2>1. CASE SomeOrderPlaced
          BY <1>1, <2>1, BooksMatchWhenPlaced, CoveredWhenPlaced
    <2>2. CASE SomeOrdersCancelled
      <3>0. PICK m \in Markets : \E ids : OrdersCancelled(m, ids)
            BY <2>2 DEF SomeOrdersCancelled
      <3>1. PICK ids : OrdersCancelled(m, ids)
            BY <3>0
      <3>2. AccountsCovered'
            BY <1>1, <3>1 DEF OrdersCancelled, AccountsCovered
      <3>. QED  BY <1>1, <2>2, <3>2, BooksMatchWhenCancelled
    <2>3. CASE OnlySwitched
          BY <1>1, <2>3 DEF OnlySwitched, AccountsCovered, BooksMatchAccounts
    <2>. QED  BY <1>1, <2>1, <2>2, <2>3, StepFacts
  <1>4. SameStorage
        BY <1>1, TradingStorage
  <1>5. owner_id' = owner_id /\ wallets' = wallets /\ held' = held /\ receipts' = receipts
        BY DEF custodyVars
  <1>6. ASSUME NEW t \in Tokens
        PROVE  /\ Debt(accounts', markets', receipts', t) <= held'[t]
               /\ AlignedBids /\ NoSelfReferral /\ AllEven
                    => (held[t] = Debt(accounts, markets, receipts, t)
                          => held'[t] = Debt(accounts', markets', receipts', t))
    <2>1. AreAccounts(accounts) /\ AreAccounts(accounts')
          BY <1>1, <1>2 DEF AreAccounts, TypeOK
    <2>2. /\ HeldBy(accounts, t) \in Nat /\ StorageIn(accounts, t) \in Nat
          /\ TotalOf(accounts, t) = HeldBy(accounts, t) + StorageIn(accounts, t)
          /\ HeldBy(accounts', t) \in Nat /\ StorageIn(accounts', t) \in Nat
          /\ TotalOf(accounts', t) = HeldBy(accounts', t) + StorageIn(accounts', t)
          BY <2>1, TotalIs
    <2>3. /\ Owed(t) = HeldBy(accounts, t) + DueIn(markets, t)
          /\ Owed(t)' = HeldBy(accounts', t) + DueIn(markets', t)
          BY OwedNow DEF OwedOf, DueIn
    <2>4. DueIn(markets, t) \in Nat
          BY <1>1, DueInType
    <2>5. DueIn(markets', t) \in Nat
      <3>1. DueIn(markets, t)' = DueIn(markets', t)
            BY DEF DueIn
      <3>2. DueIn(markets, t)' \in Nat
        <4> DEFINE f == [k \in Markets |-> DueOf(k, markets'[k], t)]
        <4>1. ASSUME NEW k \in Markets PROVE f[k] \in Nat
          <5>1. /\ IsBook(markets'[k].book, prev_order_sequence_number')
                /\ prev_order_sequence_number' \in Nat
                /\ IsMarketParams(MarketParams[k]) /\ markets'[k].fees_accrued \in Nat
                BY <1>2, ParamsFacts DEF TypeOK, IsMarket, IsBook
          <5>2. LockedOf(MarketParams[k], markets'[k].book, t) \in Nat
                BY <5>1, LockedSum
          <5>. QED  BY <5>1, <5>2 DEF DueOf, In
        <4>2. DueIn(markets, t)' = SumFunctionOnSet(f, Markets)
              BY DEF DueIn
        <4> HIDE DEF f
        <4>. QED  BY <4>1, <4>2, FinitenessAssumption, SumNat
      <3>. QED  BY <3>1, <3>2
    <2>6. /\ Owed(t)' <= Owed(t)
          /\ AlignedBids /\ NoSelfReferral /\ AllEven => Owed(t)' = Owed(t)
      <3>1. Owed(t) \in Nat
            BY <2>2, <2>3, <2>4
      <3>. QED  BY <1>1, <3>1, OwedNeverGrows
    <2>7. StorageIn(accounts', t) = StorageIn(accounts, t)
      <3>1. /\ DOMAIN accounts' = DOMAIN accounts
            /\ \A a \in DOMAIN accounts : accounts'[a].storage = accounts[a].storage
            BY <1>4 DEF SameStorage
      <3>2. [a \in DOMAIN accounts' |-> accounts'[a].storage]
              = [a \in DOMAIN accounts |-> accounts[a].storage]
            BY <3>1
      <3>. QED  BY <3>2 DEF StorageIn
    <2>8. FlowOf(receipts, t) \in Nat /\ held[t] \in Nat
          /\ Debt(accounts, markets, receipts, t) <= held[t]
          BY FlowIs DEF CustodyInv, CustodyTypeOK
    <2>. QED  BY <1>5, <2>2, <2>3, <2>4, <2>5, <2>6, <2>7, <2>8 DEF Debt
  <1>7. CustodyTypeOK'
        BY <1>2, <1>5 DEF CustodyInv, CustodyTypeOK
  <1>8. IsReceiptBag(receipts')
        BY <1>5 DEF CustodyInv
  <1>9. \A t \in Tokens : Debt(accounts', markets', receipts', t) <= held'[t]
        BY <1>6
  <1>10. AlignedBids /\ NoSelfReferral /\ AllEven => StaysClaimed
        BY <1>6 DEF StaysClaimed
  <1>. QED  BY <1>3, <1>7, <1>8, <1>9, <1>10 DEF CustodyInv
-----------------------------------------------------------------------------
(* Steps that move tokens change one account.                              *)

OpenOf(accs, a) == IF a \in DOMAIN accs THEN accs[a].open ELSE [m \in Markets |-> {}]

(* Only account a changes, and it is saved with the orders it had.         *)
OnlyAccount(a) ==
  /\ a \in Accounts
  /\ UNCHANGED <<contract_state, markets, prev_order_sequence_number>>
  /\ AreAccounts(accounts')
  /\ DOMAIN accounts' \ {a} = DOMAIN accounts \ {a}
  /\ \A b \in DOMAIN accounts \ {a} : accounts'[b] = accounts[b]
  /\ a \in DOMAIN accounts' => IsStorageCovered(accounts'[a])
  /\ OpenOf(accounts', a) = OpenOf(accounts, a)

(* What is outside the exchange and in flight stays well formed.           *)
WellMoved ==
  /\ owner_id' \in Accounts /\ wallets' \in [Accounts -> [Tokens -> Nat]]
  /\ held' \in [Tokens -> Nat] /\ IsReceiptBag(receipts')
  /\ \A t \in Tokens : FlowOf(receipts', t) \in Nat

(* What account a gains, with what receipts in flight gain, the exchange   *)
(* has taken in ...                                                        *)
Accounted(a) ==
  /\ WellMoved
  /\ \A t \in Tokens : WorthOf(accounts', a, t) + FlowOf(receipts', t) + held[t]
                          <= WorthOf(accounts, a, t) + FlowOf(receipts, t) + held'[t]

(* ... and all that the exchange has taken in, they gain.                  *)
AllAccounted(a) ==
  /\ WellMoved
  /\ \A t \in Tokens : WorthOf(accounts', a, t) + FlowOf(receipts', t) + held[t]
                          = WorthOf(accounts, a, t) + FlowOf(receipts, t) + held'[t]

(* The debt changes with what the one account and receipts gain.           *)
LEMMA DebtChange ==
  ASSUME CustodyInv, NEW a, OnlyAccount(a), WellMoved, NEW t \in Tokens
  PROVE  /\ Debt(accounts, markets, receipts, t) \in Nat /\ Debt(accounts', markets', receipts', t) \in Nat
         /\ WorthOf(accounts, a, t) \in Nat /\ WorthOf(accounts', a, t) \in Nat
         /\ FlowOf(receipts, t) \in Nat /\ FlowOf(receipts', t) \in Nat
         /\ held[t] \in Nat /\ held'[t] \in Nat
         /\ Debt(accounts', markets', receipts', t) + WorthOf(accounts, a, t) + FlowOf(receipts, t)
              = Debt(accounts, markets, receipts, t) + WorthOf(accounts', a, t) + FlowOf(receipts', t)
PROOF
  <1>1. TypeOK /\ AreAccounts(accounts)
        BY DEF CustodyInv, CustodyTypeOK, TypeOK, AreAccounts
  <1>2. /\ a \in Accounts /\ AreAccounts(accounts') /\ markets' = markets
        /\ DOMAIN accounts' \ {a} = DOMAIN accounts \ {a}
        /\ \A b \in DOMAIN accounts \ {a} : accounts'[b] = accounts[b]
        BY DEF OnlyAccount
  <1>3. \A b \in Accounts \ {a} : WorthOf(accounts', b, t) = WorthOf(accounts, b, t)
        BY <1>2 DEF WorthOf
  <1>4. TotalOf(accounts', t) + WorthOf(accounts, a, t) = TotalOf(accounts, t) + WorthOf(accounts', a, t)
        BY <1>1, <1>2, <1>3, TotalChange
  <1>5. /\ TotalOf(accounts, t) \in Nat /\ TotalOf(accounts', t) \in Nat
        /\ WorthOf(accounts, a, t) \in Nat /\ WorthOf(accounts', a, t) \in Nat
    <2>1. \A n, k \in Nat : n + k \in Nat
          OBVIOUS
    <2>. QED  BY <1>1, <1>2, <2>1, WorthType, TotalIs
  <1>6. DueIn(markets, t) \in Nat
        BY <1>1, DueInType
  <1>7. /\ FlowOf(receipts, t) \in Nat /\ FlowOf(receipts', t) \in Nat
        /\ held[t] \in Nat /\ held'[t] \in Nat
        BY FlowIs DEF CustodyInv, CustodyTypeOK, WellMoved
  <1>. QED  BY <1>2, <1>4, <1>5, <1>6, <1>7 DEF Debt

(* Such a step keeps the invariant.                                        *)
LEMMA InvWhenAccounted ==
  ASSUME CustodyInv, NEW a, OnlyAccount(a), Accounted(a)
  PROVE  CustodyInv'
PROOF
  <1>1. TypeOK /\ BooksMatchAccounts /\ AccountsCovered /\ AreAccounts(accounts)
        BY DEF CustodyInv, CustodyTypeOK, TypeOK, AreAccounts
  <1>2. /\ a \in Accounts /\ AreAccounts(accounts')
        /\ contract_state' = contract_state /\ markets' = markets
        /\ prev_order_sequence_number' = prev_order_sequence_number
        /\ DOMAIN accounts' \ {a} = DOMAIN accounts \ {a}
        /\ \A b \in DOMAIN accounts \ {a} : accounts'[b] = accounts[b]
        /\ a \in DOMAIN accounts' => IsStorageCovered(accounts'[a])
        /\ OpenOf(accounts', a) = OpenOf(accounts, a)
        BY DEF OnlyAccount
  <1>3. TypeOK'
        BY <1>1, <1>2 DEF TypeOK, AreAccounts
  <1>4. AccountsCovered'
        BY <1>1, <1>2 DEF AccountsCovered
  <1>5. BooksMatchAccounts'
    <2> SUFFICES ASSUME NEW m \in Markets
                 PROVE  /\ \A i \in DOMAIN markets[m].book : markets[m].book[i].owner \in DOMAIN accounts'
                        /\ \A b \in DOMAIN accounts' :
                             accounts'[b].open[m] = {i \in DOMAIN markets[m].book : markets[m].book[i].owner = b}
        BY <1>2 DEF BooksMatchAccounts
    <2> DEFINE book == markets[m].book
               own(b) == {i \in DOMAIN book : book[i].owner = b}
    <2>1. /\ \A i \in DOMAIN book : book[i].owner \in DOMAIN accounts
          /\ \A b \in DOMAIN accounts : accounts[b].open[m] = own(b)
          BY <1>1 DEF BooksMatchAccounts
    <2>2. OpenOf(accounts, a)[m] = own(a)
          BY <2>1 DEF OpenOf
    <2>3. OpenOf(accounts', a)[m] = own(a)
          BY <1>2, <2>2
    <2>4. a \notin DOMAIN accounts' => own(a) = {}
          BY <2>3 DEF OpenOf
    <2>5. ASSUME NEW i \in DOMAIN book PROVE book[i].owner \in DOMAIN accounts'
          BY <1>2, <2>1, <2>4
    <2>6. ASSUME NEW b \in DOMAIN accounts' PROVE accounts'[b].open[m] = own(b)
      <3>1. CASE b = a
            BY <2>3, <2>6, <3>1 DEF OpenOf
      <3>2. CASE b # a
        <4>1. b \in DOMAIN accounts \ {a}
              BY <1>2, <2>6, <3>2
        <4>. QED  BY <1>2, <2>1, <4>1
      <3>. QED  BY <3>1, <3>2
    <2>. QED  BY <2>5, <2>6
  <1>6. ASSUME NEW t \in Tokens
        PROVE  Debt(accounts', markets', receipts', t) <= held'[t]
    <2>1. Debt(accounts, markets, receipts, t) <= held[t]
          BY DEF CustodyInv
    <2>2. WorthOf(accounts', a, t) + FlowOf(receipts', t) + held[t]
            <= WorthOf(accounts, a, t) + FlowOf(receipts, t) + held'[t]
          BY DEF Accounted
    <2>. QED  BY <2>1, <2>2, DebtChange DEF Accounted
  <1>7. CustodyTypeOK' /\ IsReceiptBag(receipts')
        BY <1>3 DEF CustodyTypeOK, Accounted, WellMoved, IsReceiptBag
  <1>8. \A t \in Tokens : Debt(accounts', markets', receipts', t) <= held'[t]
        BY <1>6
  <1>. QED  BY <1>4, <1>5, <1>7, <1>8 DEF CustodyInv

(* A step that accounts for all also leaves nothing without an owner.      *)
LEMMA InvWhenAllAccounted ==
  ASSUME CustodyInv, NEW a, OnlyAccount(a), AllAccounted(a)
  PROVE  CustodyInv' /\ StaysClaimed
PROOF
  <1>1. WellMoved
        BY DEF AllAccounted
  <1>2. ASSUME NEW t \in Tokens
        PROVE  /\ WorthOf(accounts', a, t) + FlowOf(receipts', t) + held[t]
                    <= WorthOf(accounts, a, t) + FlowOf(receipts, t) + held'[t]
               /\ held[t] = Debt(accounts, markets, receipts, t)
                    => held'[t] = Debt(accounts', markets', receipts', t)
    <2>1. WorthOf(accounts', a, t) + FlowOf(receipts', t) + held[t]
            = WorthOf(accounts, a, t) + FlowOf(receipts, t) + held'[t]
          BY DEF AllAccounted
    <2>. QED  BY <1>1, <2>1, DebtChange
  <1>3. Accounted(a)
        BY <1>1, <1>2 DEF Accounted
  <1>. QED  BY <1>2, <1>3, InvWhenAccounted DEF StaysClaimed

(* No account changes.                                                     *)
LEMMA NoAccountChanges ==
  ASSUME CustodyInv, UNCHANGED vars, NEW a \in Accounts
  PROVE  /\ OnlyAccount(a)
         /\ \A t : WorthOf(accounts', a, t) = WorthOf(accounts, a, t)
         /\ \A t : WorthOf(accounts, a, t) \in Nat
PROOF
  <1>1. AreAccounts(accounts) /\ AccountsCovered
        BY DEF CustodyInv, CustodyTypeOK, TypeOK, AreAccounts
  <1>2. accounts' = accounts
        BY DEF vars
  <1>3. OnlyAccount(a)
        BY <1>1, <1>2 DEF OnlyAccount, vars, AccountsCovered
  <1>4. \A t : WorthOf(accounts, a, t) \in Nat
        BY <1>1, WorthType
  <1>. QED  BY <1>2, <1>3, <1>4

(* A registered account is saved under the storage check.                  *)
LEMMA AccountSaved ==
  ASSUME CustodyInv, NEW a \in DOMAIN accounts, NEW acc, IsAccount(acc), IsStorageCovered(acc),
         acc.open = accounts[a].open, accounts' = [accounts EXCEPT ![a] = acc],
         UNCHANGED <<contract_state, markets, prev_order_sequence_number>>
  PROVE  /\ OnlyAccount(a)
         /\ \A t : WorthOf(accounts', a, t) = Balance(acc, t) + In(Near, t, acc.storage)
         /\ \A t : WorthOf(accounts, a, t)
                     = Balance(accounts[a], t) + In(Near, t, accounts[a].storage)
         /\ \A t : Balance(accounts[a], t) \in Nat /\ accounts[a].storage \in Nat
PROOF
  <1>1. AreAccounts(accounts)
        BY DEF CustodyInv, CustodyTypeOK, TypeOK, AreAccounts
  <1>2. /\ DOMAIN accounts' = DOMAIN accounts /\ accounts'[a] = acc
        /\ \A b \in DOMAIN accounts \ {a} : accounts'[b] = accounts[b]
        /\ accounts' = [b \in DOMAIN accounts |-> accounts'[b]]
        BY <1>1 DEF AreAccounts
  <1>3. AreAccounts(accounts')
        BY <1>1, <1>2 DEF AreAccounts
  <1>4. OnlyAccount(a)
        BY <1>1, <1>2, <1>3 DEF OnlyAccount, OpenOf, AreAccounts
  <1>5. IsAccount(accounts[a])
        BY <1>1 DEF AreAccounts
  <1>6. \A t : Balance(accounts[a], t) \in Nat /\ accounts[a].storage \in Nat
        BY <1>5, BalanceType DEF IsAccount
  <1>. QED  BY <1>2, <1>4, <1>6 DEF WorthOf

(* internal_deposit                                                        *)
LEMMA AccountCredited ==
  ASSUME CustodyInv, NEW a, NEW token \in Tokens, NEW amount \in Nat, CanCredit(a, token, amount),
         accounts' = [accounts EXCEPT ![a] = Credited(a, token, amount)],
         UNCHANGED <<contract_state, markets, prev_order_sequence_number>>
  PROVE  /\ OnlyAccount(a)
         /\ \A t : WorthOf(accounts', a, t) = WorthOf(accounts, a, t) + In(token, t, amount)
         /\ \A t : WorthOf(accounts, a, t) \in Nat
PROOF
  <1> DEFINE acc == Credited(a, token, amount)
  <1>1. a \in DOMAIN accounts /\ IsStorageCovered(acc)
        BY DEF CanCredit
  <1>2. IsAccount(accounts[a])
        BY <1>1 DEF CustodyInv, CustodyTypeOK, TypeOK
  <1>3. /\ IsAccount(acc) /\ acc.open = accounts[a].open
        /\ \A t : Balance(acc, t) = Balance(accounts[a], t) + In(token, t, amount)
        BY <1>2, DepositFacts, DepositBalance DEF Credited
  <1>4. acc.storage = accounts[a].storage
        BY <1>2, StorageNow, StorageKept DEF Credited, StorageIs
  <1> HIDE DEF acc
  <1>5. /\ OnlyAccount(a)
        /\ \A t : WorthOf(accounts', a, t) = Balance(acc, t) + In(Near, t, acc.storage)
        /\ \A t : WorthOf(accounts, a, t)
                    = Balance(accounts[a], t) + In(Near, t, accounts[a].storage)
        /\ \A t : Balance(accounts[a], t) \in Nat /\ accounts[a].storage \in Nat
    <2>1. accounts' = [accounts EXCEPT ![a] = acc]
          BY DEF acc
    <2>. QED  BY <1>1, <1>3, <2>1, AccountSaved
  <1>6. ASSUME NEW t
        PROVE  /\ WorthOf(accounts', a, t) = WorthOf(accounts, a, t) + In(token, t, amount)
               /\ WorthOf(accounts, a, t) \in Nat
    <2>1. In(token, t, amount) \in Nat /\ In(Near, t, accounts[a].storage) \in Nat
          BY <1>5 DEF In
    <2>2. WorthOf(accounts', a, t) = Balance(acc, t) + In(Near, t, accounts[a].storage)
          BY <1>4, <1>5
    <2>3. Balance(acc, t) = Balance(accounts[a], t) + In(token, t, amount)
          BY <1>3
    <2>4. /\ WorthOf(accounts, a, t) = Balance(accounts[a], t) + In(Near, t, accounts[a].storage)
          /\ Balance(accounts[a], t) \in Nat
          BY <1>5
    <2>. QED  BY <2>1, <2>2, <2>3, <2>4
  <1>. QED  BY <1>5, <1>6

(* Tokens taken into custody and paid out of it.                           *)
LEMMA HeldMoves ==
  ASSUME CustodyTypeOK, NEW a \in Accounts, NEW token \in Tokens, NEW amount \in Nat
  PROVE  /\ TakeIn(a, token, amount) =>
              /\ wallets' \in [Accounts -> [Tokens -> Nat]] /\ held' \in [Tokens -> Nat]
              /\ \A t \in Tokens : held[t] \in Nat /\ held'[t] = held[t] + In(token, t, amount)
         /\ PayOut(a, token, amount) =>
              /\ wallets' \in [Accounts -> [Tokens -> Nat]] /\ held' \in [Tokens -> Nat]
              /\ \A t \in Tokens : held[t] \in Nat /\ held[t] = held'[t] + In(token, t, amount)
PROOF
  <1>1. wallets \in [Accounts -> [Tokens -> Nat]] /\ held \in [Tokens -> Nat]
        BY DEF CustodyTypeOK
  <1>2. ASSUME TakeIn(a, token, amount)
        PROVE  /\ wallets' \in [Accounts -> [Tokens -> Nat]] /\ held' \in [Tokens -> Nat]
               /\ \A t \in Tokens : held[t] \in Nat /\ held'[t] = held[t] + In(token, t, amount)
    <2>1. /\ wallets[a][token] >= amount
          /\ wallets' = [wallets EXCEPT ![a][token] = wallets[a][token] - amount]
          /\ held' = [held EXCEPT ![token] = held[token] + amount]
          BY <1>2 DEF TakeIn
    <2>2. wallets[a][token] - amount \in Nat /\ held[token] + amount \in Nat
          BY <1>1, <2>1
    <2>. QED  BY <1>1, <2>1, <2>2 DEF In
  <1>3. ASSUME PayOut(a, token, amount)
        PROVE  /\ wallets' \in [Accounts -> [Tokens -> Nat]] /\ held' \in [Tokens -> Nat]
               /\ \A t \in Tokens : held[t] \in Nat /\ held[t] = held'[t] + In(token, t, amount)
    <2>1. /\ held[token] >= amount
          /\ wallets' = [wallets EXCEPT ![a][token] = wallets[a][token] + amount]
          /\ held' = [held EXCEPT ![token] = held[token] - amount]
          BY <1>3 DEF PayOut
    <2>2. wallets[a][token] + amount \in Nat /\ held[token] - amount \in Nat
          BY <1>1, <2>1
    <2>. QED  BY <1>1, <2>1, <2>2 DEF In
  <1>. QED  BY <1>2, <1>3

(* Facts about a receipt in flight.                                        *)
LEMMA ReceiptFacts ==
  ASSUME CustodyInv, NEW r \in BagToSet(receipts)
  PROVE  /\ r \in Receipt /\ r.account \in Accounts /\ r.token \in Tokens
         /\ r.amount \in Nat \ {0} /\ r.ok \in BOOLEAN /\ IsReceiptBag(receipts)
PROOF
  <1>1. r \in Receipt /\ IsReceiptBag(receipts)
        BY DEF CustodyInv, IsReceiptBag
  <1>. QED  BY <1>1 DEF Receipt

(* Receipts as the exchange and the token contracts make them.             *)
LEMMA MadeReceipt ==
  ASSUME NEW kind \in {"transfer", "callback", "notify", "return", "pay"},
         NEW a \in Accounts, NEW token \in Tokens, NEW amount \in Nat \ {0}
  PROVE  MakeReceipt(kind, a, token, amount, TRUE) \in Receipt
BY DEF MakeReceipt, Receipt

(* No account changes, and what receipts in flight gain, the exchange has  *)
(* taken in.                                                               *)
LEMMA InvWhenTokensMove ==
  ASSUME CustodyInv, UNCHANGED vars,
         owner_id' \in Accounts, wallets' \in [Accounts -> [Tokens -> Nat]],
         held' \in [Tokens -> Nat], IsReceiptBag(receipts'),
         \A t \in Tokens :
           /\ FlowOf(receipts', t) \in Nat
           /\ FlowOf(receipts', t) + held[t] = FlowOf(receipts, t) + held'[t]
  PROVE  CustodyInv' /\ StaysClaimed
PROOF
  <1>1. owner_id \in Accounts /\ held \in [Tokens -> Nat] /\ IsReceiptBag(receipts)
        BY DEF CustodyInv, CustodyTypeOK
  <1>2. /\ OnlyAccount(owner_id)
        /\ \A t : WorthOf(accounts', owner_id, t) = WorthOf(accounts, owner_id, t)
        /\ \A t : WorthOf(accounts, owner_id, t) \in Nat
        BY <1>1, NoAccountChanges
  <1>3. ASSUME NEW t \in Tokens
        PROVE  WorthOf(accounts', owner_id, t) + FlowOf(receipts', t) + held[t]
                 = WorthOf(accounts, owner_id, t) + FlowOf(receipts, t) + held'[t]
    <2>1. FlowOf(receipts, t) \in Nat
          BY <1>1, FlowIs
    <2>2. held[t] \in Nat /\ held'[t] \in Nat
          BY <1>1
    <2>3. /\ WorthOf(accounts', owner_id, t) = WorthOf(accounts, owner_id, t)
          /\ WorthOf(accounts, owner_id, t) \in Nat
          BY <1>2
    <2>. QED  BY <2>1, <2>2, <2>3
  <1>4. AllAccounted(owner_id)
        BY <1>3 DEF AllAccounted, WellMoved
  <1>. QED  BY <1>2, <1>4, InvWhenAllAccounted

-----------------------------------------------------------------------------
(* Receipts that are executed.                                             *)

(* ft_on_transfer credits the tokens or sends them back.                   *)
LEMMA InvWhenNotified ==
  ASSUME CustodyInv, NEW r \in Due("notify"), FtOnTransfer(r)
  PROVE  CustodyInv' /\ StaysClaimed
PROOF
  <1> DEFINE a == r.account
             back == MakeReceipt("return", r.account, r.token, r.amount, TRUE)
             accepted == contract_state = "Active" /\ CanCredit(r.account, r.token, r.amount)
  <1>1. /\ r \in BagToSet(receipts) /\ r.kind = "notify"
        /\ r \in Receipt /\ r.account \in Accounts /\ r.token \in Tokens
        /\ r.amount \in Nat \ {0} /\ r.ok \in BOOLEAN /\ IsReceiptBag(receipts)
        BY ReceiptFacts DEF Due
  <1>2. /\ accounts' = IF accepted
                         THEN [accounts EXCEPT ![a] = Credited(a, r.token, r.amount)]
                         ELSE accounts
        /\ receipts' = IF accepted THEN Bag!BagRemove(receipts, r)
                                   ELSE Bag!BagAdd(Bag!BagRemove(receipts, r), back)
        /\ UNCHANGED <<contract_state, markets, prev_order_sequence_number, owner_id, wallets, held>>
        BY DEF FtOnTransfer, SendBack
  <1>3. owner_id' \in Accounts /\ wallets' \in [Accounts -> [Tokens -> Nat]]
        /\ held' \in [Tokens -> Nat] /\ held' = held
        BY <1>2 DEF CustodyInv, CustodyTypeOK
  <1>4. /\ back \in Receipt
        /\ \A t : HeldFor(r, t) = In(r.token, t, r.amount) /\ HeldFor(back, t) = In(r.token, t, r.amount)
    <2>1. "return" \in {"transfer", "callback", "notify", "return", "pay"}
          OBVIOUS
    <2>2. back \in Receipt
          BY <1>1, <2>1, MadeReceipt
    <2>3. \A t : HeldFor(back, t) = In(r.token, t, r.amount)
          BY DEF MakeReceipt, HeldFor, In
    <2>4. \A t : HeldFor(r, t) = In(r.token, t, r.amount)
          BY <1>1 DEF HeldFor, In
    <2>. QED  BY <2>2, <2>3, <2>4
  <1>5. CASE accepted
    <2>1. /\ OnlyAccount(a)
          /\ \A t : WorthOf(accounts', a, t) = WorthOf(accounts, a, t) + In(r.token, t, r.amount)
          /\ \A t : WorthOf(accounts, a, t) \in Nat
          BY <1>1, <1>2, <1>5, AccountCredited
    <2>2. /\ receipts' = Bag!BagRemove(receipts, r)
          BY <1>2, <1>5
    <2>3. /\ IsReceiptBag(receipts')
          /\ \A t : /\ FlowOf(receipts', t) \in Nat
                    /\ FlowOf(receipts, t) = FlowOf(receipts', t) + HeldFor(r, t)
          BY <1>1, <2>2, FlowOfRemove
    <2>4. AllAccounted(a)
      <3> SUFFICES ASSUME NEW t \in Tokens
                   PROVE  WorthOf(accounts', a, t) + FlowOf(receipts', t) + held[t]
                            = WorthOf(accounts, a, t) + FlowOf(receipts, t) + held'[t]
          BY <1>3, <2>3 DEF AllAccounted, WellMoved
      <3>1. HeldFor(r, t) = In(r.token, t, r.amount) /\ In(r.token, t, r.amount) \in Nat
            BY <1>1, <1>4 DEF In
      <3>2. held'[t] = held[t] /\ held[t] \in Nat
            BY <1>3
      <3>3. /\ WorthOf(accounts', a, t) = WorthOf(accounts, a, t) + In(r.token, t, r.amount)
            /\ WorthOf(accounts, a, t) \in Nat
            BY <2>1
      <3>4. FlowOf(receipts', t) \in Nat /\ FlowOf(receipts, t) = FlowOf(receipts', t) + HeldFor(r, t)
            BY <2>3
      <3>. QED  BY <3>1, <3>2, <3>3, <3>4
    <2>. QED  BY <2>1, <2>4, InvWhenAllAccounted
  <1>6. CASE ~ accepted
    <2>1. UNCHANGED vars
          BY <1>2, <1>6 DEF vars
    <2>3. receipts' = Bag!BagAdd(Bag!BagRemove(receipts, r), back)
          BY <1>2, <1>6
    <2> HIDE DEF back
    <2>4. /\ IsReceiptBag(receipts')
          /\ \A t : /\ FlowOf(receipts', t) + HeldFor(r, t) = FlowOf(receipts, t) + HeldFor(back, t)
                    /\ FlowOf(receipts', t) \in Nat /\ FlowOf(receipts, t) \in Nat
          BY <1>1, <1>4, <2>3, FlowOfReplace
    <2>5. ASSUME NEW t \in Tokens
          PROVE  FlowOf(receipts', t) + held[t] = FlowOf(receipts, t) + held'[t]
      <3>1. HeldFor(r, t) \in Nat /\ HeldFor(back, t) = HeldFor(r, t)
            BY <1>1, <1>4, HeldForType
      <3>2. held'[t] = held[t] /\ held[t] \in Nat
            BY <1>3
      <3>3. /\ FlowOf(receipts', t) + HeldFor(r, t) = FlowOf(receipts, t) + HeldFor(back, t)
            /\ FlowOf(receipts', t) \in Nat /\ FlowOf(receipts, t) \in Nat
            BY <2>4
      <3>. QED  BY <3>1, <3>2, <3>3
    <2>. QED  BY <1>3, <2>1, <2>4, <2>5, InvWhenTokensMove
  <1>. QED  BY <1>5, <1>6

(* ft_resolve_transfer and plain transfers of NEAR take what was held for  *)
(* them out of custody.                                                    *)
LEMMA InvWhenDelivered ==
  ASSUME CustodyInv, NEW r \in Due("return") \cup Due("pay"), Deliver(r)
  PROVE  CustodyInv' /\ StaysClaimed
PROOF
  <1>1. /\ r \in BagToSet(receipts) /\ r.kind # "callback"
        /\ r \in Receipt /\ r.account \in Accounts /\ r.token \in Tokens
        /\ r.amount \in Nat \ {0} /\ IsReceiptBag(receipts)
        BY ReceiptFacts DEF Due
  <1>2. /\ PayOut(r.account, r.token, r.amount) /\ receipts' = Bag!BagRemove(receipts, r)
        /\ UNCHANGED vars /\ owner_id' = owner_id
        BY DEF Deliver
  <1>3. CustodyTypeOK /\ owner_id' \in Accounts
        BY <1>2 DEF CustodyInv, CustodyTypeOK
  <1>4. /\ wallets' \in [Accounts -> [Tokens -> Nat]] /\ held' \in [Tokens -> Nat]
        /\ \A t \in Tokens : held[t] \in Nat /\ held[t] = held'[t] + In(r.token, t, r.amount)
        BY <1>1, <1>2, <1>3, HeldMoves
  <1>5. /\ IsReceiptBag(receipts')
        /\ \A t : /\ FlowOf(receipts', t) \in Nat
                  /\ FlowOf(receipts, t) = FlowOf(receipts', t) + HeldFor(r, t)
        BY <1>1, <1>2, FlowOfRemove
  <1>6. ASSUME NEW t \in Tokens
        PROVE  FlowOf(receipts', t) + held[t] = FlowOf(receipts, t) + held'[t]
    <2>1. HeldFor(r, t) = In(r.token, t, r.amount) /\ HeldFor(r, t) \in Nat /\ held'[t] \in Nat
          BY <1>1, <1>4, HeldForType DEF HeldFor, In
    <2>. QED  BY <1>4, <1>5, <2>1
  <1>. QED  BY <1>2, <1>3, <1>4, <1>5, <1>6, InvWhenTokensMove

(* A transfer that succeeds takes its tokens out and leaves a callback     *)
(* that owes nothing; one that fails leaves a callback that owes them.     *)
LEMMA InvWhenTransferred ==
  ASSUME CustodyInv, NEW r \in Due("transfer"), TransferSucceeds(r) \/ TransferFails(r)
  PROVE  CustodyInv' /\ StaysClaimed
PROOF
  <1> DEFINE sent   == [r EXCEPT !.kind = "callback", !.ok = TRUE]
             failed == [r EXCEPT !.kind = "callback", !.ok = FALSE]
  <1>1. /\ r \in BagToSet(receipts) /\ r.kind # "callback"
        /\ r \in Receipt /\ r.account \in Accounts /\ r.token \in Tokens
        /\ r.amount \in Nat \ {0} /\ IsReceiptBag(receipts)
        BY ReceiptFacts DEF Due
  <1>2. UNCHANGED vars /\ owner_id' = owner_id
        BY DEF TransferSucceeds, TransferFails
  <1>3. /\ CustodyTypeOK /\ owner_id' \in Accounts
        /\ wallets \in [Accounts -> [Tokens -> Nat]] /\ held \in [Tokens -> Nat]
        BY <1>2 DEF CustodyInv, CustodyTypeOK
  <1>4. /\ sent \in Receipt /\ failed \in Receipt
        /\ \A t : /\ HeldFor(r, t) = In(r.token, t, r.amount) /\ HeldFor(r, t) \in Nat
                  /\ HeldFor(sent, t) = 0 /\ HeldFor(failed, t) = In(r.token, t, r.amount)
    <2>1. /\ sent \in Receipt /\ sent.kind = "callback" /\ sent.ok = TRUE
          /\ failed \in Receipt /\ failed.kind = "callback" /\ failed.ok = FALSE
          /\ failed.token = r.token /\ failed.amount = r.amount
          BY <1>1 DEF Receipt
    <2> HIDE DEF sent, failed
    <2>2. \A t : /\ HeldFor(r, t) = In(r.token, t, r.amount) /\ HeldFor(r, t) \in Nat
          BY <1>1, HeldForType DEF HeldFor, In
    <2>3. \A t : HeldFor(sent, t) = 0 /\ HeldFor(failed, t) = In(r.token, t, r.amount)
          BY <2>1 DEF HeldFor, In
    <2>. QED  BY <2>1, <2>2, <2>3
  <1>5. CASE TransferSucceeds(r)
    <2>1. /\ PayOut(r.account, r.token, r.amount)
          /\ receipts' = Bag!BagAdd(Bag!BagRemove(receipts, r), sent)
          BY <1>5 DEF TransferSucceeds
    <2>2. /\ wallets' \in [Accounts -> [Tokens -> Nat]] /\ held' \in [Tokens -> Nat]
          /\ \A t \in Tokens : held[t] \in Nat /\ held[t] = held'[t] + In(r.token, t, r.amount)
          BY <1>1, <1>3, <2>1, HeldMoves
    <2>3. sent \in Receipt
          BY <1>4
    <2> HIDE DEF sent, failed
    <2>4. /\ IsReceiptBag(receipts')
          /\ \A t : /\ FlowOf(receipts', t) \in Nat /\ FlowOf(receipts, t) \in Nat
                    /\ FlowOf(receipts', t) + HeldFor(r, t) = FlowOf(receipts, t) + HeldFor(sent, t)
          BY <1>1, <2>1, <2>3, FlowOfReplace
    <2>5. ASSUME NEW t \in Tokens
          PROVE  FlowOf(receipts', t) + held[t] = FlowOf(receipts, t) + held'[t]
      <3>1. /\ HeldFor(r, t) = In(r.token, t, r.amount) /\ HeldFor(r, t) \in Nat
            /\ HeldFor(sent, t) = 0 /\ held'[t] \in Nat
        <4>1. held'[t] \in Nat
              BY <2>2
        <4>. QED  BY <1>4, <4>1
      <3>2. /\ FlowOf(receipts', t) \in Nat /\ FlowOf(receipts, t) \in Nat
            /\ FlowOf(receipts', t) + HeldFor(r, t) = FlowOf(receipts, t) + HeldFor(sent, t)
            BY <2>4
      <3>3. held[t] = held'[t] + In(r.token, t, r.amount)
            BY <2>2
      <3>. QED  BY <3>1, <3>2, <3>3
    <2>. QED  BY <1>2, <1>3, <2>2, <2>4, <2>5, InvWhenTokensMove
  <1>6. CASE TransferFails(r)
    <2>1. /\ wallets' = wallets /\ held' = held
          /\ receipts' = Bag!BagAdd(Bag!BagRemove(receipts, r), failed)
          BY <1>6 DEF TransferFails
    <2>3. failed \in Receipt
          BY <1>4
    <2> HIDE DEF sent, failed
    <2>4. /\ IsReceiptBag(receipts')
          /\ \A t : /\ FlowOf(receipts', t) \in Nat /\ FlowOf(receipts, t) \in Nat
                    /\ FlowOf(receipts', t) + HeldFor(r, t) = FlowOf(receipts, t) + HeldFor(failed, t)
          BY <1>1, <2>1, <2>3, FlowOfReplace
    <2>5. ASSUME NEW t \in Tokens
          PROVE  FlowOf(receipts', t) + held[t] = FlowOf(receipts, t) + held'[t]
      <3>1. HeldFor(failed, t) = HeldFor(r, t) /\ HeldFor(r, t) \in Nat /\ held[t] \in Nat
        <4>1. held[t] \in Nat
              BY <1>3
        <4>. QED  BY <1>4, <4>1
      <3>2. /\ FlowOf(receipts', t) \in Nat /\ FlowOf(receipts, t) \in Nat
            /\ FlowOf(receipts', t) + HeldFor(r, t) = FlowOf(receipts, t) + HeldFor(failed, t)
            BY <2>4
      <3>3. held'[t] = held[t]
            BY <2>1
      <3>. QED  BY <3>1, <3>2, <3>3
    <2>. QED  BY <1>2, <1>3, <2>1, <2>4, <2>5, InvWhenTokensMove
  <1>. QED  BY <1>5, <1>6

(* exchange_callback_post_withdraw credits what the exchange held for a    *)
(* failed transfer, to whomever it can, or keeps it without owing it to    *)
(* anybody.                                                                *)
LEMMA InvWhenCalledBack ==
  ASSUME CustodyInv, NEW r \in Due("callback"), ExchangeCallbackPostWithdraw(r)
  PROVE  /\ CustodyInv'
         /\ (IsRefundDue(r) => CanCredit(RefundTarget(r), r.token, r.amount)) => StaysClaimed
PROOF
  <1> DEFINE a == RefundTarget(r)
             credited == IsRefundDue(r) /\ CanCredit(a, r.token, r.amount)
  <1>1. /\ r \in BagToSet(receipts) /\ r.kind = "callback"
        /\ r \in Receipt /\ r.account \in Accounts /\ r.token \in Tokens
        /\ r.amount \in Nat \ {0} /\ r.ok \in BOOLEAN /\ IsReceiptBag(receipts)
        BY ReceiptFacts DEF Due
  <1>2. /\ receipts' = Bag!BagRemove(receipts, r)
        /\ accounts' = IF credited THEN [accounts EXCEPT ![a] = Credited(a, r.token, r.amount)]
                       ELSE accounts
        /\ UNCHANGED <<contract_state, markets, prev_order_sequence_number, owner_id, wallets, held>>
        BY DEF ExchangeCallbackPostWithdraw
  <1>3. owner_id' \in Accounts /\ wallets' \in [Accounts -> [Tokens -> Nat]]
        /\ held' \in [Tokens -> Nat] /\ held' = held
        BY <1>2 DEF CustodyInv, CustodyTypeOK
  <1>4. /\ IsReceiptBag(receipts')
        /\ \A t : /\ FlowOf(receipts', t) \in Nat /\ HeldFor(r, t) \in Nat
                  /\ FlowOf(receipts, t) = FlowOf(receipts', t) + HeldFor(r, t)
        BY <1>1, <1>2, FlowOfRemove, HeldForType
  <1>5. CASE credited
    <2>1. /\ OnlyAccount(a)
          /\ \A t : WorthOf(accounts', a, t) = WorthOf(accounts, a, t) + In(r.token, t, r.amount)
          /\ \A t : WorthOf(accounts, a, t) \in Nat
          BY <1>1, <1>2, <1>5, AccountCredited
    <2>2. ASSUME NEW t \in Tokens
          PROVE  WorthOf(accounts', a, t) + FlowOf(receipts', t) + held[t]
                   = WorthOf(accounts, a, t) + FlowOf(receipts, t) + held'[t]
      <3>1. HeldFor(r, t) = In(r.token, t, r.amount) /\ held[t] \in Nat
            BY <1>3, <1>5 DEF HeldFor, In, IsRefundDue
      <3>. QED  BY <1>3, <1>4, <2>1, <3>1
    <2>3. AllAccounted(a)
          BY <1>3, <1>4, <2>2 DEF AllAccounted, WellMoved
    <2>. QED  BY <2>1, <2>3, InvWhenAllAccounted
  <1>6. CASE ~ credited
    <2>0. owner_id \in Accounts
          BY DEF CustodyInv, CustodyTypeOK
    <2>1. UNCHANGED vars
          BY <1>2, <1>6 DEF vars
    <2>2. /\ OnlyAccount(owner_id)
          /\ \A t : WorthOf(accounts', owner_id, t) = WorthOf(accounts, owner_id, t)
          /\ \A t : WorthOf(accounts, owner_id, t) \in Nat
          BY <2>0, <2>1, NoAccountChanges
    <2>3. ASSUME NEW t \in Tokens
          PROVE  WorthOf(accounts', owner_id, t) + FlowOf(receipts', t) + held[t]
                   <= WorthOf(accounts, owner_id, t) + FlowOf(receipts, t) + held'[t]
      <3>1. held[t] \in Nat
            BY <1>3
      <3>. QED  BY <1>3, <1>4, <2>2, <3>1
    <2>4. CustodyInv'
      <3>1. Accounted(owner_id)
            BY <1>3, <1>4, <2>3 DEF Accounted, WellMoved
      <3>. QED  BY <2>2, <3>1, InvWhenAccounted
    <2>5. ASSUME ~ IsRefundDue(r) PROVE StaysClaimed
      <3>1. ASSUME NEW t \in Tokens
            PROVE  FlowOf(receipts', t) + held[t] = FlowOf(receipts, t) + held'[t]
        <4>1. HeldFor(r, t) = 0
              BY <1>1, <2>5 DEF HeldFor, IsRefundDue
        <4>. QED  BY <1>3, <1>4, <4>1
      <3>. QED  BY <1>3, <1>4, <2>1, <3>1, InvWhenTokensMove
    <2>. QED  BY <1>6, <2>4, <2>5
  <1>. QED  BY <1>5, <1>6
-----------------------------------------------------------------------------
(* Tokens that users move.                                                 *)

(* deposit_near                                                            *)
LEMMA InvWhenDeposited ==
  ASSUME CustodyInv, NEW a \in Accounts, NEW amount \in Nat, DepositNear(a, amount)
  PROVE  CustodyInv' /\ StaysClaimed
PROOF
  <1>1. /\ CanCredit(a, Near, amount) /\ TakeIn(a, Near, amount)
        /\ accounts' = [accounts EXCEPT ![a] = Credited(a, Near, amount)]
        /\ UNCHANGED <<contract_state, markets, prev_order_sequence_number, owner_id, receipts>>
        BY DEF DepositNear
  <1>2. /\ CustodyTypeOK /\ IsReceiptBag(receipts) /\ Near \in Tokens
        /\ receipts' = receipts /\ owner_id' \in Accounts
        BY <1>1, CustodyAssumption DEF CustodyInv, CustodyTypeOK
  <1>3. /\ wallets' \in [Accounts -> [Tokens -> Nat]] /\ held' \in [Tokens -> Nat]
        /\ \A t \in Tokens : held[t] \in Nat /\ held'[t] = held[t] + In(Near, t, amount)
        BY <1>1, <1>2, HeldMoves
  <1>4. /\ OnlyAccount(a)
        /\ \A t : WorthOf(accounts', a, t) = WorthOf(accounts, a, t) + In(Near, t, amount)
        /\ \A t : WorthOf(accounts, a, t) \in Nat
        BY <1>1, <1>2, AccountCredited
  <1>5. ASSUME NEW t \in Tokens
        PROVE  /\ FlowOf(receipts', t) \in Nat
               /\ WorthOf(accounts', a, t) + FlowOf(receipts', t) + held[t]
                    = WorthOf(accounts, a, t) + FlowOf(receipts, t) + held'[t]
    <2>1. FlowOf(receipts', t) = FlowOf(receipts, t) /\ FlowOf(receipts, t) \in Nat
          BY <1>2, FlowIs
    <2>2. In(Near, t, amount) \in Nat
          BY DEF In
    <2>3. held[t] \in Nat /\ held'[t] = held[t] + In(Near, t, amount)
          BY <1>3
    <2>4. /\ WorthOf(accounts', a, t) = WorthOf(accounts, a, t) + In(Near, t, amount)
          /\ WorthOf(accounts, a, t) \in Nat
          BY <1>4
    <2>. QED  BY <2>1, <2>2, <2>3, <2>4
  <1>6. AllAccounted(a)
        BY <1>2, <1>3, <1>5 DEF AllAccounted, WellMoved
  <1>. QED  BY <1>4, <1>6, InvWhenAllAccounted

(* ft_transfer_call: the token contract moves tokens into custody, which   *)
(* are owed to the sender until ft_on_transfer is executed.                *)
LEMMA InvWhenSentIn ==
  ASSUME CustodyInv, NEW a \in Accounts, NEW token \in Tokens, NEW amount \in Nat \ {0},
         NEW msg \in Messages, FtTransferCall(a, token, amount, msg)
  PROVE  CustodyInv' /\ StaysClaimed
PROOF
  <1> DEFINE r == [MakeReceipt("notify", a, token, amount, TRUE) EXCEPT !.msg = msg]
  <1>1. /\ TakeIn(a, token, amount)
        /\ receipts' = Bag!BagAdd(receipts, r)
        /\ UNCHANGED vars /\ owner_id' = owner_id
        BY DEF FtTransferCall
  <1>2. CustodyTypeOK /\ IsReceiptBag(receipts) /\ owner_id' \in Accounts
        BY <1>1 DEF CustodyInv, CustodyTypeOK
  <1>3. /\ wallets' \in [Accounts -> [Tokens -> Nat]] /\ held' \in [Tokens -> Nat]
        /\ \A t \in Tokens : held[t] \in Nat /\ held'[t] = held[t] + In(token, t, amount)
        BY <1>1, <1>2, HeldMoves
  <1>4. r \in Receipt /\ \A t : HeldFor(r, t) = In(token, t, amount)
    <2>1. /\ r \in Receipt /\ r.kind = "notify" /\ r.token = token /\ r.amount = amount
          BY DEF MakeReceipt, Receipt
    <2> HIDE DEF r
    <2>. QED  BY <2>1 DEF HeldFor, In
  <1> HIDE DEF r
  <1>5. /\ IsReceiptBag(receipts')
        /\ \A t : /\ FlowOf(receipts, t) \in Nat
                  /\ FlowOf(receipts', t) = FlowOf(receipts, t) + HeldFor(r, t)
        BY <1>1, <1>2, <1>4, FlowOfAdd
  <1>6. ASSUME NEW t \in Tokens
        PROVE  /\ FlowOf(receipts', t) \in Nat
               /\ FlowOf(receipts', t) + held[t] = FlowOf(receipts, t) + held'[t]
    <2>1. In(token, t, amount) \in Nat
          BY DEF In
    <2>2. held[t] \in Nat /\ held'[t] = held[t] + In(token, t, amount)
          BY <1>3
    <2>3. /\ FlowOf(receipts, t) \in Nat
          /\ FlowOf(receipts', t) = FlowOf(receipts, t) + In(token, t, amount)
          BY <1>4, <1>5
    <2>. QED  BY <2>1, <2>2, <2>3
  <1>. QED  BY <1>1, <1>2, <1>3, <1>5, <1>6, InvWhenTokensMove

(* withdraw_near and withdraw_ft: what leaves the account is owed through  *)
(* the transfer.                                                           *)
LEMMA InvWhenWithdrawn ==
  ASSUME CustodyInv, NEW a \in Accounts, NEW token \in Tokens, NEW amount \in Nat \ {0},
         InternalWithdraw(a, token, amount)
  PROVE  CustodyInv' /\ StaysClaimed /\ OnlyAccount(a) /\ AllAccounted(a)
PROOF
  <1> DEFINE acc == Withdraw(accounts[a], token, amount)
             r   == MakeReceipt("transfer", a, token, amount, TRUE)
  <1>1. /\ a \in DOMAIN accounts /\ CanWithdraw(accounts[a], token, amount)
        /\ IsStorageCovered(acc) /\ accounts' = [accounts EXCEPT ![a] = acc]
        /\ receipts' = Bag!BagAdd(receipts, r)
        /\ UNCHANGED <<contract_state, markets, prev_order_sequence_number, owner_id, wallets, held>>
        BY DEF InternalWithdraw
  <1>2. /\ IsReceiptBag(receipts) /\ owner_id' \in Accounts /\ held' = held
        /\ wallets' \in [Accounts -> [Tokens -> Nat]] /\ held' \in [Tokens -> Nat]
        BY <1>1 DEF CustodyInv, CustodyTypeOK
  <1>3. IsAccount(accounts[a])
        BY <1>1 DEF CustodyInv, CustodyTypeOK, TypeOK
  <1>4. /\ IsAccount(acc) /\ acc.open = accounts[a].open
        /\ \A t : Balance(acc, t) = Balance(accounts[a], t) - In(token, t, amount)
        BY <1>1, <1>3, WithdrawFacts, WithdrawBalance
  <1>5. acc.storage = accounts[a].storage
        BY <1>3, StorageNow, StorageKept DEF StorageIs
  <1>6. /\ r \in Receipt /\ \A t : HeldFor(r, t) = In(token, t, amount)
    <2>1. "transfer" \in {"transfer", "callback", "notify", "return", "pay"}
          OBVIOUS
    <2>2. r \in Receipt
          BY <2>1, MadeReceipt
    <2>3. \A t : HeldFor(r, t) = In(token, t, amount)
          BY DEF MakeReceipt, HeldFor, In
    <2>. QED  BY <2>2, <2>3
  <1> HIDE DEF acc, r
  <1>7. /\ OnlyAccount(a)
        /\ \A t : WorthOf(accounts', a, t) = Balance(acc, t) + In(Near, t, acc.storage)
        /\ \A t : WorthOf(accounts, a, t)
                    = Balance(accounts[a], t) + In(Near, t, accounts[a].storage)
        /\ \A t : Balance(accounts[a], t) \in Nat /\ accounts[a].storage \in Nat
        BY <1>1, <1>4, AccountSaved
  <1>8. /\ IsReceiptBag(receipts')
        /\ \A t : /\ FlowOf(receipts, t) \in Nat
                  /\ FlowOf(receipts', t) = FlowOf(receipts, t) + HeldFor(r, t)
        BY <1>1, <1>2, <1>6, FlowOfAdd
  <1>9. ASSUME NEW t \in Tokens
        PROVE  /\ FlowOf(receipts', t) \in Nat
               /\ WorthOf(accounts', a, t) + FlowOf(receipts', t) + held[t]
                    = WorthOf(accounts, a, t) + FlowOf(receipts, t) + held'[t]
    <2>1. In(token, t, amount) \in Nat /\ In(Near, t, accounts[a].storage) \in Nat
          BY <1>7 DEF In
    <2>2. WorthOf(accounts', a, t) = Balance(acc, t) + In(Near, t, accounts[a].storage)
          BY <1>5, <1>7
    <2>3. /\ Balance(acc, t) = Balance(accounts[a], t) - In(token, t, amount)
          /\ Balance(accounts[a], t) \in Nat
          BY <1>4, <1>7
    <2>4. WorthOf(accounts, a, t) = Balance(accounts[a], t) + In(Near, t, accounts[a].storage)
          BY <1>7
    <2>5. /\ FlowOf(receipts, t) \in Nat
          /\ FlowOf(receipts', t) = FlowOf(receipts, t) + In(token, t, amount)
          BY <1>6, <1>8
    <2>6. held'[t] = held[t] /\ held[t] \in Nat
          BY <1>2
    <2>. QED  BY <2>1, <2>2, <2>3, <2>4, <2>5, <2>6
  <1>10. AllAccounted(a)
        BY <1>2, <1>8, <1>9 DEF AllAccounted, WellMoved
  <1>. QED  BY <1>7, <1>10, InvWhenAllAccounted
-----------------------------------------------------------------------------
(* Storage deposits, withdrawals and unregistering.                        *)

(* NEAR that is paid out without a callback is owed through its receipt.   *)
LEMMA PayFacts ==
  ASSUME CustodyInv, NEW a \in Accounts, NEW amount \in Nat
  PROVE  /\ IsReceiptBag(Pay(a, amount))
         /\ \A t : /\ FlowOf(receipts, t) \in Nat /\ FlowOf(Pay(a, amount), t) \in Nat
                   /\ FlowOf(Pay(a, amount), t) = FlowOf(receipts, t) + In(Near, t, amount)
PROOF
  <1>1. IsReceiptBag(receipts) /\ Near \in Tokens
        BY CustodyAssumption DEF CustodyInv
  <1>2. \A t : FlowOf(receipts, t) \in Nat
        BY <1>1, FlowIs
  <1>3. CASE amount = 0
    <2>1. Pay(a, amount) = receipts
          BY <1>3 DEF Pay
    <2>2. \A t : FlowOf(receipts, t) = FlowOf(receipts, t) + In(Near, t, amount)
          BY <1>2, <1>3 DEF In
    <2>. QED  BY <1>1, <1>2, <2>1, <2>2
  <1>4. CASE amount # 0
    <2> DEFINE r == MakeReceipt("pay", a, Near, amount, TRUE)
    <2>1. "pay" \in {"transfer", "callback", "notify", "return", "pay"}
          OBVIOUS
    <2>2. r \in Receipt /\ \A t : HeldFor(r, t) = In(Near, t, amount)
      <3>1. amount \in Nat \ {0} /\ Near \in Tokens
            BY <1>1, <1>4
      <3>2. r \in Receipt
            BY <2>1, <3>1, MadeReceipt
      <3>3. \A t : HeldFor(r, t) = In(Near, t, amount)
            BY DEF MakeReceipt, HeldFor, In
      <3>. QED  BY <3>2, <3>3
    <2>3. Pay(a, amount) = Bag!BagAdd(receipts, r)
          BY <1>4 DEF Pay
    <2> HIDE DEF r
    <2>4. /\ IsReceiptBag(Pay(a, amount))
          /\ \A t : FlowOf(Pay(a, amount), t) = FlowOf(receipts, t) + HeldFor(r, t)
          BY <1>1, <2>2, <2>3, FlowOfAdd
    <2>5. \A t : In(Near, t, amount) \in Nat
          BY DEF In
    <2>6. ASSUME NEW t
          PROVE  /\ FlowOf(receipts, t) \in Nat /\ FlowOf(Pay(a, amount), t) \in Nat
                 /\ FlowOf(Pay(a, amount), t) = FlowOf(receipts, t) + In(Near, t, amount)
      <3>1. FlowOf(Pay(a, amount), t) = FlowOf(receipts, t) + In(Near, t, amount)
            BY <2>2, <2>4
      <3>2. FlowOf(receipts, t) \in Nat /\ In(Near, t, amount) \in Nat
            BY <1>2, <2>5
      <3>. QED  BY <3>1, <3>2
    <2>. QED  BY <2>4, <2>6
  <1>. QED  BY <1>3, <1>4

(* The storage an account takes is a natural.                              *)
LEMMA SizeType ==
  ASSUME CustodyInv, NEW a \in DOMAIN accounts
  PROVE  BorshSize(accounts[a]) \in Nat
PROOF
  <1> DEFINE acc == accounts[a]
  <1>1. TypeOK /\ BooksMatchAccounts /\ IsAccount(acc)
        BY DEF CustodyInv, CustodyTypeOK, TypeOK
  <1>2. Cardinality(OpenOrders(acc)) \in Nat
        BY <1>1, OpenOrdersFinite, FS_CardinalityType
  <1>3. Cardinality(DOMAIN acc.balances) \in Nat
    <2>1. DOMAIN acc.balances \subseteq Tokens
          BY <1>1 DEF IsAccount, IsPartialFunction
    <2>. QED  BY <2>1, EntriesAssumption, FS_Subset, FS_CardinalityType
  <1>4. Cardinality(MarketsWithOrders(acc)) \in Nat
    <2>1. MarketsWithOrders(acc) \subseteq Markets
          BY DEF MarketsWithOrders
    <2>. QED  BY <2>1, FinitenessAssumption, FS_Subset, FS_CardinalityType
  <1>5. \A n, k \in Nat : n * k \in Nat /\ n + k \in Nat
        OBVIOUS
  <1>6. AccountBytes \in Nat /\ BalanceBytes \in Nat /\ MarketBytes \in Nat /\ OrderBytes \in Nat
        BY SizeAssumption
  <1> HIDE DEF acc
  <1>7. BorshSize(acc) \in Nat
        BY <1>2, <1>3, <1>4, <1>5, <1>6 DEF BorshSize
  <1>. QED  BY <1>7 DEF acc

(* storage_deposit: what is not kept as a storage balance is paid back.    *)
LEMMA InvWhenStorageDeposited ==
  ASSUME CustodyInv, NEW payer \in Accounts, NEW a \in Accounts, NEW registration_only \in BOOLEAN,
         NEW amount \in Nat, StorageDeposit(payer, a, registration_only, amount)
  PROVE  CustodyInv' /\ StaysClaimed /\ OnlyAccount(a) /\ AllAccounted(a)
         /\ \E kept \in Nat : amount - kept \in Nat /\ receipts' = Pay(payer, amount - kept)
PROOF
  <1> DEFINE registered == a \in DOMAIN accounts
             kept == IF ~ registration_only THEN amount
                     ELSE IF registered THEN 0 ELSE AccountBytes
             acc  == IF registered THEN [accounts[a] EXCEPT !.storage = accounts[a].storage + kept]
                                   ELSE NewAccount(kept)
  <1>1. /\ ~ registered => amount >= AccountBytes
        /\ IsStorageCovered(acc) /\ TakeIn(payer, Near, amount)
        /\ accounts' = [b \in DOMAIN accounts \cup {a} |-> IF b = a THEN acc ELSE accounts[b]]
        /\ receipts' = Pay(payer, amount - kept)
        /\ UNCHANGED <<contract_state, markets, prev_order_sequence_number, owner_id>>
        BY DEF StorageDeposit
  <1>2. /\ CustodyTypeOK /\ AreAccounts(accounts) /\ Near \in Tokens /\ owner_id' \in Accounts
        BY <1>1, CustodyAssumption DEF CustodyInv, CustodyTypeOK, TypeOK, AreAccounts
  <1>3. AccountBytes \in Nat /\ kept \in Nat /\ amount - kept \in Nat
        BY <1>1, SizeAssumption
  <1> HIDE DEF kept
  <1>4. /\ IsAccount(acc)
        /\ acc.open = OpenOf(accounts, a)
        /\ \A t : /\ WorthOf(accounts, a, t) \in Nat
                  /\ Balance(acc, t) + In(Near, t, acc.storage)
                       = WorthOf(accounts, a, t) + In(Near, t, kept)
    <2>1. CASE registered
      <3> DEFINE old == accounts[a]
      <3>1. IsAccount(old)
            BY <1>2, <2>1 DEF AreAccounts
      <3>2. acc = [old EXCEPT !.storage = old.storage + kept]
            BY <2>1
      <3> HIDE DEF acc, old
      <3>3. /\ IsAccount(acc) /\ acc.open = old.open /\ acc.balances = old.balances
            /\ acc.storage = old.storage + kept /\ old.storage \in Nat
            BY <1>3, <3>1, <3>2 DEF IsAccount
      <3>4. \A t : Balance(acc, t) = Balance(old, t) /\ Balance(old, t) \in Nat
            BY <3>1, <3>3, BalanceType DEF Balance
      <3>5. \A t : WorthOf(accounts, a, t) = Balance(old, t) + In(Near, t, old.storage)
            BY <2>1 DEF WorthOf, old
      <3>6. ASSUME NEW t
            PROVE  /\ WorthOf(accounts, a, t) \in Nat
                   /\ Balance(acc, t) + In(Near, t, acc.storage)
                        = WorthOf(accounts, a, t) + In(Near, t, kept)
        <4>1. /\ In(Near, t, acc.storage) = In(Near, t, old.storage) + In(Near, t, kept)
              /\ In(Near, t, old.storage) \in Nat /\ In(Near, t, kept) \in Nat
              BY <1>3, <3>3 DEF In
        <4>2. /\ Balance(acc, t) = Balance(old, t) /\ Balance(old, t) \in Nat
              /\ WorthOf(accounts, a, t) = Balance(old, t) + In(Near, t, old.storage)
              BY <3>4, <3>5
        <4>. QED  BY <4>1, <4>2
      <3>7. OpenOf(accounts, a) = old.open
            BY <2>1 DEF OpenOf, old
      <3>. QED  BY <3>3, <3>6, <3>7
    <2>2. CASE ~ registered
      <3>1. acc = [balances |-> [t \in {} |-> 0], open |-> [m \in Markets |-> {}], storage |-> kept]
            BY <2>2 DEF NewAccount
      <3> HIDE DEF acc
      <3>2. IsAccount(acc)
            BY <1>3, <3>1 DEF IsAccount, IsPartialFunction
      <3>3. acc.open = OpenOf(accounts, a)
            BY <2>2, <3>1 DEF OpenOf
      <3>4. \A t : Balance(acc, t) = 0 /\ acc.storage = kept
            BY <3>1 DEF Balance
      <3>5. \A t : WorthOf(accounts, a, t) = 0
            BY <2>2 DEF WorthOf
      <3>. QED  BY <1>3, <3>2, <3>3, <3>4, <3>5 DEF In
    <2>. QED  BY <2>1, <2>2
  <1> HIDE DEF acc
  <1>5. /\ DOMAIN accounts' = DOMAIN accounts \cup {a} /\ accounts'[a] = acc
        /\ \A b \in DOMAIN accounts \ {a} : accounts'[b] = accounts[b]
        /\ accounts' = [b \in DOMAIN accounts' |-> accounts'[b]]
        BY <1>1
  <1>6. AreAccounts(accounts')
    <2>1. \A b \in DOMAIN accounts' : IsAccount(accounts'[b])
          BY <1>2, <1>4, <1>5 DEF AreAccounts
    <2>. QED  BY <1>2, <1>5, <2>1 DEF AreAccounts
  <1>7. OnlyAccount(a)
    <2>1. OpenOf(accounts', a) = acc.open
          BY <1>5 DEF OpenOf
    <2>2. DOMAIN accounts' \ {a} = DOMAIN accounts \ {a}
          BY <1>5
    <2>. QED  BY <1>1, <1>4, <1>5, <1>6, <2>1, <2>2 DEF OnlyAccount
  <1>8. /\ wallets' \in [Accounts -> [Tokens -> Nat]] /\ held' \in [Tokens -> Nat]
        /\ \A t \in Tokens : held[t] \in Nat /\ held'[t] = held[t] + In(Near, t, amount)
        BY <1>1, <1>2, HeldMoves
  <1>9. /\ IsReceiptBag(receipts')
        /\ \A t : /\ FlowOf(receipts, t) \in Nat /\ FlowOf(receipts', t) \in Nat
                  /\ FlowOf(receipts', t) = FlowOf(receipts, t) + In(Near, t, amount - kept)
        BY <1>1, <1>3, PayFacts
  <1>10. ASSUME NEW t \in Tokens
         PROVE  WorthOf(accounts', a, t) + FlowOf(receipts', t) + held[t]
                  = WorthOf(accounts, a, t) + FlowOf(receipts, t) + held'[t]
    <2>1. WorthOf(accounts', a, t) = WorthOf(accounts, a, t) + In(Near, t, kept)
          BY <1>4, <1>5 DEF WorthOf
    <2>2. WorthOf(accounts, a, t) \in Nat
          BY <1>4
    <2>3. held[t] \in Nat /\ held'[t] = held[t] + In(Near, t, amount)
          BY <1>8
    <2>4. /\ FlowOf(receipts, t) \in Nat
          /\ FlowOf(receipts', t) = FlowOf(receipts, t) + In(Near, t, amount - kept)
          BY <1>9
    <2>5. /\ In(Near, t, kept) \in Nat /\ In(Near, t, amount) \in Nat
          /\ In(Near, t, amount - kept) = In(Near, t, amount) - In(Near, t, kept)
          BY <1>3 DEF In
    <2>. QED  BY <2>1, <2>2, <2>3, <2>4, <2>5
  <1>11. AllAccounted(a)
        BY <1>2, <1>8, <1>9, <1>10 DEF AllAccounted, WellMoved
  <1>. QED  BY <1>1, <1>3, <1>7, <1>11, InvWhenAllAccounted

(* storage_withdraw takes no more than what the account does not use.      *)
LEMMA InvWhenStorageWithdrawn ==
  ASSUME CustodyInv, NEW a \in Accounts, NEW amount \in StorageWithdrawals, StorageWithdraw(a, amount)
  PROVE  CustodyInv' /\ StaysClaimed /\ OnlyAccount(a) /\ AllAccounted(a)
         /\ \E paid \in Nat : receipts' = Pay(a, paid)
PROOF
  <1> DEFINE old   == accounts[a]
             taken == IF amount = {} THEN StorageAvailable(old) ELSE CHOOSE x \in amount : TRUE
             acc   == [old EXCEPT !.storage = old.storage - taken]
  <1>1. /\ a \in DOMAIN accounts /\ IsStorageCovered(old) /\ taken <= StorageAvailable(old)
        /\ accounts' = [accounts EXCEPT ![a].storage = accounts[a].storage - taken]
        /\ receipts' = Pay(a, taken)
        /\ UNCHANGED <<contract_state, markets, prev_order_sequence_number, owner_id, wallets, held>>
        BY DEF StorageWithdraw
  <1>2. /\ owner_id' \in Accounts /\ held' = held
        /\ wallets' \in [Accounts -> [Tokens -> Nat]] /\ held' \in [Tokens -> Nat]
        BY <1>1 DEF CustodyInv, CustodyTypeOK
  <1>3. /\ IsAccount(old) /\ BorshSize(old) \in Nat /\ old.storage \in Nat
        BY <1>1, SizeType DEF CustodyInv, CustodyTypeOK, TypeOK, IsAccount
  <1>4. /\ taken \in Nat /\ old.storage - taken \in Nat
        /\ BorshSize(old) <= old.storage - taken
    <2>1. taken \in Nat
      <3>1. CASE amount = {}
            BY <1>1, <1>3, <3>1 DEF StorageAvailable, IsStorageCovered
      <3>2. CASE amount # {}
        <4>1. amount \subseteq Nat
              BY CustodyAssumption
        <4>2. (CHOOSE x \in amount : TRUE) \in amount
              BY <3>2
        <4>. QED  BY <3>2, <4>1, <4>2
      <3>. QED  BY <3>1, <3>2
    <2>2. taken <= old.storage - BorshSize(old)
          BY <1>1 DEF StorageAvailable
    <2> HIDE DEF taken
    <2>. QED  BY <1>3, <2>1, <2>2
  <1>5. accounts' = [accounts EXCEPT ![a] = acc]
        BY <1>1
  <1> HIDE DEF taken, old
  <1>6. /\ IsAccount(acc) /\ acc.open = old.open /\ acc.balances = old.balances
        /\ acc.storage = old.storage - taken
        BY <1>3, <1>4 DEF IsAccount
  <1> HIDE DEF acc
  <1>7. IsStorageCovered(acc)
    <2>1. BorshSize(acc) = BorshSize(old)
          BY <1>6 DEF BorshSize, MarketsWithOrders, OpenOrders
    <2>. QED  BY <1>4, <1>6, <2>1 DEF IsStorageCovered
  <1>8. /\ OnlyAccount(a)
        /\ \A t : WorthOf(accounts', a, t) = Balance(acc, t) + In(Near, t, acc.storage)
        /\ \A t : WorthOf(accounts, a, t) = Balance(old, t) + In(Near, t, old.storage)
        /\ \A t : Balance(old, t) \in Nat
    <2>1. acc.open = accounts[a].open
          BY <1>6 DEF old
    <2>. QED  BY <1>1, <1>5, <1>6, <1>7, <2>1, AccountSaved DEF old
  <1>9. /\ IsReceiptBag(receipts')
        /\ \A t : /\ FlowOf(receipts, t) \in Nat /\ FlowOf(receipts', t) \in Nat
                  /\ FlowOf(receipts', t) = FlowOf(receipts, t) + In(Near, t, taken)
        BY <1>1, <1>4, PayFacts
  <1>10. ASSUME NEW t \in Tokens
         PROVE  WorthOf(accounts', a, t) + FlowOf(receipts', t) + held[t]
                  = WorthOf(accounts, a, t) + FlowOf(receipts, t) + held'[t]
    <2>1. /\ WorthOf(accounts', a, t) = Balance(old, t) + In(Near, t, acc.storage)
          /\ WorthOf(accounts, a, t) = Balance(old, t) + In(Near, t, old.storage)
          /\ Balance(old, t) \in Nat
          BY <1>6, <1>8 DEF Balance
    <2>2. /\ In(Near, t, old.storage) \in Nat /\ In(Near, t, taken) \in Nat
          /\ In(Near, t, acc.storage) = In(Near, t, old.storage) - In(Near, t, taken)
          BY <1>3, <1>4, <1>6 DEF In
    <2>3. held[t] \in Nat /\ held'[t] = held[t]
          BY <1>2
    <2>4. /\ FlowOf(receipts, t) \in Nat
          /\ FlowOf(receipts', t) = FlowOf(receipts, t) + In(Near, t, taken)
          BY <1>9
    <2>. QED  BY <2>1, <2>2, <2>3, <2>4
  <1>11. AllAccounted(a)
        BY <1>2, <1>9, <1>10 DEF AllAccounted, WellMoved
  <1>. QED  BY <1>1, <1>4, <1>8, <1>11, InvWhenAllAccounted

(* storage_unregister pays out all an empty account has.                   *)
LEMMA InvWhenUnregistered ==
  ASSUME CustodyInv, NEW a \in Accounts, StorageUnregister(a)
  PROVE  CustodyInv' /\ StaysClaimed /\ OnlyAccount(a) /\ AllAccounted(a)
PROOF
  <1> DEFINE old == accounts[a]
  <1>1. /\ a \in DOMAIN accounts /\ IsEmpty(old)
        /\ accounts' = [b \in DOMAIN accounts \ {a} |-> accounts[b]]
        /\ receipts' = Pay(a, old.storage)
        /\ UNCHANGED <<contract_state, markets, prev_order_sequence_number, owner_id, wallets, held>>
        BY DEF StorageUnregister
  <1>2. /\ owner_id' \in Accounts /\ held' = held
        /\ wallets' \in [Accounts -> [Tokens -> Nat]] /\ held' \in [Tokens -> Nat]
        /\ AreAccounts(accounts)
        BY <1>1 DEF CustodyInv, CustodyTypeOK, TypeOK, AreAccounts
  <1>3. IsAccount(old) /\ old.storage \in Nat
        BY <1>1, <1>2 DEF AreAccounts, IsAccount
  <1>4. /\ DOMAIN accounts' = DOMAIN accounts \ {a}
        /\ \A b \in DOMAIN accounts \ {a} : accounts'[b] = accounts[b]
        /\ accounts' = [b \in DOMAIN accounts' |-> accounts'[b]]
        BY <1>1
  <1>5. AreAccounts(accounts')
    <2>1. \A b \in DOMAIN accounts' : IsAccount(accounts'[b])
          BY <1>2, <1>4 DEF AreAccounts
    <2>. QED  BY <1>2, <1>4, <2>1 DEF AreAccounts
  <1>6. old.open = [m \in Markets |-> {}]
    <2>1. old.open \in [Markets -> SUBSET Nat]
          BY <1>3 DEF IsAccount
    <2>2. \A m \in Markets : old.open[m] = {}
          BY <1>1 DEF IsEmpty, MarketsWithOrders
    <2> HIDE DEF old
    <2>. QED  BY <2>1, <2>2
  <1>7. OnlyAccount(a)
    <2>1. OpenOf(accounts', a) = [m \in Markets |-> {}] /\ OpenOf(accounts, a) = old.open
          BY <1>1, <1>4 DEF OpenOf
    <2>. QED  BY <1>1, <1>4, <1>5, <1>6, <2>1 DEF OnlyAccount
  <1>8. /\ IsReceiptBag(receipts')
        /\ \A t : /\ FlowOf(receipts, t) \in Nat /\ FlowOf(receipts', t) \in Nat
                  /\ FlowOf(receipts', t) = FlowOf(receipts, t) + In(Near, t, old.storage)
        BY <1>1, <1>3, PayFacts
  <1>9. ASSUME NEW t \in Tokens
        PROVE  WorthOf(accounts', a, t) + FlowOf(receipts', t) + held[t]
                 = WorthOf(accounts, a, t) + FlowOf(receipts, t) + held'[t]
    <2>1. WorthOf(accounts', a, t) = 0
          BY <1>4 DEF WorthOf
    <2>2. WorthOf(accounts, a, t) = Balance(old, t) + In(Near, t, old.storage)
          BY <1>1 DEF WorthOf
    <2>3. Balance(old, t) = 0
          BY <1>1 DEF IsEmpty, Balance
    <2>4. In(Near, t, old.storage) \in Nat
          BY <1>3 DEF In
    <2>5. held[t] \in Nat /\ held'[t] = held[t]
          BY <1>2
    <2>6. /\ FlowOf(receipts, t) \in Nat
          /\ FlowOf(receipts', t) = FlowOf(receipts, t) + In(Near, t, old.storage)
          BY <1>8
    <2> HIDE DEF old
    <2>. QED  BY <2>1, <2>2, <2>3, <2>4, <2>5, <2>6
  <1>10. AllAccounted(a)
        BY <1>2, <1>8, <1>9 DEF AllAccounted, WellMoved
  <1>. QED  BY <1>7, <1>10, InvWhenAllAccounted

-----------------------------------------------------------------------------
(* The whole system.                                                       *)

(* What users do with their tokens.                                        *)
LEMMA InvWhenMoving ==
  ASSUME CustodyInv, MoveTokens
  PROVE  CustodyInv' /\ StaysClaimed
PROOF
  <1>1. PICK a \in Users :
          \/ \E amount \in Amounts :
               \/ DepositNear(a, amount)
               \/ \E token \in Tokens, msg \in Messages : FtTransferCall(a, token, amount, msg)
               \/ \E token \in Tokens : InternalWithdraw(a, token, amount)
          \/ \E b \in Users, registration_only \in RegistrationOnly, amount \in StorageAmounts :
               StorageDeposit(a, b, registration_only, amount)
          \/ \E amount \in StorageWithdrawals : StorageWithdraw(a, amount)
          \/ StorageUnregister(a)
        BY DEF MoveTokens
  <1>2. /\ Users \subseteq Accounts /\ Amounts \subseteq Nat \ {0} /\ StorageAmounts \subseteq Nat
        /\ RegistrationOnly \subseteq BOOLEAN
        BY CustodyAssumption
  <1>3. ASSUME NEW amount \in Amounts, DepositNear(a, amount)
        PROVE  CustodyInv' /\ StaysClaimed
        BY <1>2, <1>3, InvWhenDeposited
  <1>4. ASSUME NEW amount \in Amounts, NEW token \in Tokens, NEW msg \in Messages,
               FtTransferCall(a, token, amount, msg)
        PROVE  CustodyInv' /\ StaysClaimed
        BY <1>2, <1>4, InvWhenSentIn
  <1>5. ASSUME NEW amount \in Amounts, NEW token \in Tokens, InternalWithdraw(a, token, amount)
        PROVE  CustodyInv' /\ StaysClaimed
        BY <1>2, <1>5, InvWhenWithdrawn
  <1>6. ASSUME NEW b \in Users, NEW registration_only \in RegistrationOnly,
               NEW amount \in StorageAmounts, StorageDeposit(a, b, registration_only, amount)
        PROVE  CustodyInv' /\ StaysClaimed
        BY <1>2, <1>6, InvWhenStorageDeposited
  <1>7. ASSUME NEW amount \in StorageWithdrawals, StorageWithdraw(a, amount)
        PROVE  CustodyInv' /\ StaysClaimed
        BY <1>2, <1>7, InvWhenStorageWithdrawn
  <1>8. ASSUME StorageUnregister(a) PROVE CustodyInv' /\ StaysClaimed
        BY <1>2, <1>8, InvWhenUnregistered
  <1>. QED  BY <1>1, <1>3, <1>4, <1>5, <1>6, <1>7, <1>8

(* A callback that has a failed transfer to refund credits somebody.       *)
RefundCredited ==
  \A r \in Due("callback") :
    ExchangeCallbackPostWithdraw(r) /\ IsRefundDue(r) => CanCredit(RefundTarget(r), r.token, r.amount)

(* What the chain does with receipts.                                      *)
LEMMA InvWhenExecuting ==
  ASSUME CustodyInv, Execute
  PROVE  CustodyInv' /\ (RefundCredited => StaysClaimed)
PROOF
  <1>1. ASSUME NEW r \in Due("callback"), ExchangeCallbackPostWithdraw(r)
        PROVE  CustodyInv' /\ (RefundCredited => StaysClaimed)
        BY <1>1, InvWhenCalledBack DEF RefundCredited
  <1>. QED  BY <1>1, InvWhenNotified, InvWhenDelivered, InvWhenTransferred DEF Execute

(* Moving tokens changes no market.                                        *)
LEMMA MarketsStay ==
  ASSUME MoveTokens \/ Execute
  PROVE  markets' = markets
PROOF
  <1>1. ASSUME MoveTokens PROVE markets' = markets
    <2>1. /\ \A a, amount : DepositNear(a, amount) => markets' = markets
          /\ \A a, token, amount, msg : FtTransferCall(a, token, amount, msg) => markets' = markets
          /\ \A a, token, amount : InternalWithdraw(a, token, amount) => markets' = markets
          BY DEF DepositNear, FtTransferCall, InternalWithdraw, vars
    <2>2. \A a, b, registration_only, amount :
            StorageDeposit(a, b, registration_only, amount) => markets' = markets
          BY DEF StorageDeposit, vars
    <2>3. /\ \A a, amount : StorageWithdraw(a, amount) => markets' = markets
          /\ \A a : StorageUnregister(a) => markets' = markets
          BY DEF StorageWithdraw, StorageUnregister, vars
    <2>. QED  BY <1>1, <2>1, <2>2, <2>3 DEF MoveTokens
  <1>2. Execute => markets' = markets
        BY DEF Execute, FtOnTransfer, Deliver, TransferSucceeds, TransferFails,
               ExchangeCallbackPostWithdraw, vars
  <1>. QED  BY <1>1, <1>2

(* Every step keeps the invariant, and forgets no debt if nothing rounds   *)
(* and refunds find somebody to credit.                                    *)
LEMMA InvInStep ==
  ASSUME CustodyInv, [CustodyNext]_allVars
  PROVE  /\ CustodyInv'
         /\ AlignedBids /\ NoSelfReferral /\ AllEven /\ RefundCredited => StaysClaimed /\ AllEven'
PROOF
  <1>0. markets' = markets /\ AllEven => AllEven'
        BY DEF AllEven
  <1>1. ASSUME Next, UNCHANGED custodyVars
        PROVE  /\ CustodyInv'
               /\ AlignedBids /\ NoSelfReferral /\ AllEven => StaysClaimed /\ AllEven'
        BY <1>1, InvWhenTrading, EvenStays DEF CustodyInv, CustodyTypeOK
  <1>2. CASE MoveTokens
        BY <1>0, <1>2, InvWhenMoving, MarketsStay
  <1>3. CASE Execute
        BY <1>0, <1>3, InvWhenExecuting, MarketsStay
  <1>4. ASSUME UNCHANGED <<vars, wallets, held, receipts>>, owner_id' \in Accounts
        PROVE  CustodyInv' /\ StaysClaimed /\ markets' = markets
    <2>1. /\ UNCHANGED vars /\ held' = held /\ receipts' = receipts /\ markets' = markets
          /\ wallets' \in [Accounts -> [Tokens -> Nat]] /\ held' \in [Tokens -> Nat]
          /\ IsReceiptBag(receipts') /\ IsReceiptBag(receipts)
          BY <1>4 DEF CustodyInv, CustodyTypeOK, IsReceiptBag, vars
    <2>2. ASSUME NEW t \in Tokens
          PROVE  /\ FlowOf(receipts', t) \in Nat
                 /\ FlowOf(receipts', t) + held[t] = FlowOf(receipts, t) + held'[t]
      <3>1. FlowOf(receipts, t) \in Nat /\ held[t] \in Nat
            BY <2>1, FlowIs
      <3>. QED  BY <2>1, <3>1
    <2>. QED  BY <1>4, <2>1, <2>2, InvWhenTokensMove
  <1>5. CASE \E a \in OwnersTried : SetOwner(a)
    <2>1. PICK a \in OwnersTried : SetOwner(a)
          BY <1>5
    <2>. QED  BY <1>0, <1>4, <2>1, CustodyAssumption DEF SetOwner
  <1>6. CASE UNCHANGED allVars
    <2>1. owner_id' \in Accounts
          BY <1>6 DEF allVars, custodyVars, CustodyInv, CustodyTypeOK
    <2>. QED  BY <1>0, <1>4, <1>6, <2>1 DEF allVars, custodyVars
  <1>7. CASE \/ Switch /\ UNCHANGED custodyVars
             \/ \E m \in Markets : NewLimitBuy(m) /\ UNCHANGED custodyVars
             \/ \E m \in Markets : NewLimitSell(m) /\ UNCHANGED custodyVars
             \/ \E m \in Markets : NewMarketOrder(m) /\ UNCHANGED custodyVars
             \/ \E m \in Markets : Cancel(m) /\ UNCHANGED custodyVars
             \/ \E m \in Markets : Admin(m) /\ UNCHANGED custodyVars
    <2>1. Next /\ UNCHANGED custodyVars
          BY <1>7 DEF Next, NewOrder
    <2>. QED  BY <1>1, <2>1
  <1>. QED  BY <1>2, <1>3, <1>5, <1>6, <1>7 DEF CustodyNext

(* The inductive invariant holds in every reachable state.                 *)
LEMMA InvHolds == CustodySpec => []CustodyInv
PROOF
  <1>1. CustodyInit => CustodyInv
        BY InvAtFirst
  <1>2. CustodyInv /\ [CustodyNext]_allVars => CustodyInv'
        BY InvInStep
  <1>. QED  BY <1>1, <1>2, PTL DEF CustodySpec

(* Wallets, custody and accounts hold natural amounts, and receipts are    *)
(* well formed, through all trading, registering and moving of tokens: in  *)
(* particular storage_withdraw and storage_unregister never underflow.     *)
THEOREM CustodyTypeCorrect == CustodySpec => []CustodyTypeOK
PROOF
  <1>1. CustodyInv => CustodyTypeOK
        BY InvImplies
  <1>. QED  BY <1>1, InvHolds, PTL

(* Orders and accounts agree, and every account pays for its storage, also *)
(* when accounts come and go: an account with orders is not unregistered,  *)
(* and one that registers again finds no orders of its former self.        *)
THEOREM CustodyAccountsHold == CustodySpec => [](BooksMatchAccounts /\ AccountsCovered)
PROOF
  <1>1. CustodyInv => BooksMatchAccounts /\ AccountsCovered
        BY InvImplies
  <1>. QED  BY <1>1, InvHolds, PTL

(* Every order can be paid back, also while its owner takes out all of the *)
(* storage balance that is available: storage_withdraw leaves what refunds *)
(* need, and storage_unregister refuses an account with orders.            *)
THEOREM CustodyCancellable == CustodySpec => []AlwaysCancellable
PROOF
  <1>1. CustodyInv => AlwaysCancellable
        BY CoveredIsCancellable DEF CustodyInv, CustodyTypeOK
  <1>. QED  BY <1>1, InvHolds, PTL

(* The exchange is backed: in every token it holds at least what it owes   *)
(* to accounts, to orders, as fees, as storage deposits and for transfers  *)
(* in flight, for every number of users, markets and receipts, whichever   *)
(* transfers fail and in whatever order receipts are executed.             *)
THEOREM BackedHolds == CustodySpec => []Backed
PROOF
  <1>1. CustodyInv => Backed
        BY InvImplies
  <1>. QED  BY <1>1, InvHolds, PTL

(* Nothing is stranded either: what the exchange holds is exactly what it  *)
(* owes, if trading conserves what is owed (ConservedHolds says when) and  *)
(* if a callback that has a failed transfer to refund always finds an      *)
(* account, the sender's or the owner's, that can pay for the storage of   *)
(* the token.  A callback that does not is the only way in which tokens    *)
(* moved in and out are ever lost: not by a refused deposit, a transfer    *)
(* that fails, a sender that unregisters or an owner that hands over.      *)
THEOREM NothingStrandedHolds ==
  ASSUME AlignedBids, NoSelfReferral
  PROVE  CustodySpec /\ [][RefundCredited]_allVars => []NothingStranded
PROOF
  <1> DEFINE Claimed == AllEven /\ \A t \in Tokens : held[t] = Debt(accounts, markets, receipts, t)
  <1>1. CustodyInit => Claimed
    <2> SUFFICES ASSUME CustodyInit PROVE Claimed
        OBVIOUS
    <2>1. AllEven
          BY DEF AllEven, EvenBids, OnSide, CustodyInit, Init, EmptyBook
    <2>. QED  BY <2>1, InvAtFirst
  <1>2. CustodyInv /\ Claimed /\ [CustodyNext]_allVars /\ [RefundCredited]_allVars => Claimed'
    <2>1. ASSUME CustodyInv, Claimed, [CustodyNext]_allVars, RefundCredited PROVE Claimed'
          BY <2>1, InvInStep DEF StaysClaimed
    <2>2. ASSUME Claimed, UNCHANGED allVars PROVE Claimed'
      <3>1. /\ accounts' = accounts /\ markets' = markets /\ receipts' = receipts /\ held' = held
            BY <2>2 DEF allVars, vars, custodyVars
      <3>. QED  BY <2>2, <3>1 DEF AllEven
    <2>. QED  BY <2>1, <2>2
  <1>3. CustodyInv /\ Claimed => NothingStranded
    <2> SUFFICES ASSUME CustodyInv, Claimed, NEW t \in Tokens PROVE Liabilities(t) = held[t]
        BY DEF NothingStranded
    <2>1. TypeOK /\ IsReceiptBag(receipts)
          BY DEF CustodyInv, CustodyTypeOK
    <2>. QED  BY <2>1, LiabilitiesAre
  <1> HIDE DEF Claimed
  <1>. QED  BY <1>1, <1>2, <1>3, InvHolds, PTL DEF CustodySpec
=============================================================================
