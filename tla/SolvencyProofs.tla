-------------------------- MODULE SolvencyProofs ---------------------------
(***************************************************************************)
(* The proof that Exchange never owes more of a token than was deposited,  *)
(* for every number of accounts, markets, tokens, orders, prices, lot      *)
(* sizes and fee rates.  Every step is a balance sheet: what it adds to    *)
(* the accounts, it takes out of the orders and the fees, or rounds away.  *)
(* Then that only takers pay and makers are made whole; and what is true   *)
(* of an order that is settled without an account that pays for it, as     *)
(* swaps are (SettledFromOutside).                                         *)
(***************************************************************************)
EXTENDS ExchangeProofs

-----------------------------------------------------------------------------
(* Balances.                                                               *)

(* An amount of one token, seen as an amount of token t.                   *)
In(token, t, amount) == IF t = token THEN amount ELSE 0

(* Balances are naturals.                                                  *)
LEMMA BalanceType ==
  ASSUME NEW acc, IsAccount(acc), NEW t
  PROVE  Balance(acc, t) \in Nat
BY DEF Balance, IsAccount, IsPartialFunction

(* A deposit adds its amount and touches no other token ...                *)
LEMMA DepositBalance ==
  ASSUME NEW acc, IsAccount(acc), NEW token \in Tokens, NEW amount \in Nat, NEW t
  PROVE  Balance(Deposit(acc, token, amount), t) = Balance(acc, t) + In(token, t, amount)
PROOF
  <1> DEFINE new == [s \in DOMAIN acc.balances \cup {token} |->
                       IF s = token THEN Balance(acc, s) + amount ELSE acc.balances[s]]
  <1>1. acc \in [balances : {acc.balances}, open : [Markets -> SUBSET Nat], storage : Nat]
        BY DEF IsAccount
  <1>2. Deposit(acc, token, amount).balances = new
        BY <1>1 DEF Deposit
  <1>3. Balance(acc, t) \in Nat
        BY BalanceType
  <1>4. Balance(Deposit(acc, token, amount), t) = IF t \in DOMAIN new THEN new[t] ELSE 0
        BY <1>2 DEF Balance
  <1>5. CASE t = token
        BY <1>4, <1>5 DEF In
  <1>6. CASE t # token
        BY <1>3, <1>4, <1>6 DEF In, Balance
  <1>. QED  BY <1>5, <1>6

(* ... and a withdrawal takes it.                                          *)
LEMMA WithdrawBalance ==
  ASSUME NEW acc, IsAccount(acc), NEW token, NEW amount \in Nat,
         CanWithdraw(acc, token, amount), NEW t
  PROVE  Balance(Withdraw(acc, token, amount), t) = Balance(acc, t) - In(token, t, amount)
PROOF
  <1> DEFINE left == DOMAIN acc.balances \
                       (IF acc.balances[token] = amount THEN {token} ELSE {})
             new == [s \in left |-> IF s = token THEN acc.balances[s] - amount
                                                 ELSE acc.balances[s]]
  <1>1. acc \in [balances : {acc.balances}, open : [Markets -> SUBSET Nat], storage : Nat]
        BY DEF IsAccount
  <1>2. Withdraw(acc, token, amount).balances = new
        BY <1>1 DEF Withdraw
  <1>3. Balance(acc, t) \in Nat
        BY BalanceType
  <1>4. Balance(Withdraw(acc, token, amount), t) = IF t \in left THEN new[t] ELSE 0
        BY <1>2 DEF Balance
  <1>5. token \in DOMAIN acc.balances /\ acc.balances[token] \in Nat
        BY DEF CanWithdraw, IsAccount, IsPartialFunction
  <1>6. CASE t = token
    <2>1. Balance(acc, t) = acc.balances[t]
          BY <1>5, <1>6 DEF Balance
    <2>2. CASE acc.balances[token] = amount
          BY <1>4, <1>5, <1>6, <2>1, <2>2 DEF In
    <2>3. CASE acc.balances[token] # amount
      <3>1. t \in left /\ new[t] = acc.balances[t] - amount
            BY <1>5, <1>6, <2>3
      <3>. QED  BY <1>4, <1>6, <2>1, <3>1 DEF In
    <2>. QED  BY <2>2, <2>3
  <1>7. CASE t # token
    <2>1. t \in left <=> t \in DOMAIN acc.balances
          BY <1>7
    <2>2. t \in left => new[t] = acc.balances[t]
          BY <1>7
    <2>3. Balance(Withdraw(acc, token, amount), t) = Balance(acc, t)
          BY <1>4, <2>1, <2>2 DEF Balance
    <2>. QED  BY <1>3, <1>7, <2>3 DEF In
  <1>. QED  BY <1>6, <1>7

(* Listing orders changes no balance.                                      *)
LEMMA ListingBalance ==
  ASSUME NEW acc, IsAccount(acc), NEW m \in Markets, NEW t
  PROVE  /\ \A id : Balance(SaveNewOrderInfo(acc, m, id), t) = Balance(acc, t)
         /\ \A ids : Balance(RemoveOrderInfos(acc, m, ids), t) = Balance(acc, t)
PROOF
  <1>1. acc \in [balances : {acc.balances}, open : [Markets -> SUBSET Nat], storage : Nat]
        BY DEF IsAccount
  <1>2. \A id : SaveNewOrderInfo(acc, m, id).balances = acc.balances
        BY <1>1 DEF SaveNewOrderInfo
  <1>3. \A ids : RemoveOrderInfos(acc, m, ids).balances = acc.balances
        BY <1>1 DEF RemoveOrderInfos
  <1>. QED  BY <1>2, <1>3 DEF Balance
-----------------------------------------------------------------------------
(* Orders.                                                                 *)

(* What x lots of resting order r are worth, in its refund token.          *)
Worth(p, r, x) ==
  IF r.side = "Buy" THEN QuoteValueOfLots(p, x, r.price) ELSE BaseLotsToNative(p, x)

(* Orders are worth natural amounts, and their parts no more than they.    *)
LEMMA WorthFacts ==
  ASSUME NEW p, IsMarketParams(p), NEW r, r.price \in Nat, NEW x \in Nat, NEW y \in Nat
  PROVE  /\ Worth(p, r, x) \in Nat
         /\ Worth(p, r, x) + Worth(p, r, y) <= Worth(p, r, x + y)
PROOF
  <1>1. /\ QuoteValueOfLots(p, x, r.price) \in Nat
        /\ BaseLotsToNative(p, x) \in Nat /\ BaseLotsToNative(p, y) \in Nat
        BY LotsFacts
  <1>2. QuoteValueOfLots(p, x, r.price) + QuoteValueOfLots(p, y, r.price)
          <= QuoteValueOfLots(p, x + y, r.price)
        BY QuoteParts
  <1>3. BaseLotsToNative(p, x) + BaseLotsToNative(p, y) = BaseLotsToNative(p, x + y)
        BY DEF BaseLotsToNative, IsMarketParams
  <1>. QED  BY <1>1, <1>2, <1>3 DEF Worth

(* A lot of base costs a whole amount of quote at this price, in lots, and *)
(* is not free.                                                            *)
IsEven(p, price) ==
  price > 0 /\ (p.base_lot * QuoteLotsToNative(p, price)) % p.base_denomination = 0

(* All bids of a book have such prices.                                    *)
EvenBids(p, book) == \A i \in OnSide(book, "Buy") : IsEven(p, book[i].price)

(* At such a price every lot is worth the same ...                         *)
LEMMA EvenLots ==
  ASSUME NEW p, IsMarketParams(p), NEW price \in Nat, IsEven(p, price)
  PROVE  \E worth \in Nat \ {0} : \A x \in Nat : QuoteValueOfLots(p, x, price) = x * worth
PROOF
  <1> DEFINE c == QuoteLotsToNative(p, price)
             b == p.base_lot
             d == p.base_denomination
             w == (b * c) \div d
  <1>1. b \in Nat /\ d \in Nat \ {0} /\ c \in Nat
        BY LotsFacts DEF IsMarketParams
  <1>2. (b * c) % d = 0
        BY DEF IsEven
  <1>3. \A x : QuoteValueOfLots(p, x, price) = ((x * b) * c) \div d
        BY DEF QuoteValueOfLots, QuoteValue, BaseLotsToNative
  <1> HIDE DEF b, c, d
  <1>4. b * c \in Nat
        BY <1>1, TimesNat
  <1>5. w \in Nat /\ b * c = d * w
    <2> DEFINE z == b * c
    <2>1. z \in Nat /\ z % d = 0
          BY <1>2, <1>4
    <2> HIDE DEF z
    <2>2. z = d * (z \div d) + (z % d) /\ z \div d \in Nat
          BY <1>1, <2>1, DivNat
    <2>3. d * (z \div d) \in Nat
          BY <1>1, <2>2, TimesNat
    <2>. QED  BY <2>1, <2>2, <2>3 DEF z
  <1> HIDE DEF w
  <1>6. ASSUME NEW x \in Nat PROVE QuoteValueOfLots(p, x, price) = x * w
    <2>1. (x * b) * c = x * (b * c)
          BY <1>1
    <2>2. x * (d * w) = d * (x * w)
          BY <1>1, <1>5
    <2>3. x * w \in Nat /\ d * (x * w) \in Nat
          BY <1>1, <1>5, TimesNat
    <2> DEFINE y == x * w
    <2>4. (d * y) \div d = y
      <3> HIDE DEF y
      <3>1. y \in Nat
            BY <2>3 DEF y
      <3>2. d * y \in Nat
            BY <1>1, <3>1, TimesNat
      <3>3. (d * y) \div d \in Nat /\ (d * y) \div d <= y /\ y <= (d * y) \div d
            BY <1>1, <3>1, <3>2, DivNat, DivBound
      <3>. QED  BY <3>1, <3>3
    <2>. QED  BY <1>3, <1>5, <2>1, <2>2, <2>4
  <1>7. w # 0
    <2>1. b \in Nat \ {0} /\ price \in Nat \ {0} /\ p.quote_lot \in Nat \ {0}
          BY DEF IsMarketParams, IsEven, b
    <2>2. \A i, j \in Nat \ {0} : i * j \in Nat \ {0}
          OBVIOUS
    <2>3. c \in Nat \ {0}
          BY <2>1, <2>2 DEF c, QuoteLotsToNative
    <2>4. b * c # 0 /\ d * 0 = 0
          BY <1>1, <2>1, <2>2, <2>3
    <2>. QED  BY <1>5, <2>4
  <1>. QED  BY <1>5, <1>6, <1>7

(* ... so that nothing is lost when an order is filled in parts.           *)
LEMMA EvenWorth ==
  ASSUME NEW p, IsMarketParams(p), NEW r, r.price \in Nat, NEW x \in Nat, NEW y \in Nat,
         r.side = "Buy" => IsEven(p, r.price)
  PROVE  Worth(p, r, x) + Worth(p, r, y) = Worth(p, r, x + y)
PROOF
  <1>1. CASE r.side = "Buy"
    <2>1. PICK w \in Nat : \A z \in Nat : QuoteValueOfLots(p, z, r.price) = z * w
          BY <1>1, EvenLots
    <2>2. x * w + y * w = (x + y) * w
          OBVIOUS
    <2>. QED  BY <1>1, <2>1, <2>2 DEF Worth
  <1>2. CASE r.side # "Buy"
    <2>1. BaseLotsToNative(p, x) + BaseLotsToNative(p, y) = BaseLotsToNative(p, x + y)
          BY DEF BaseLotsToNative, IsMarketParams
    <2>. QED  BY <1>2, <2>1 DEF Worth
  <1>. QED  BY <1>1, <1>2

(* A native limit price that is a whole number of lots, for which a lot of *)
(* base costs a whole amount of quote.                                     *)
IsAligned(p, price) ==
  /\ price % p.quote_lot = 0 /\ price \div p.quote_lot <= U64Max
  /\ (p.base_lot * price) % p.base_denomination = 0

(* The book holds such a price as it is.                                   *)
LEMMA AlignedPrice ==
  ASSUME NEW p, IsMarketParams(p), NEW price \in Nat, IsAligned(p, price)
  PROVE  /\ QuoteLotsToNative(p, QuoteNativeToLots(p, price)) = price
         /\ price # 0 => IsEven(p, QuoteNativeToLots(p, price))
PROOF
  <1> DEFINE q == p.quote_lot
             x == price \div q
  <1>1. q \in Nat \ {0} /\ price % q = 0 /\ x <= U64Max
        BY DEF IsMarketParams, IsAligned
  <1>2. QuoteNativeToLots(p, price) = x % (U64Max + 1)
        BY DEF QuoteNativeToLots, AsU64
  <1>3. \A y : QuoteLotsToNative(p, y) = y * q
        BY DEF QuoteLotsToNative
  <1> HIDE DEF q
  <1>4. x \in Nat /\ price = q * x + (price % q)
        BY <1>1
  <1> HIDE DEF x
  <1>5. x % (U64Max + 1) = x
        BY <1>1, <1>4, U64Assumption
  <1>6. x * q = price
        BY <1>1, <1>4
  <1>7. QuoteLotsToNative(p, QuoteNativeToLots(p, price)) = price
        BY <1>2, <1>3, <1>5, <1>6
  <1>8. QuoteNativeToLots(p, price) \in Nat /\ (price # 0 => QuoteNativeToLots(p, price) # 0)
        BY <1>1, <1>2, <1>4, <1>5, <1>6
  <1>9. price # 0 => QuoteNativeToLots(p, price) > 0
        BY <1>8
  <1>. QED  BY <1>7, <1>9 DEF IsEven, IsAligned

(* What each order of a book would pay back, as an amount of token t, and  *)
(* what all of them would.                                                 *)
Locks(p, book, t) ==
  [i \in DOMAIN book |-> In(RefundToken(p, book[i]), t, Worth(p, book[i], book[i].qty))]

LockedOf(p, book, t) ==
  SumFunction([i \in {i \in DOMAIN book : RefundToken(p, book[i]) = t} |->
                 GetRefundAmount(p, book[i])])

(* LockedOf sums Locks over the book.                                      *)
LEMMA LockedSum ==
  ASSUME NEW p, IsMarketParams(p), NEW n \in Nat, NEW book, IsBook(book, n), NEW t
  PROVE  /\ \A i \in DOMAIN book : Locks(p, book, t)[i] \in Nat
         /\ LockedOf(p, book, t) = SumFunctionOnSet(Locks(p, book, t), DOMAIN book)
         /\ LockedOf(p, book, t) \in Nat
PROOF
  <1> DEFINE mine == {i \in DOMAIN book : RefundToken(p, book[i]) = t}
             f == [i \in mine |-> GetRefundAmount(p, book[i])]
             g == Locks(p, book, t)
  <1>1. \A i \in DOMAIN book : book[i].price \in Nat /\ book[i].qty \in Nat
        BY BookFinite DEF RestingOrder
  <1>2. IsFiniteSet(DOMAIN book) /\ IsFiniteSet(mine) /\ mine \in SUBSET DOMAIN book
        BY BookFinite
  <1>3. \A i \in DOMAIN book : Worth(p, book[i], book[i].qty) \in Nat
        BY <1>1, WorthFacts
  <1>4. \A i \in DOMAIN book : g[i] = In(RefundToken(p, book[i]), t, Worth(p, book[i], book[i].qty))
        BY DEF Locks
  <1>5. \A i \in DOMAIN book : g[i] \in Nat
        BY <1>3, <1>4 DEF In
  <1>6. \A i \in mine : f[i] \in Int /\ g[i] = f[i]
    <2> TAKE i \in mine
    <2>1. i \in DOMAIN book /\ RefundToken(p, book[i]) = t
          OBVIOUS
    <2>2. f[i] = Worth(p, book[i], book[i].qty)
          BY DEF GetRefundAmount, Worth
    <2>. QED  BY <1>3, <1>4, <2>1, <2>2 DEF In
  <1>7. \A i \in DOMAIN book \ mine : g[i] = 0
        BY <1>4 DEF In
  <1>8. LockedOf(p, book, t) = SumFunctionOnSet(f, mine)
        BY DEF LockedOf, SumFunction
  <1> HIDE DEF f, g, mine
  <1>9. SumFunctionOnSet(f, mine) = SumFunctionOnSet(g, DOMAIN book)
        BY <1>2, <1>6, <1>7, SumOfPart
  <1>10. SumFunctionOnSet(g, DOMAIN book) \in Nat
        BY <1>2, <1>5, SumNat
  <1>. QED  BY <1>5, <1>8, <1>9, <1>10 DEF g

(* What the fills take out of the orders of the book.                      *)
Taken(p, book, fills, t) ==
  [i \in DOMAIN fills |-> In(RefundToken(p, book[i]), t, Worth(p, book[i], fills[i]))]

(* The order that stays in the book and what it locks.                     *)
Rest(o, open) ==
  [owner |-> o.owner, side |-> o.side, price |-> CHOOSE l \in o.limit : TRUE, qty |-> open]

(* ... in token t, if any lots stay open.                                  *)
Posted(p, o, open, t) ==
  IF open > 0 THEN In(RefundToken(p, Rest(o, open)), t, Worth(p, Rest(o, open), open)) ELSE 0

(* Placing an order takes at least the worth of its fills out of the book, *)
(* exactly that when no part of a bid rounds, and puts in what it posts.   *)
LEMMA LockedWhenPlaced ==
  ASSUME NEW p, IsMarketParams(p), NEW n \in Nat, NEW book, IsBook(book, n),
         NEW o, IsNewOrder(o), NEW t
  PROVE  LET fills == Matches(p, book, o)
             open  == OpenQty(p, book, o)
         IN  /\ Posted(p, o, open, t) \in Nat
             /\ \A i \in DOMAIN fills : Taken(p, book, fills, t)[i] \in Nat
             /\ LockedOf(p, BookAfter(p, book, o, n + 1), t)
                    + SumFunctionOnSet(Taken(p, book, fills, t), DOMAIN fills)
                  <= LockedOf(p, book, t) + Posted(p, o, open, t)
             /\ EvenBids(p, book) =>
                  LockedOf(p, BookAfter(p, book, o, n + 1), t)
                    + SumFunctionOnSet(Taken(p, book, fills, t), DOMAIN fills)
                      = LockedOf(p, book, t) + Posted(p, o, open, t)
PROOF
  <1> DEFINE fills == Matches(p, book, o)
             open  == OpenQty(p, book, o)
             full  == FullyFilled(book, fills)
             new   == BookAfter(p, book, o, n + 1)
             all   == DOMAIN book \cup {n + 1}
             taken == Taken(p, book, fills, t)
             post  == Posted(p, o, open, t)
             a == [i \in all |-> IF i \in DOMAIN new THEN Locks(p, new, t)[i] ELSE 0]
             b == [i \in all |-> IF i \in DOMAIN fills THEN taken[i] ELSE 0]
             c == [i \in all |-> IF i \in DOMAIN book THEN Locks(p, book, t)[i] ELSE 0]
             d == [i \in all |-> IF i = n + 1 THEN post ELSE 0]
             ab == [i \in all |-> a[i] + b[i]]
             cd == [i \in all |-> c[i] + d[i]]
  <1>1. /\ n + 1 \notin DOMAIN book /\ IsFiniteSet(DOMAIN book)
        /\ \A i \in DOMAIN book : book[i] \in RestingOrder
        BY BookFinite
  <1>2. IsFiniteSet(all)
        BY <1>1, FS_AddElement
  <1>3. /\ DOMAIN fills \subseteq DOMAIN book
        /\ \A i \in DOMAIN fills : fills[i] \in 1 .. book[i].qty
    <2> HIDE DEF a, b, c, d, ab, cd, full, new, taken, post, open
    <2>. QED  BY MatchesFacts
  <1>4. open \in Nat /\ (open > 0 => Rest(o, open) \in RestingOrder)
        BY OpenQtyFacts DEF IsNewOrder, RestingOrder, Rest
  <1>5. IsBook(new, n + 1)
        BY BookAfterFacts
  <1>6. /\ DOMAIN new = (DOMAIN book \ full) \cup (IF open > 0 THEN {n + 1} ELSE {})
        /\ open > 0 => new[n + 1] = Rest(o, open)
        /\ \A i \in DOMAIN book \ full :
             new[i] = IF i \in DOMAIN fills THEN [book[i] EXCEPT !.qty = @ - fills[i]] ELSE book[i]
        BY <1>1 DEF BookAfter, Rest
  <1>7. full = {i \in DOMAIN fills : fills[i] = book[i].qty}
        BY DEF FullyFilled
  <1> HIDE DEF fills, open, full, new
  <1>8. \A i \in DOMAIN book : \A x \in Nat : Worth(p, book[i], x) \in Nat
        BY <1>1, WorthFacts DEF RestingOrder
  <1>9. post \in Nat
    <2>1. CASE open > 0
      <3>1. Rest(o, open).price \in Nat
            BY <1>4, <2>1 DEF RestingOrder
      <3>2. Worth(p, Rest(o, open), open) \in Nat
            BY <1>4, <3>1, WorthFacts
      <3>. QED  BY <3>2 DEF Posted, In
    <2>2. CASE ~ (open > 0)
          BY <2>2 DEF Posted
    <2>. QED  BY <2>1, <2>2
  <1>10. \A i \in DOMAIN fills : /\ taken[i] = In(RefundToken(p, book[i]), t, Worth(p, book[i], fills[i]))
                                 /\ taken[i] \in Nat
    <2> TAKE i \in DOMAIN fills
    <2>1. taken[i] = In(RefundToken(p, book[i]), t, Worth(p, book[i], fills[i]))
          BY DEF Taken
    <2>2. Worth(p, book[i], fills[i]) \in Nat
          BY <1>1, <1>3, <1>8 DEF RestingOrder
    <2>. QED  BY <2>1, <2>2 DEF In
  <1>11. /\ \A i \in DOMAIN book :
              /\ Locks(p, book, t)[i] = In(RefundToken(p, book[i]), t, Worth(p, book[i], book[i].qty))
              /\ Locks(p, book, t)[i] \in Nat
         /\ LockedOf(p, book, t) = SumFunctionOnSet(Locks(p, book, t), DOMAIN book)
         /\ LockedOf(p, book, t) \in Nat
        BY LockedSum DEF Locks
  <1>12. /\ \A i \in DOMAIN new :
              /\ Locks(p, new, t)[i] = In(RefundToken(p, new[i]), t, Worth(p, new[i], new[i].qty))
              /\ Locks(p, new, t)[i] \in Nat
         /\ LockedOf(p, new, t) = SumFunctionOnSet(Locks(p, new, t), DOMAIN new)
         /\ LockedOf(p, new, t) \in Nat
    <2>1. n + 1 \in Nat
          OBVIOUS
    <2>2. /\ \A i \in DOMAIN new : Locks(p, new, t)[i] \in Nat
          /\ LockedOf(p, new, t) = SumFunctionOnSet(Locks(p, new, t), DOMAIN new)
          /\ LockedOf(p, new, t) \in Nat
          BY <1>5, <2>1, LockedSum
    <2>3. \A i \in DOMAIN new :
            Locks(p, new, t)[i] = In(RefundToken(p, new[i]), t, Worth(p, new[i], new[i].qty))
          BY DEF Locks
    <2>. QED  BY <2>2, <2>3
  <1> HIDE DEF taken, post
  <1>13. /\ \A i \in all : a[i] \in Int /\ b[i] \in Int /\ c[i] \in Int /\ d[i] \in Int
         /\ \A i \in all : ab[i] = a[i] + b[i] /\ cd[i] = c[i] + d[i]
         /\ DOMAIN new \in SUBSET all /\ DOMAIN fills \in SUBSET all /\ DOMAIN book \in SUBSET all
        BY <1>3, <1>6, <1>9, <1>10, <1>11, <1>12
  <1>14. \A i \in all :
            /\ a[i] = IF i \in DOMAIN new THEN Locks(p, new, t)[i] ELSE 0
            /\ b[i] = IF i \in DOMAIN fills THEN taken[i] ELSE 0
            /\ c[i] = IF i \in DOMAIN book THEN Locks(p, book, t)[i] ELSE 0
            /\ d[i] = IF i = n + 1 THEN post ELSE 0
        OBVIOUS
  <1> HIDE DEF a, b, c, d, ab, cd
  <1>15. ASSUME NEW i \in all
         PROVE  /\ a[i] + b[i] <= c[i] + d[i]
                /\ EvenBids(p, book) => a[i] + b[i] = c[i] + d[i]
    <2>1. CASE i = n + 1
      <3>1. b[i] = 0 /\ c[i] = 0 /\ d[i] = post
            BY <1>14, <1>1, <1>3, <2>1
      <3>2. CASE open > 0
        <4>1. a[i] = In(RefundToken(p, Rest(o, open)), t, Worth(p, Rest(o, open), Rest(o, open).qty))
              BY <1>14, <1>6, <1>12, <2>1, <3>2
        <4>2. Rest(o, open).qty = open
              BY DEF Rest
        <4>3. a[i] = post
              BY <3>2, <4>1, <4>2 DEF post, Posted
        <4>. QED  BY <1>9, <3>1, <4>3
      <3>3. CASE ~ (open > 0)
        <4>1. a[i] = 0
              BY <1>14, <1>1, <1>6, <2>1, <3>3
        <4>2. post = 0
              BY <3>3 DEF post, Posted
        <4>. QED  BY <3>1, <4>1, <4>2
      <3>. QED  BY <3>2, <3>3
    <2>2. CASE i # n + 1
      <3>1. i \in DOMAIN book /\ d[i] = 0
            BY <1>14, <2>2
      <3> DEFINE r == book[i]
      <3>2. r \in RestingOrder /\ c[i] = In(RefundToken(p, r), t, Worth(p, r, r.qty))
            BY <1>14, <1>1, <1>11, <3>1
      <3>3. CASE i \in full
        <4>1. a[i] = 0 /\ i \in DOMAIN fills /\ fills[i] = r.qty
              BY <1>14, <1>6, <1>7, <2>2, <3>3
        <4>2. b[i] = In(RefundToken(p, r), t, Worth(p, r, r.qty))
              BY <1>14, <1>10, <4>1
        <4>. QED  BY <1>13, <3>1, <3>2, <4>1, <4>2
      <3>4. CASE i \notin full /\ i \notin DOMAIN fills
        <4>1. b[i] = 0 /\ i \in DOMAIN new /\ new[i] = r
              BY <1>14, <1>6, <3>1, <3>4
        <4>2. a[i] = In(RefundToken(p, r), t, Worth(p, r, r.qty))
              BY <1>14, <1>12, <4>1
        <4>. QED  BY <1>13, <3>1, <3>2, <4>1, <4>2
      <3>5. CASE i \notin full /\ i \in DOMAIN fills
        <4> DEFINE x == fills[i]
                   y == r.qty - x
        <4>1. x \in Nat /\ y \in Nat /\ r.qty = y + x /\ r.price \in Nat
              BY <1>3, <3>2, <3>5 DEF RestingOrder
        <4>2. i \in DOMAIN new /\ new[i] = [r EXCEPT !.qty = y]
              BY <1>6, <3>1, <3>5
        <4>3. /\ new[i].qty = y
              /\ RefundToken(p, new[i]) = RefundToken(p, r)
              /\ Worth(p, new[i], y) = Worth(p, r, y)
              BY <3>2, <4>2 DEF RestingOrder, RefundToken, Worth
        <4>4. a[i] = In(RefundToken(p, r), t, Worth(p, r, y))
              BY <1>14, <1>12, <4>2, <4>3
        <4>5. b[i] = In(RefundToken(p, r), t, Worth(p, r, x))
              BY <1>14, <1>10, <3>5
        <4> HIDE DEF x, y, r
        <4>6. /\ Worth(p, r, y) \in Nat /\ Worth(p, r, x) \in Nat
              /\ Worth(p, r, y) + Worth(p, r, x) <= Worth(p, r, r.qty)
              BY <4>1, WorthFacts
        <4>7. a[i] + b[i] <= c[i]
              BY <3>2, <4>4, <4>5, <4>6 DEF In
        <4>8. ASSUME EvenBids(p, book) PROVE a[i] + b[i] = c[i]
          <5>1. r.side = "Buy" => IsEven(p, r.price)
                BY <3>1, <4>8 DEF EvenBids, OnSide, r
          <5>2. Worth(p, r, y) + Worth(p, r, x) = Worth(p, r, r.qty)
                BY <4>1, <5>1, EvenWorth
          <5>. QED  BY <3>2, <4>4, <4>5, <4>6, <5>2 DEF In
        <4>. QED  BY <1>13, <3>1, <4>7, <4>8
      <3>. QED  BY <3>3, <3>4, <3>5
    <2>. QED  BY <2>1, <2>2
  <1>16. LockedOf(p, new, t) = SumFunctionOnSet(a, all)
    <2> DEFINE f == Locks(p, new, t)
    <2>1. \A i \in DOMAIN new : f[i] \in Int /\ a[i] = f[i]
          BY <1>14, <1>12, <1>13
    <2>2. \A i \in all \ DOMAIN new : a[i] = 0
          BY <1>14
    <2> HIDE DEF f, all
    <2>3. SumFunctionOnSet(f, DOMAIN new) = SumFunctionOnSet(a, all)
          BY <1>2, <1>13, <2>1, <2>2, SumOfPart
    <2>. QED  BY <1>12, <2>3 DEF f
  <1>17. LockedOf(p, book, t) = SumFunctionOnSet(c, all)
    <2> DEFINE f == Locks(p, book, t)
    <2>1. \A i \in DOMAIN book : f[i] \in Int /\ c[i] = f[i]
          BY <1>14, <1>11, <1>13
    <2>2. \A i \in all \ DOMAIN book : c[i] = 0
          BY <1>14
    <2> HIDE DEF f, all
    <2>3. SumFunctionOnSet(f, DOMAIN book) = SumFunctionOnSet(c, all)
          BY <1>2, <1>13, <2>1, <2>2, SumOfPart
    <2>. QED  BY <1>11, <2>3 DEF f
  <1>18. SumFunctionOnSet(taken, DOMAIN fills) = SumFunctionOnSet(b, all)
    <2>1. \A i \in DOMAIN fills : taken[i] \in Int /\ b[i] = taken[i]
          BY <1>14, <1>10, <1>13
    <2>2. \A i \in all \ DOMAIN fills : b[i] = 0
          BY <1>14
    <2> HIDE DEF all
    <2>. QED  BY <1>2, <1>13, <2>1, <2>2, SumOfPart
  <1>19. SumFunctionOnSet(d, all) = post
    <2>1. n + 1 \in all /\ d[n + 1] = post /\ \A i \in all \ {n + 1} : d[i] = 0
          BY <1>14
    <2> HIDE DEF all
    <2>2. SumFunctionOnSet(d, all) = d[n + 1]
          BY <1>2, <1>13, <2>1, SumOfOne
    <2>. QED  BY <2>1, <2>2
  <1> HIDE DEF all
  <1>20. SumFunctionOnSet(ab, all) = SumFunctionOnSet(a, all) + SumFunctionOnSet(b, all)
        BY <1>2, <1>13, SumPlus
  <1>21. SumFunctionOnSet(cd, all) = SumFunctionOnSet(c, all) + SumFunctionOnSet(d, all)
        BY <1>2, <1>13, SumPlus
  <1>22. SumFunctionOnSet(ab, all) <= SumFunctionOnSet(cd, all)
    <2>1. \A i \in all : ab[i] \in Int /\ cd[i] \in Int /\ ab[i] <= cd[i]
          BY <1>13, <1>15
    <2>. QED  BY <1>2, <2>1, SumAtMost
  <1>23. LockedOf(p, new, t) + SumFunctionOnSet(taken, DOMAIN fills) <= LockedOf(p, book, t) + post
        BY <1>16, <1>17, <1>18, <1>19, <1>20, <1>21, <1>22
  <1>25. ASSUME EvenBids(p, book)
         PROVE  LockedOf(p, new, t) + SumFunctionOnSet(taken, DOMAIN fills) = LockedOf(p, book, t) + post
    <2>1. \A i \in all : ab[i] \in Int /\ cd[i] \in Int /\ ab[i] = cd[i]
          BY <1>13, <1>15, <1>25
    <2>2. SumFunctionOnSet(ab, all) = SumFunctionOnSet(cd, all)
          BY <1>2, <2>1, SumSame
    <2>. QED  BY <1>16, <1>17, <1>18, <1>19, <1>20, <1>21, <2>2
  <1>24. \A i \in DOMAIN fills : taken[i] \in Nat
        BY <1>10
  <1>. QED  BY <1>9, <1>23, <1>24, <1>25 DEF fills, open, new, taken, post
-----------------------------------------------------------------------------
(* Accounts.                                                               *)

(* What accounts accs hold of token t.                                     *)
HeldBy(accs, t) == SumFunction([a \in DOMAIN accs |-> Balance(accs[a], t)])

(* Summing amounts of one token, seen as amounts of token t.               *)
LEMMA InSum ==
  ASSUME NEW S, IsFiniteSet(S), NEW f, NEW g, NEW token, NEW t,
         \A x \in S : f[x] \in Nat /\ g[x] = In(token, t, f[x])
  PROVE  SumFunctionOnSet(g, S) = In(token, t, SumFunctionOnSet(f, S))
PROOF
  <1>1. CASE t = token
    <2>1. \A x \in S : f[x] \in Int /\ g[x] = f[x]
          BY <1>1 DEF In
    <2>2. SumFunctionOnSet(g, S) = SumFunctionOnSet(f, S)
          BY <2>1, SumSame
    <2>. QED  BY <1>1, <2>2 DEF In
  <1>2. CASE t # token
    <2>1. \A x \in S : g[x] = 0
          BY <1>2 DEF In
    <2>2. SumFunctionOnSet(g, S) = 0
          BY <2>1, SumOfZeros
    <2>. QED  BY <1>2, <2>2 DEF In
  <1>. QED  BY <1>1, <1>2

(* What fill i pays its maker.                                             *)
MakerPay(m, fills, side, i) ==
  IF side = "Buy" THEN QuotePaid(m, fills, i) ELSE BaseLotsToNative(MarketParams[m], fills[i])

(* The token the takers of a side pay their makers in.                     *)
PayToken(m, side) == IF side = "Buy" THEN MarketParams[m].quote ELSE MarketParams[m].base

(* All that fill i credits to its maker, as an amount of token t.          *)
Credits(m, fills, side, t) ==
  [i \in DOMAIN fills |-> In(MarketParams[m].quote, t, RebateOf(m, fills, i))
                           + In(PayToken(m, side), t, MakerPay(m, fills, side, i))]

(* Credits sum to the rebates and the payments, over any part of the fills.*)
LEMMA CreditsSum ==
  ASSUME TypeOK, NEW m \in Markets, NEW fills, AreFills(fills, markets[m].book), NEW side, NEW t,
         NEW S \in SUBSET DOMAIN fills
  PROVE  LET rebates == SumFunction([i \in S |-> RebateOf(m, fills, i)])
             paid    == SumFunction([i \in S |-> MakerPay(m, fills, side, i)])
         IN  /\ rebates \in Nat /\ paid \in Nat
             /\ \A i \in DOMAIN fills : Credits(m, fills, side, t)[i] \in Nat
             /\ SumFunctionOnSet(Credits(m, fills, side, t), S)
                  = In(MarketParams[m].quote, t, rebates) + In(PayToken(m, side), t, paid)
PROOF
  <1> DEFINE q == MarketParams[m].quote
             k == PayToken(m, side)
             f == [i \in S |-> RebateOf(m, fills, i)]
             g == [i \in S |-> MakerPay(m, fills, side, i)]
             u == [i \in S |-> In(q, t, f[i])]
             v == [i \in S |-> In(k, t, g[i])]
             c == Credits(m, fills, side, t)
  <1>1. /\ \A i \in DOMAIN fills : RebateOf(m, fills, i) \in Nat /\ MakerPay(m, fills, side, i) \in Nat
        /\ IsFiniteSet(S)
        BY FillAmounts DEF MakerPay
  <1>2. \A i \in DOMAIN fills :
          /\ c[i] = In(q, t, RebateOf(m, fills, i)) + In(k, t, MakerPay(m, fills, side, i))
          /\ c[i] \in Nat
        BY <1>1 DEF Credits, In
  <1>3. \A i \in S : /\ f[i] = RebateOf(m, fills, i) /\ f[i] \in Nat /\ u[i] = In(q, t, f[i])
                     /\ g[i] = MakerPay(m, fills, side, i) /\ g[i] \in Nat /\ v[i] = In(k, t, g[i])
        BY <1>1
  <1>4. SumFunction(f) = SumFunctionOnSet(f, S) /\ SumFunction(g) = SumFunctionOnSet(g, S)
        BY DEF SumFunction
  <1> HIDE DEF f, g, u, v, c, q, k
  <1>5. \A i \in S : u[i] \in Int /\ v[i] \in Int /\ c[i] = u[i] + v[i]
        BY <1>2, <1>3 DEF In
  <1>6. SumFunctionOnSet(f, S) \in Nat /\ SumFunctionOnSet(g, S) \in Nat
        BY <1>1, <1>3, SumNat
  <1>7. SumFunctionOnSet(u, S) = In(q, t, SumFunctionOnSet(f, S))
        BY <1>1, <1>3, InSum
  <1>8. SumFunctionOnSet(v, S) = In(k, t, SumFunctionOnSet(g, S))
        BY <1>1, <1>3, InSum
  <1>9. SumFunctionOnSet(c, S) = SumFunctionOnSet(u, S) + SumFunctionOnSet(v, S)
        BY <1>1, <1>5, SumPlus
  <1>. QED  BY <1>2, <1>4, <1>6, <1>7, <1>8, <1>9 DEF f, g, c, q, k

(* A maker ends up with exactly what its fills credit.                     *)
LEMMA MakerBalance ==
  ASSUME TypeOK, NEW m \in Markets, NEW fills, AreFills(fills, markets[m].book), NEW side,
         NEW b \in DOMAIN accounts, NEW t
  PROVE  Balance(MakerAccount(m, fills, side, b, DOMAIN fills), t)
           = Balance(accounts[b], t)
              + SumFunctionOnSet(Credits(m, fills, side, t),
                                 {i \in DOMAIN fills : markets[m].book[i].owner = b})
PROOF
  <1> DEFINE p == MarketParams[m]
             own == {i \in DOMAIN fills : markets[m].book[i].owner = b}
             rebates == SumFunction([i \in own |-> RebateOf(m, fills, i)])
             paid == SumFunction([i \in own |-> MakerPay(m, fills, side, i)])
             credited == MakerCredited(m, fills, side, b, DOMAIN fills)
             first == Deposit(accounts[b], p.quote, rebates)
             both == Deposit(first, PayToken(m, side), paid)
             sum == SumFunctionOnSet(Credits(m, fills, side, t), own)
  <1>1. /\ rebates \in Nat /\ paid \in Nat
        /\ sum = In(p.quote, t, rebates) + In(PayToken(m, side), t, paid)
    <2>1. own \in SUBSET DOMAIN fills
          OBVIOUS
    <2> HIDE DEF own
    <2>. QED  BY <2>1, CreditsSum
  <1>2. IsAccount(accounts[b]) /\ Balance(accounts[b], t) \in Nat
        BY BalanceType DEF TypeOK
  <1>3. p.quote \in Tokens /\ PayToken(m, side) \in Tokens
        BY ParamsFacts DEF PayToken
  <1>4. credited = IF own = {} THEN accounts[b] ELSE both
        BY DEF MakerCredited, MakerPay, PayToken
  <1>5. own = {} => sum = 0
        BY SumOfEmpty
  <1>6. Balance(MakerAccount(m, fills, side, b, DOMAIN fills), t) = Balance(credited, t)
    <2>1. IsAccount(credited)
      <3>1. CASE own = {}
            BY <1>2, <1>4, <3>1
      <3>2. CASE own # {}
        <4> HIDE DEF own, rebates, paid, credited, p
        <4>1. IsAccount(first)
              BY <1>1, <1>2, <1>3, DepositFacts
        <4> HIDE DEF first
        <4>2. IsAccount(both)
              BY <1>1, <1>3, <4>1, DepositFacts
        <4>. QED  BY <1>4, <3>2, <4>2
      <3>. QED  BY <3>1, <3>2
    <2>. QED  BY <2>1, ListingBalance DEF MakerAccount
  <1> HIDE DEF own, rebates, paid, credited, p, sum
  <1>7. CASE own = {}
        BY <1>2, <1>4, <1>5, <1>6, <1>7 DEF sum, own
  <1>8. CASE own # {}
    <2>1. IsAccount(first) /\ Balance(first, t) = Balance(accounts[b], t) + In(p.quote, t, rebates)
          BY <1>1, <1>2, <1>3, DepositFacts, DepositBalance
    <2> HIDE DEF first
    <2>2. Balance(both, t) = Balance(first, t) + In(PayToken(m, side), t, paid)
          BY <1>1, <1>3, <2>1, DepositBalance
    <2>3. In(p.quote, t, rebates) \in Nat /\ In(PayToken(m, side), t, paid) \in Nat
          BY <1>1 DEF In
    <2>4. Balance(credited, t) = Balance(accounts[b], t) + sum
          BY <1>1, <1>2, <1>4, <1>8, <2>1, <2>2, <2>3
    <2>. QED  BY <1>6, <2>4 DEF sum, own
  <1>. QED  BY <1>7, <1>8

(* An order names one referrer at most.                                    *)
AtMostOne(referrer) == \A r, s \in referrer : r = s

(* Placing an order credits the makers what their fills pay, the taker     *)
(* what its account was saved with, and the referrer the rest of the fee,  *)
(* unless the taker is the referrer.                                       *)
LEMMA HeldWhenPlaced ==
  ASSUME TypeOK, IsFiniteSet(DOMAIN accounts), NEW m \in Markets,
         NEW o, IsNewOrder(o), o.owner \in DOMAIN accounts,
         NEW referrer, AtMostOne(referrer), NEW taker, IsAccount(taker),
         ExecuteOrder(m, o, referrer, taker), NEW t
  PROVE  LET p      == MarketParams[m]
             fills  == Matches(p, markets[m].book, o)
             fee    == TakerFee(p.taker_rate, QuoteTraded(m, fills))
             rebate == TotalMakerRebate(m, fills)
         IN  \E paid \in Nat :
               /\ fee \in Nat /\ rebate \in Nat
               /\ markets'[m].fees_accrued = markets[m].fees_accrued + fee - rebate - paid
               /\ HeldBy(accounts, t) \in Nat /\ HeldBy(accounts', t) \in Nat
               /\ HeldBy(accounts', t)
                    <= HeldBy(accounts, t)
                        + SumFunctionOnSet(Credits(m, fills, o.side, t), DOMAIN fills)
                        + (Balance(taker, t) - Balance(accounts[o.owner], t))
                        + In(p.quote, t, paid)
               /\ o.owner \notin referrer =>
                    HeldBy(accounts', t)
                      = HeldBy(accounts, t)
                        + SumFunctionOnSet(Credits(m, fills, o.side, t), DOMAIN fills)
                        + (Balance(taker, t) - Balance(accounts[o.owner], t))
                        + In(p.quote, t, paid)
PROOF
  <1> DEFINE p      == MarketParams[m]
             book   == markets[m].book
             fills  == Matches(p, book, o)
             fee    == TakerFee(p.taker_rate, QuoteTraded(m, fills))
             rebate == TotalMakerRebate(m, fills)
             rest   == fee - rebate
             settled == SettleMakerFills(m, fills, o.side)
             credited(r) == Deposit(settled[r], p.quote, rest)
             payees == {r \in referrer : r \in DOMAIN settled /\ IsStorageCovered(credited(r))}
             paid   == IF payees = {} THEN 0 ELSE rest
             ref    == SettleReferrer(settled, p.quote, referrer, rest)
             credits == Credits(m, fills, o.side, t)
             own(b) == {i \in DOMAIN fills : book[i].owner = b}
             gain   == Balance(taker, t) - Balance(accounts[o.owner], t)
             D      == DOMAIN accounts
             new == [b \in D |-> Balance(accounts'[b], t)]
             old == [b \in D |-> Balance(accounts[b], t)]
             mkr == [b \in D |-> SumFunctionOnSet(credits, own(b))]
             tkr == [b \in D |-> IF b = o.owner THEN gain ELSE 0]
             rfr == [b \in D |-> IF b \in payees THEN In(p.quote, t, rest) ELSE 0]
             om  == [b \in D |-> old[b] + mkr[b]]
             tr  == [b \in D |-> tkr[b] + rfr[b]]
             sum == [b \in D |-> om[b] + tr[b]]
  <1>1. /\ MakersCovered(m, fills, o.side) /\ ~ IsSelfTrade(book, o, fills)
        /\ fee >= rebate
        /\ accounts' = [ref.accounts EXCEPT ![o.owner] = taker]
        /\ markets' = [markets EXCEPT
             ![m].book = BookAfter(p, book, o, NextSequence),
             ![m].fees_accrued = @ + fee - rebate - ref.paid]
        BY DEF ExecuteOrder
  <1>2. /\ ref.accounts = [b \in DOMAIN settled |-> IF b \in payees THEN credited(b) ELSE settled[b]]
        /\ ref.paid = paid
        BY DEF SettleReferrer, ReferrerRebate
  <1>3. AreFills(fills, book)
        BY MatchesAreFills
  <1>4. p.quote \in Tokens /\ p.taker_rate \in 0 .. FeeToBpsDivisor
        BY ParamsFacts
  <1>5. markets'[m].fees_accrued = markets[m].fees_accrued + fee - rebate - paid
    <2>1. /\ m \in DOMAIN markets
          /\ markets[m] \in [state : MarketStates, book : {markets[m].book}, fees_accrued : Nat,
                             minimum_bid_bps : BidWindows, maximum_ask_bps : AskWindows]
          BY DEF TypeOK, IsMarket
    <2> HIDE DEF fee, rebate, ref, paid, fills
    <2>. QED  BY <1>1, <1>2, <2>1
  <1>6. \A i \in DOMAIN fills : book[i].owner \in D
        BY <1>1 DEF MakersCovered
  <1>6a. own(o.owner) = {}
        BY <1>1 DEF IsSelfTrade
  <1> HIDE DEF p, fills, book
  <1>7. fee \in Nat /\ rebate \in Nat
    <2>1. QuoteTraded(m, fills) \in Nat /\ rebate \in Nat
          BY <1>3, FillAmounts DEF book
    <2>. QED  BY <1>4, <2>1, FeeBound
  <1> HIDE DEF fee, rebate, ref
  <1>8. rest \in Nat
        BY <1>1, <1>7
  <1>9. paid \in Nat
        BY <1>8
  <1> HIDE DEF rest
  <1>10. /\ IsFiniteSet(DOMAIN fills)
         /\ \A i \in DOMAIN fills : credits[i] \in Int
         /\ \A b : SumFunctionOnSet(credits, own(b)) \in Nat
    <2>1. /\ \A S \in SUBSET DOMAIN fills : IsFiniteSet(S)
          /\ \A i \in DOMAIN fills : credits[i] \in Nat
          BY <1>3, FillAmounts, CreditsSum DEF book
    <2> HIDE DEF credits
    <2>2. \A b : own(b) \in SUBSET DOMAIN fills
          OBVIOUS
    <2> HIDE DEF own
    <2>3. \A b : SumFunctionOnSet(credits, own(b)) \in Nat
          BY <2>1, <2>2, SumNat
    <2>. QED  BY <2>1, <2>3
  <1>11. /\ DOMAIN settled = D
         /\ \A b \in D : /\ IsAccount(settled[b])
                         /\ Balance(settled[b], t) = old[b] + mkr[b]
                         /\ old[b] \in Nat
    <2>1. settled = [b \in D |-> MakerAccount(m, fills, o.side, b, DOMAIN fills)]
          BY DEF SettleMakerFills
    <2>2. \A b \in D : IsAccount(MakerAccount(m, fills, o.side, b, DOMAIN fills))
          BY <1>3, MakerAccountFacts DEF book
    <2>3. \A b \in D : Balance(MakerAccount(m, fills, o.side, b, DOMAIN fills), t)
                           = Balance(accounts[b], t) + SumFunctionOnSet(credits, own(b))
          BY <1>3, MakerBalance DEF book
    <2>4. \A b \in D : Balance(accounts[b], t) \in Nat
          BY BalanceType DEF TypeOK
    <2> HIDE DEF settled, credits, own
    <2>. QED  BY <2>1, <2>2, <2>3, <2>4
  <1>11a. mkr[o.owner] = 0
    <2>1. mkr[o.owner] = SumFunctionOnSet(credits, own(o.owner))
          OBVIOUS
    <2> HIDE DEF mkr, credits, own
    <2>. QED  BY <1>6a, <2>1, SumOfEmpty
  <1> HIDE DEF settled, credits, own
  <1>12. \A b \in D : IsAccount(credited(b)) /\ Balance(credited(b), t) = old[b] + mkr[b] + In(p.quote, t, rest)
        BY <1>4, <1>8, <1>11, DepositFacts, DepositBalance
  <1> HIDE DEF credited
  <1>13. gain \in Int /\ In(p.quote, t, rest) \in Nat /\ Balance(taker, t) \in Nat
         /\ old[o.owner] + gain = Balance(taker, t)
    <2>1. Balance(taker, t) \in Nat /\ Balance(accounts[o.owner], t) \in Nat
          BY BalanceType DEF TypeOK
    <2>. QED  BY <1>8, <2>1 DEF In
  <1> HIDE DEF gain
  <1>14. /\ DOMAIN accounts' = D
         /\ accounts'[o.owner] = taker
         /\ \A b \in D \ {o.owner} : accounts'[b] = IF b \in payees THEN credited(b) ELSE settled[b]
        BY <1>1, <1>2, <1>11
  <1>15. /\ payees \subseteq D /\ payees \subseteq referrer
         /\ \A r, s \in payees : r = s
        BY <1>11 DEF AtMostOne
  <1> HIDE DEF payees
  <1>16. \A b \in D : new[b] \in Nat
    <2>1. \A b \in D : IsAccount(accounts'[b])
          BY <1>11, <1>12, <1>14
    <2>. QED  BY <2>1, BalanceType
  <1>17. \A b \in D : /\ new[b] = Balance(accounts'[b], t)
                      /\ mkr[b] \in Nat /\ mkr[b] = SumFunctionOnSet(credits, own(b))
                      /\ tkr[b] = (IF b = o.owner THEN gain ELSE 0)
                      /\ rfr[b] = (IF b \in payees THEN In(p.quote, t, rest) ELSE 0)
                      /\ om[b] = old[b] + mkr[b] /\ tr[b] = tkr[b] + rfr[b]
                      /\ sum[b] = om[b] + tr[b]
        BY <1>10
  <1>18. HeldBy(accounts, t) = SumFunctionOnSet(old, D) /\ HeldBy(accounts', t) = SumFunctionOnSet(new, D)
        BY <1>14 DEF HeldBy, SumFunction
  <1> HIDE DEF new, old, mkr, tkr, rfr, om, tr, sum
  <1>19. \A b \in D : /\ old[b] \in Int /\ mkr[b] \in Int /\ tkr[b] \in Int /\ rfr[b] \in Int
                      /\ om[b] \in Int /\ tr[b] \in Int /\ sum[b] \in Int /\ new[b] \in Int
        BY <1>11, <1>13, <1>16, <1>17
  <1>20. \A b \in D : new[b] <= sum[b] /\ (o.owner \notin referrer => new[b] = sum[b])
    <2> TAKE b \in D
    <2>1. sum[b] = old[b] + mkr[b] + tkr[b] + rfr[b] /\ mkr[b] \in Nat /\ rfr[b] \in Nat
          BY <1>13, <1>17, <1>19
    <2>2. CASE b = o.owner
      <3>1. new[b] = Balance(taker, t) /\ tkr[b] = gain /\ mkr[b] = 0
            BY <1>11a, <1>14, <1>17, <2>2
      <3>2. o.owner \notin referrer => rfr[b] = 0
            BY <1>15, <1>17, <2>2
      <3>. QED  BY <1>13, <1>19, <2>1, <2>2, <3>1, <3>2
    <2>3. CASE b # o.owner
      <3>1. tkr[b] = 0
            BY <1>17, <2>3
      <3>2. new[b] = old[b] + mkr[b] + rfr[b]
        <4>1. CASE b \in payees
              BY <1>12, <1>14, <1>17, <2>3, <4>1
        <4>2. CASE b \notin payees
              BY <1>11, <1>14, <1>17, <1>19, <2>3, <4>2
        <4>. QED  BY <4>1, <4>2
      <3>. QED  BY <1>19, <2>1, <3>1, <3>2
    <2>. QED  BY <2>2, <2>3
  <1>21. SumFunctionOnSet(mkr, D) = SumFunctionOnSet(credits, DOMAIN fills)
    <2> DEFINE w == [i \in DOMAIN fills |-> book[i].owner]
               C == [b \in D |-> own(b)]
    <2>1. \A i \in DOMAIN fills : w[i] \in D
          BY <1>6
    <2>2. \A b \in D : /\ C[b] \in SUBSET DOMAIN fills
                       /\ \A i \in DOMAIN fills : i \in C[b] <=> w[i] = b
          BY DEF own
    <2>3. \A b \in D : mkr[b] = SumFunctionOnSet(credits, C[b])
          BY <1>17
    <2>4. IsFiniteSet(DOMAIN fills) /\ \A i \in DOMAIN fills : credits[i] \in Int
          BY <1>10
    <2>5. IsFiniteSet(D)
          OBVIOUS
    <2> HIDE DEF w, C, D
    <2>. QED  BY <2>1, <2>2, <2>3, <2>4, <2>5, SumByClass
  <1>22. SumFunctionOnSet(tkr, D) = gain
    <2>1. tkr[o.owner] = gain /\ tkr[o.owner] \in Int /\ \A b \in D \ {o.owner} : tkr[b] = 0
          BY <1>13, <1>17
    <2>2. SumFunctionOnSet(tkr, D) = tkr[o.owner]
          BY <2>1, SumOfOne
    <2>. QED  BY <2>1, <2>2
  <1>23. SumFunctionOnSet(rfr, D) = In(p.quote, t, paid)
    <2>1. CASE payees = {}
      <3>1. SumFunctionOnSet(rfr, D) = 0
        <4>1. \A b \in D : rfr[b] = 0
              BY <1>17, <2>1
        <4>. QED  BY <4>1, SumOfZeros
      <3>. QED  BY <2>1, <3>1 DEF In
    <2>2. CASE payees # {}
      <3>1. PICK r \in payees : TRUE
            BY <2>2
      <3>2. /\ r \in D /\ rfr[r] = In(p.quote, t, rest) /\ rfr[r] \in Int
            /\ \A b \in D \ {r} : rfr[b] = 0
            BY <1>13, <1>15, <1>17, <3>1
      <3>3. SumFunctionOnSet(rfr, D) = rfr[r]
            BY <3>2, SumOfOne
      <3>. QED  BY <2>2, <3>2, <3>3
    <2>. QED  BY <2>1, <2>2
  <1>24. SumFunctionOnSet(om, D) = SumFunctionOnSet(old, D) + SumFunctionOnSet(mkr, D)
        BY <1>17, <1>19, SumPlus
  <1>25. SumFunctionOnSet(tr, D) = SumFunctionOnSet(tkr, D) + SumFunctionOnSet(rfr, D)
        BY <1>17, <1>19, SumPlus
  <1>26. SumFunctionOnSet(sum, D) = SumFunctionOnSet(om, D) + SumFunctionOnSet(tr, D)
        BY <1>17, <1>19, SumPlus
  <1>27. SumFunctionOnSet(new, D) <= SumFunctionOnSet(sum, D)
        BY <1>19, <1>20, SumAtMost
  <1>28. SumFunctionOnSet(old, D) \in Nat /\ SumFunctionOnSet(new, D) \in Nat
        BY <1>11, <1>16, SumNat
  <1>29. SumFunctionOnSet(credits, DOMAIN fills) \in Int
        BY <1>10, SumType
  <1>30. In(p.quote, t, paid) \in Int
        BY <1>9 DEF In
  <1>31. HeldBy(accounts', t) <= HeldBy(accounts, t) + SumFunctionOnSet(credits, DOMAIN fills)
                                  + gain + In(p.quote, t, paid)
        BY <1>13, <1>18, <1>21, <1>22, <1>23, <1>24, <1>25, <1>26, <1>27, <1>28, <1>29, <1>30
  <1>32. ASSUME o.owner \notin referrer
         PROVE  HeldBy(accounts', t) = HeldBy(accounts, t) + SumFunctionOnSet(credits, DOMAIN fills)
                                         + gain + In(p.quote, t, paid)
    <2>1. \A b \in D : sum[b] \in Int /\ new[b] = sum[b]
          BY <1>19, <1>20, <1>32
    <2> HIDE DEF D
    <2>2. SumFunctionOnSet(new, D) = SumFunctionOnSet(sum, D)
          BY <2>1, SumSame DEF D
    <2>. QED  BY <1>13, <1>18, <1>21, <1>22, <1>23, <1>24, <1>25, <1>26, <1>28, <1>29, <1>30, <2>2
  <1> HIDE DEF paid
  <1>. QED  BY <1>5, <1>7, <1>9, <1>18, <1>28, <1>31, <1>32 DEF p, book, fills, fee, rebate, gain, credits

(* An order only matches orders of the other side.                         *)
LEMMA MatchesSides ==
  ASSUME NEW p, NEW n \in Nat, NEW book, IsBook(book, n), NEW o
  PROVE  \A i \in DOMAIN Matches(p, book, o) : i \in DOMAIN book /\ book[i].side # o.side
PROOF
  <1>1. LET fills == Matches(p, book, o)
        IN  /\ DOMAIN fills \subseteq DOMAIN book
            /\ fills = [i \in DOMAIN fills |-> fills[i]]
            /\ \A i \in DOMAIN fills : /\ fills[i] \in 1 .. book[i].qty
                                       /\ book[i].side # o.side
        BY MatchesFacts
  <1>. QED  BY <1>1
(* What the fills of a new order take out of the orders of the market, and *)
(* what they credit to the makers, each summed over all the fills.         *)
LEMMA FillSums ==
  ASSUME TypeOK, NEW m \in Markets, NEW o, IsNewOrder(o), NEW t
  PROVE  LET p      == MarketParams[m]
             fills  == Matches(p, markets[m].book, o)
             base   == BaseTraded(m, fills)
             traded == QuoteTraded(m, fills)
         IN  /\ base \in Nat /\ traded \in Nat /\ TotalMakerRebate(m, fills) \in Nat
             /\ SumFunctionOnSet(Taken(p, markets[m].book, fills, t), DOMAIN fills)
                  = IF o.side = "Buy" THEN In(p.base, t, base) ELSE In(p.quote, t, traded)
             /\ SumFunctionOnSet(Credits(m, fills, o.side, t), DOMAIN fills)
                  = In(p.quote, t, TotalMakerRebate(m, fills))
                      + IF o.side = "Buy" THEN In(p.quote, t, traded) ELSE In(p.base, t, base)
PROOF
  <1> DEFINE p     == MarketParams[m]
             book  == markets[m].book
             fills == Matches(p, book, o)
             D     == DOMAIN fills
             f == [i \in D |-> BaseLotsToNative(p, fills[i])]
             g == [i \in D |-> QuotePaid(m, fills, i)]
             taken == Taken(p, book, fills, t)
  <1>1. IsBook(book, prev_order_sequence_number) /\ prev_order_sequence_number \in Nat
        BY DEF TypeOK, IsMarket, IsBook
  <1>2. AreFills(fills, book)
        BY MatchesAreFills
  <1>3. \A i \in D : i \in DOMAIN book /\ book[i] \in RestingOrder /\ book[i].side # o.side
    <2>1. \A i \in D : i \in DOMAIN book /\ book[i].side # o.side
          BY <1>1, MatchesSides
    <2>2. \A i \in DOMAIN book : book[i] \in RestingOrder
          BY <1>1, BookFinite
    <2>. QED  BY <2>1, <2>2
  <1>4. /\ BaseTraded(m, fills) = SumFunctionOnSet(f, D)
        /\ QuoteTraded(m, fills) = SumFunctionOnSet(g, D)
        BY DEF BaseTraded, QuoteTraded, SumFunction
  <1> HIDE DEF fills
  <1>5. /\ \A i \in D : QuotePaid(m, fills, i) \in Nat /\ BaseLotsToNative(p, fills[i]) \in Nat
        /\ IsFiniteSet(D)
        /\ BaseTraded(m, fills) \in Nat /\ QuoteTraded(m, fills) \in Nat
        /\ TotalMakerRebate(m, fills) \in Nat
        BY <1>2, FillAmounts
  <1>6. SumFunctionOnSet(taken, D)
          = IF o.side = "Buy" THEN In(p.base, t, BaseTraded(m, fills))
                              ELSE In(p.quote, t, QuoteTraded(m, fills))
    <2>1. CASE o.side = "Buy"
      <3>1. \A i \in D : f[i] \in Nat /\ taken[i] = In(p.base, t, f[i])
        <4> TAKE i \in D
        <4>1. book[i].side # "Buy"
              BY <1>3, <2>1
        <4>. QED  BY <1>5, <4>1 DEF Taken, RefundToken, Worth
      <3> HIDE DEF f, taken, D
      <3>2. SumFunctionOnSet(taken, D) = In(p.base, t, SumFunctionOnSet(f, D))
            BY <1>5, <3>1, InSum
      <3>. QED  BY <1>4, <2>1, <3>2
    <2>2. CASE o.side # "Buy"
      <3>1. \A i \in D : g[i] \in Nat /\ taken[i] = In(p.quote, t, g[i])
        <4> TAKE i \in D
        <4>1. book[i].side = "Buy"
              BY <1>3, <2>2 DEF RestingOrder, Sides, IsNewOrder
        <4>. QED  BY <1>5, <4>1 DEF Taken, RefundToken, Worth, QuotePaid
      <3> HIDE DEF g, taken, D
      <3>2. SumFunctionOnSet(taken, D) = In(p.quote, t, SumFunctionOnSet(g, D))
            BY <1>5, <3>1, InSum
      <3>. QED  BY <1>4, <2>2, <3>2
    <2>. QED  BY <2>1, <2>2
  <1>7. SumFunctionOnSet(Credits(m, fills, o.side, t), D)
          = In(p.quote, t, TotalMakerRebate(m, fills))
              + IF o.side = "Buy" THEN In(p.quote, t, QuoteTraded(m, fills))
                                  ELSE In(p.base, t, BaseTraded(m, fills))
    <2> DEFINE paid == SumFunction([i \in D |-> MakerPay(m, fills, o.side, i)])
    <2>1. D \in SUBSET DOMAIN fills
          OBVIOUS
    <2>2. SumFunctionOnSet(Credits(m, fills, o.side, t), D)
            = In(p.quote, t, SumFunction([i \in D |-> RebateOf(m, fills, i)]))
               + In(PayToken(m, o.side), t, paid)
      <3> HIDE DEF D
      <3>. QED  BY <1>2, <2>1, CreditsSum
    <2>3. SumFunction([i \in D |-> RebateOf(m, fills, i)]) = TotalMakerRebate(m, fills)
          BY DEF TotalMakerRebate
    <2>4. paid = IF o.side = "Buy" THEN QuoteTraded(m, fills) ELSE BaseTraded(m, fills)
      <3>1. CASE o.side = "Buy"
        <4>1. paid = SumFunction(g)
              BY <3>1 DEF MakerPay
        <4>. QED  BY <3>1, <4>1 DEF QuoteTraded
      <3>2. CASE o.side # "Buy"
        <4>1. paid = SumFunction(f)
              BY <3>2 DEF MakerPay
        <4>. QED  BY <3>2, <4>1 DEF BaseTraded
      <3>. QED  BY <3>1, <3>2
    <2> HIDE DEF paid, D
    <2>. QED  BY <2>2, <2>3, <2>4 DEF PayToken, p
  <1>. QED  BY <1>5, <1>6, <1>7 DEF fills, p, book

(* What market m owes in token t, if market is its state.                  *)
DueOf(m, market, t) ==
  LockedOf(MarketParams[m], market.book, t) + In(MarketParams[m].quote, t, market.fees_accrued)

(* Only market m changes, and what the accounts gain it no longer owes.    *)
Settled(m, t) ==
  /\ HeldBy(accounts, t) \in Nat /\ HeldBy(accounts', t) \in Nat
  /\ DueOf(m, markets[m], t) \in Nat /\ DueOf(m, markets'[m], t) \in Nat
  /\ HeldBy(accounts', t) + DueOf(m, markets'[m], t) <= HeldBy(accounts, t) + DueOf(m, markets[m], t)
  /\ \A k \in Markets \ {m} : markets'[k] = markets[k]

(* ... to the unit.                                                        *)
SettledExactly(m, t) ==
  HeldBy(accounts', t) + DueOf(m, markets'[m], t) = HeldBy(accounts, t) + DueOf(m, markets[m], t)

(* What the taker of order o, saved as taker, has left, what its order     *)
(* posts, and what it paid for what it bought and as fee ...               *)
TakerSpends(m, o, taker, t) ==
  LET p      == MarketParams[m]
      fills  == Matches(p, markets[m].book, o)
      traded == QuoteTraded(m, fills)
  IN  Balance(taker, t) + Posted(p, o, OpenQty(p, markets[m].book, o), t)
        + IF o.side = "Buy" THEN In(p.quote, t, traded + TakerFee(p.taker_rate, traded))
                            ELSE In(p.base, t, BaseTraded(m, fills))

(* ... comes from what it had and what it bought.                          *)
TakerHad(m, o, t) ==
  LET p      == MarketParams[m]
      fills  == Matches(p, markets[m].book, o)
      traded == QuoteTraded(m, fills)
  IN  Balance(accounts[o.owner], t)
        + IF o.side = "Buy" THEN In(p.base, t, BaseTraded(m, fills))
                            ELSE In(p.quote, t, traded - TakerFee(p.taker_rate, traded))

(* If the taker pays, placing the order creates nothing; if it pays that   *)
(* exactly, bids do not round and it does not refer itself, nothing is     *)
(* lost either.                                                            *)
LEMMA PlacedSettled ==
  ASSUME TypeOK, IsFiniteSet(DOMAIN accounts), NEW m \in Markets,
         NEW o, IsNewOrder(o), o.owner \in DOMAIN accounts,
         NEW referrer, AtMostOne(referrer), NEW taker, IsAccount(taker),
         ExecuteOrder(m, o, referrer, taker), NEW t,
         TakerSpends(m, o, taker, t) <= TakerHad(m, o, t)
  PROVE  /\ Settled(m, t)
         /\ EvenBids(MarketParams[m], markets[m].book) /\ o.owner \notin referrer
              /\ TakerSpends(m, o, taker, t) = TakerHad(m, o, t)
                => SettledExactly(m, t)
PROOF
  <1> DEFINE n      == prev_order_sequence_number
             p      == MarketParams[m]
             book   == markets[m].book
             fills  == Matches(p, book, o)
             open   == OpenQty(p, book, o)
             base   == BaseTraded(m, fills)
             traded == QuoteTraded(m, fills)
             fee    == TakerFee(p.taker_rate, traded)
             rebate == TotalMakerRebate(m, fills)
             taken  == SumFunctionOnSet(Taken(p, book, fills, t), DOMAIN fills)
             credits == SumFunctionOnSet(Credits(m, fills, o.side, t), DOMAIN fills)
             post   == Posted(p, o, open, t)
             new    == Balance(taker, t)
             old    == Balance(accounts[o.owner], t)
             fees   == markets[m].fees_accrued
             after  == BookAfter(p, book, o, NextSequence)
             locked == LockedOf(p, book, t)
             kept   == LockedOf(p, after, t)
             held   == HeldBy(accounts, t)
  <1>1. /\ IsBook(book, n) /\ n \in Nat /\ NextSequence = n + 1
        /\ IsMarketParams(p)
        /\ fees \in Nat
        BY ParamsFacts DEF TypeOK, IsMarket, IsBook, NextSequence
  <1>2. PICK paid \in Nat :
          /\ fee \in Nat /\ rebate \in Nat
          /\ markets'[m].fees_accrued = fees + fee - rebate - paid
          /\ held \in Nat /\ HeldBy(accounts', t) \in Nat
          /\ HeldBy(accounts', t) <= held + credits + (new - old) + In(p.quote, t, paid)
          /\ o.owner \notin referrer =>
               HeldBy(accounts', t) = held + credits + (new - old) + In(p.quote, t, paid)
        BY HeldWhenPlaced
  <1>3. /\ base \in Nat /\ traded \in Nat
        /\ taken = IF o.side = "Buy" THEN In(p.base, t, base) ELSE In(p.quote, t, traded)
        /\ credits = In(p.quote, t, rebate)
                       + IF o.side = "Buy" THEN In(p.quote, t, traded) ELSE In(p.base, t, base)
        BY FillSums
  <1>4. /\ post \in Nat
        /\ kept + taken <= locked + post
        /\ EvenBids(p, book) => kept + taken = locked + post
    <2> HIDE DEF p, book
    <2>. QED  BY <1>1, LockedWhenPlaced
  <1>5. locked \in Nat /\ kept \in Nat
    <2>1. IsBook(after, n + 1) /\ n + 1 \in Nat
      <3>1. IsBook(BookAfter(p, book, o, n + 1), n + 1)
        <4> HIDE DEF p, book
        <4>. QED  BY <1>1, BookAfterFacts
      <3>. QED  BY <1>1, <3>1
    <2> HIDE DEF p, book, after
    <2>. QED  BY <1>1, <2>1, LockedSum
  <1>6. /\ TypeOK' /\ markets'[m].book = after
        /\ \A k \in Markets \ {m} : markets'[k] = markets[k]
    <2>1. TypeOK' /\ markets'[m].book = after
          BY ExecuteOrderFacts DEF OrderPlaced
    <2>2. \A k \in Markets \ {m} : markets'[k] = markets[k]
          BY DEF ExecuteOrder, TypeOK
    <2>. QED  BY <2>1, <2>2
  <1>7. markets'[m].fees_accrued \in Nat
        BY <1>6 DEF TypeOK, IsMarket
  <1>8. new \in Nat /\ old \in Nat
        BY BalanceType DEF TypeOK
  <1>9. /\ TakerSpends(m, o, taker, t) = new + post + IF o.side = "Buy" THEN In(p.quote, t, traded + fee)
                                                                   ELSE In(p.base, t, base)
        /\ TakerHad(m, o, t) = old + IF o.side = "Buy" THEN In(p.base, t, base)
                                                       ELSE In(p.quote, t, traded - fee)
        BY DEF TakerSpends, TakerHad
  <1>10. /\ DueOf(m, markets[m], t) = locked + In(p.quote, t, fees)
         /\ DueOf(m, markets'[m], t) = kept + In(p.quote, t, markets'[m].fees_accrued)
        BY <1>6 DEF DueOf
  <1> DEFINE fees2 == markets'[m].fees_accrued
             held2 == HeldBy(accounts', t)
  <1> HIDE DEF fees, fees2, held, held2, locked, kept, taken, credits, post, new, old, fee, rebate,
               base, traded, p
  <1> DEFINE exact == /\ EvenBids(p, book) /\ o.owner \notin referrer
                      /\ TakerSpends(m, o, taker, t) = TakerHad(m, o, t)
  <1>11. /\ held2 + (kept + In(p.quote, t, fees2)) <= held + (locked + In(p.quote, t, fees))
         /\ exact => held2 + (kept + In(p.quote, t, fees2)) = held + (locked + In(p.quote, t, fees))
    <2>1. fees2 = fees + fee - rebate - paid /\ fees2 \in Nat /\ fees \in Nat
          BY <1>1, <1>2, <1>7 DEF fees2
    <2>2. held2 \in Nat /\ held \in Nat
          /\ held2 <= held + credits + (new - old) + In(p.quote, t, paid)
          BY <1>2 DEF held2
    <2>3. /\ exact => kept + taken = locked + post
          /\ exact => held2 = held + credits + (new - old) + In(p.quote, t, paid)
          BY <1>2, <1>4 DEF held2, p
    <2> DEFINE spends == TakerSpends(m, o, taker, t)
               had    == TakerHad(m, o, t)
    <2>4. spends <= had /\ (exact => spends = had)
          OBVIOUS
    <2>5. /\ spends = new + post + IF o.side = "Buy" THEN In(p.quote, t, traded + fee)
                                                     ELSE In(p.base, t, base)
          /\ had = old + IF o.side = "Buy" THEN In(p.base, t, base)
                                           ELSE In(p.quote, t, traded - fee)
          BY <1>9 DEF spends, had
    <2> HIDE DEF exact, spends, had
    <2>6. CASE t = p.quote
      <3>1. CASE o.side = "Buy"
            BY <1>2, <1>3, <1>4, <1>5, <1>8, <2>1, <2>2, <2>3, <2>4, <2>5, <2>6, <3>1 DEF In
      <3>2. CASE o.side # "Buy"
            BY <1>2, <1>3, <1>4, <1>5, <1>8, <2>1, <2>2, <2>3, <2>4, <2>5, <2>6, <3>2 DEF In
      <3>. QED  BY <3>1, <3>2
    <2>7. CASE t # p.quote
      <3>1. CASE o.side = "Buy"
            BY <1>2, <1>3, <1>4, <1>5, <1>8, <2>1, <2>2, <2>3, <2>4, <2>5, <2>7, <3>1 DEF In
      <3>2. CASE o.side # "Buy"
            BY <1>2, <1>3, <1>4, <1>5, <1>8, <2>1, <2>2, <2>3, <2>4, <2>5, <2>7, <3>2 DEF In
      <3>. QED  BY <3>1, <3>2
    <2>. QED  BY <2>6, <2>7
  <1>12. locked + In(p.quote, t, fees) \in Nat /\ kept + In(p.quote, t, fees2) \in Nat
        BY <1>1, <1>5, <1>7 DEF In, fees2, fees
  <1>. QED  BY <1>2, <1>6, <1>10, <1>11, <1>12 DEF Settled, SettledExactly, held, held2, fees, fees2, p

-----------------------------------------------------------------------------
(* Placing orders.                                                         *)

(* The balances of an account that is credited, then debited.              *)
LEMMA TakerBalance ==
  ASSUME TypeOK, NEW m \in Markets, NEW acc, IsAccount(acc), NEW x \in Tokens, NEW y \in Tokens,
         NEW gained \in Nat, NEW debit \in Nat,
         CanWithdraw(Deposit(acc, x, gained), y, debit), NEW open \in Nat, NEW t
  PROVE  LET taker == WithPostedOrder(Withdraw(Deposit(acc, x, gained), y, debit), m, open)
         IN  /\ IsAccount(taker)
             /\ Balance(taker, t) = Balance(acc, t) + In(x, t, gained) - In(y, t, debit)
PROOF
  <1> DEFINE credited == Deposit(acc, x, gained)
             debited  == Withdraw(credited, y, debit)
             taker    == WithPostedOrder(debited, m, open)
  <1>0. Balance(acc, t) \in Nat /\ In(x, t, gained) \in Nat /\ In(y, t, debit) \in Nat
        BY BalanceType DEF In
  <1>1. IsAccount(credited) /\ Balance(credited, t) = Balance(acc, t) + In(x, t, gained)
        BY DepositFacts, DepositBalance
  <1> HIDE DEF credited
  <1>2. IsAccount(debited) /\ Balance(debited, t) = Balance(credited, t) - In(y, t, debit)
        BY <1>1, WithdrawFacts, WithdrawBalance DEF credited
  <1> HIDE DEF debited
  <1>3. IsAccount(taker) /\ Balance(taker, t) = Balance(debited, t)
    <2>1. IsAccount(taker)
          BY <1>2, WithPostedOrderFacts
    <2>. QED  BY <1>2, <2>1, ListingBalance DEF WithPostedOrder
  <1> HIDE DEF taker
  <1>4. Balance(taker, t) = Balance(acc, t) + In(x, t, gained) - In(y, t, debit)
        BY <1>0, <1>1, <1>2, <1>3
  <1>. QED  BY <1>3, <1>4 DEF credited, debited, taker

(* Every price a bid may name is aligned in every market ...               *)
AlignedBids == \A m \in Markets, price \in Prices : IsAligned(MarketParams[m], price)

(* ... and nobody is the referrer of its own orders.                       *)
NoSelfReferral == Traders \cap Referrers = {}

(* All bids of all books have even prices.                                 *)
AllEven == \A m \in Markets : EvenBids(MarketParams[m], markets[m].book)

(* Order o of account a, which names this referrer, is executed in market  *)
(* m: the taker, saved as taker, pays for all it buys, posts and is        *)
(* charged, and not a unit more if prices are aligned.                     *)
Places(m, a, o, referrer, taker) ==
  /\ IsNewOrder(o) /\ o.owner = a /\ a \in DOMAIN accounts
  /\ IsAccount(taker) /\ ExecuteOrder(m, o, referrer, taker)
  /\ \A t : TakerSpends(m, o, taker, t) <= TakerHad(m, o, t)
  /\ AlignedBids =>
       /\ \A t : TakerSpends(m, o, taker, t) = TakerHad(m, o, t)
       /\ o.side = "Buy" /\ OpenQty(MarketParams[m], markets[m].book, o) > 0
            => IsEven(MarketParams[m], CHOOSE l \in o.limit : TRUE)

(* A bid locks, pays and is charged no more than it is debited, and no     *)
(* less when its price is aligned.                                         *)
LEMMA LimitBuyPlaces ==
  ASSUME TypeOK, NEW a \in Traders, NEW m \in Markets,
         NEW type \in TypesTried, NEW price \in Prices, NEW quantity \in Quantities,
         NEW max_spend \in Optional(MaxSpends), NEW referrer,
         PlaceLimitBuy(a, m, type, price, quantity, max_spend, referrer)
  PROVE  \E o, taker : Places(m, a, o, referrer, taker)
PROOF
  <1> DEFINE p     == MarketParams[m]
             o     == LimitBuyOrder(a, m, type, price, quantity, max_spend)
             fills == Matches(p, markets[m].book, o)
             open  == OpenQty(p, markets[m].book, o)
             base  == BaseTraded(m, fills)
             traded == QuoteTraded(m, fills)
             fee   == TakerFee(p.taker_rate, traded)
             lock  == QuoteValue(p, BaseLotsToNative(p, open), price)
             debit == LimitBuyDebit(m, o, price)
             credited == Deposit(accounts[a], p.base, base)
             debited  == Withdraw(credited, p.quote, debit)
             taker == WithPostedOrder(debited, m, open)
  <1>1. /\ a \in DOMAIN accounts
        /\ CanWithdraw(credited, p.quote, debit)
        /\ ExecuteOrder(m, o, referrer, taker)
        BY DEF PlaceLimitBuy, CanPlaceOrder
  <1>2. IsMarketParams(p) /\ p.quote \in Tokens /\ p.base \in Tokens /\ price \in Nat
        BY ParamsFacts, InputAssumption
  <1>3. /\ IsNewOrder(o) /\ o.owner = a /\ o.side = "Buy"
        /\ o.limit = {QuoteNativeToLots(p, price)}
        BY LimitBuyOrderFacts
  <1>4. base \in Nat /\ traded \in Nat /\ fee \in Nat /\ open \in Nat
    <2>1. o.qty \in Nat
          BY <1>3 DEF IsNewOrder
    <2> HIDE DEF o
    <2>. QED  BY <2>1, OrderAmounts
  <1>5. debit = lock + traded + fee
        BY DEF LimitBuyDebit
  <1> HIDE DEF o
  <1>6. ASSUME NEW t
        PROVE  /\ IsAccount(taker)
               /\ TakerSpends(m, o, taker, t) <= TakerHad(m, o, t)
               /\ IsAligned(p, price) => TakerSpends(m, o, taker, t) = TakerHad(m, o, t)
    <2>6. /\ Posted(p, o, open, t) <= In(p.quote, t, lock)
          /\ Posted(p, o, open, t) \in Nat /\ lock \in Nat
          /\ IsAligned(p, price) => Posted(p, o, open, t) = In(p.quote, t, lock)
      <3> DEFINE limit == QuoteNativeToLots(p, price)
                 worth == QuoteValueOfLots(p, open, limit)
      <3> HIDE DEF fills, open
      <3>1. worth <= lock
            BY <1>2, <1>4, LockCoversRefund
      <3>2. worth \in Nat /\ lock \in Nat
        <4>1. limit \in Nat /\ BaseLotsToNative(p, open) \in Nat
              BY <1>2, <1>4, LotsFacts
        <4> HIDE DEF limit
        <4>. QED  BY <1>2, <1>4, <4>1, LotsFacts
      <3>3. Rest(o, open).side = "Buy" /\ Rest(o, open).price = limit
            BY <1>3 DEF Rest
      <3>6. IsAligned(p, price) => worth = lock
        <4> HIDE DEF p
        <4>1. IsAligned(p, price) => QuoteLotsToNative(p, limit) = price
              BY <1>2, AlignedPrice
        <4>. QED  BY <4>1 DEF QuoteValueOfLots
      <3>7. open = 0 => lock = 0
        <4>1. BaseLotsToNative(p, 0) = 0 /\ p.base_denomination \in Nat \ {0}
              BY <1>2 DEF BaseLotsToNative, IsMarketParams
        <4>2. 0 \div p.base_denomination = 0
          <5> DEFINE d == p.base_denomination
          <5>1. d \in Nat \ {0}
                BY <4>1
          <5> HIDE DEF d
          <5>2. 0 \div d \in Nat /\ 0 \div d <= 0
                BY <5>1, DivNat, DivBound
          <5>. QED  BY <5>2 DEF d
        <4>3. 0 * price = 0
              BY <1>2
        <4>4. QuoteValue(p, 0, price) = 0
              BY <4>2, <4>3 DEF QuoteValue
        <4> HIDE DEF p
        <4>. QED  BY <4>1, <4>4
      <3> HIDE DEF worth, lock
      <3>4. CASE open > 0
        <4>1. Posted(p, o, open, t) = In(p.quote, t, worth)
              BY <3>3, <3>4 DEF Posted, RefundToken, Worth, worth
        <4>. QED  BY <3>1, <3>2, <3>6, <4>1 DEF In
      <3>5. CASE ~ (open > 0)
        <4>1. open = 0 /\ Posted(p, o, open, t) = 0
              BY <1>4, <3>5 DEF Posted
        <4>. QED  BY <3>2, <3>7, <4>1 DEF In
      <3>. QED  BY <3>4, <3>5
    <2> HIDE DEF base, traded, fee, open, lock, fills, debit
    <2>7. debit \in Nat
          BY <1>4, <1>5, <2>6
    <2>8. /\ IsAccount(taker)
          /\ Balance(taker, t) = Balance(accounts[a], t) + In(p.base, t, base) - In(p.quote, t, debit)
      <3>1. IsAccount(accounts[a])
            BY <1>1 DEF TypeOK
      <3> HIDE DEF p
      <3>. QED  BY <1>1, <1>2, <1>4, <2>7, <3>1, TakerBalance
    <2> HIDE DEF taker
    <2>9. Balance(accounts[a], t) \in Nat /\ Balance(taker, t) \in Nat
          BY <1>1, <2>8, BalanceType DEF TypeOK
    <2>10. /\ TakerSpends(m, o, taker, t)
                = Balance(taker, t) + Posted(p, o, open, t) + In(p.quote, t, traded + fee)
           /\ TakerHad(m, o, t) = Balance(accounts[a], t) + In(p.base, t, base)
          BY <1>3 DEF TakerSpends, TakerHad, base, traded, fee, open, fills
    <2>11. /\ TakerSpends(m, o, taker, t) <= TakerHad(m, o, t)
           /\ IsAligned(p, price) => TakerSpends(m, o, taker, t) = TakerHad(m, o, t)
      <3> HIDE DEF p
      <3>1. In(p.quote, t, debit) = In(p.quote, t, lock) + In(p.quote, t, traded + fee)
            BY <1>4, <1>5, <2>6 DEF In
      <3>2. /\ In(p.quote, t, lock) \in Nat /\ In(p.quote, t, traded + fee) \in Nat
            /\ In(p.base, t, base) \in Nat
            BY <1>4, <2>6 DEF In
      <3> DEFINE spends == TakerSpends(m, o, taker, t)
                 had    == TakerHad(m, o, t)
                 post   == Posted(p, o, open, t)
                 aligned == IsAligned(p, price)
      <3>3. /\ spends = Balance(taker, t) + post + In(p.quote, t, traded + fee)
            /\ had = Balance(accounts[a], t) + In(p.base, t, base)
            /\ post <= In(p.quote, t, lock) /\ post \in Nat
            /\ aligned => post = In(p.quote, t, lock)
            BY <2>6, <2>10
      <3> HIDE DEF spends, had, post, aligned
      <3>4. spends <= had /\ (aligned => spends = had)
            BY <2>8, <2>9, <3>1, <3>2, <3>3
      <3>. QED  BY <3>4 DEF spends, had, aligned
    <2>. QED  BY <2>8, <2>11
  <1>7. AlignedBids => IsAligned(p, price) /\ IsEven(p, CHOOSE l \in o.limit : TRUE)
    <2>1. (CHOOSE l \in o.limit : TRUE) = QuoteNativeToLots(p, price)
          BY <1>3
    <2> HIDE DEF o
    <2>2. (AlignedBids => IsAligned(p, price)) /\ price # 0
          BY InputAssumption DEF AlignedBids
    <2>. QED  BY <1>2, <2>1, <2>2, AlignedPrice
  <1> HIDE DEF o, taker
  <1>8. Places(m, a, o, referrer, taker)
        BY <1>1, <1>3, <1>6, <1>7 DEF Places
  <1>. QED  BY <1>8

(* An ask pays exactly for what it posts and sold ...                      *)
LEMMA LimitSellPlaces ==
  ASSUME TypeOK, NEW a \in Traders, NEW m \in Markets,
         NEW type \in TypesTried, NEW price \in Prices, NEW quantity \in Quantities,
         NEW referrer,
         PlaceLimitSell(a, m, type, price, quantity, referrer)
  PROVE  \E o, taker : Places(m, a, o, referrer, taker)
PROOF
  <1> DEFINE p     == MarketParams[m]
             o     == LimitSellOrder(a, m, type, price, quantity)
             fills == Matches(p, markets[m].book, o)
             open  == OpenQty(p, markets[m].book, o)
             base  == BaseTraded(m, fills)
             traded == QuoteTraded(m, fills)
             fee   == TakerFee(p.taker_rate, traded)
             gained == traded - fee
             lock  == BaseLotsToNative(p, open)
             debit == LimitSellDebit(m, o)
             credited == Deposit(accounts[a], p.quote, gained)
             debited  == Withdraw(credited, p.base, debit)
             taker == WithPostedOrder(debited, m, open)
  <1>1. /\ a \in DOMAIN accounts
        /\ CanWithdraw(credited, p.base, debit)
        /\ ExecuteOrder(m, o, referrer, taker)
        BY DEF PlaceLimitSell, CanPlaceOrder
  <1>2. IsMarketParams(p) /\ p.quote \in Tokens /\ p.base \in Tokens
        BY ParamsFacts
  <1>3. IsNewOrder(o) /\ o.owner = a /\ o.side = "Sell"
        BY LimitSellOrderFacts
  <1>4. base \in Nat /\ gained \in Nat /\ open \in Nat
    <2>1. o.qty \in Nat
          BY <1>3 DEF IsNewOrder
    <2> HIDE DEF o
    <2>. QED  BY <2>1, OrderAmounts
  <1>5. debit = base + lock
        BY DEF LimitSellDebit
  <1> HIDE DEF o
  <1>6. ASSUME NEW t
        PROVE  /\ IsAccount(taker)
               /\ TakerSpends(m, o, taker, t) <= TakerHad(m, o, t)
               /\ TakerSpends(m, o, taker, t) = TakerHad(m, o, t)
    <2>6. Posted(p, o, open, t) = In(p.base, t, lock) /\ lock \in Nat
      <3> HIDE DEF fills, open
      <3>1. lock \in Nat
            BY <1>2, <1>4, LotsFacts
      <3>2. Rest(o, open).side = "Sell"
            BY <1>3 DEF Rest
      <3>3. RefundToken(p, Rest(o, open)) = p.base /\ Worth(p, Rest(o, open), open) = lock
            BY <3>2 DEF RefundToken, Worth
      <3>5. open = 0 => lock = 0
            BY <1>2 DEF BaseLotsToNative, IsMarketParams
      <3> HIDE DEF lock, p
      <3>4. Posted(p, o, open, t) = IF open > 0 THEN In(p.base, t, lock) ELSE 0
            BY <3>3 DEF Posted
      <3>. QED  BY <1>4, <3>1, <3>4, <3>5 DEF In
    <2> HIDE DEF base, traded, fee, gained, open, lock, fills, debit
    <2>7. debit \in Nat
          BY <1>4, <1>5, <2>6
    <2>8. /\ IsAccount(taker)
          /\ Balance(taker, t) = Balance(accounts[a], t) + In(p.quote, t, gained) - In(p.base, t, debit)
      <3>1. IsAccount(accounts[a])
            BY <1>1 DEF TypeOK
      <3> HIDE DEF p
      <3>. QED  BY <1>1, <1>2, <1>4, <2>7, <3>1, TakerBalance
    <2> HIDE DEF taker
    <2>9. Balance(accounts[a], t) \in Nat /\ Balance(taker, t) \in Nat
          BY <1>1, <2>8, BalanceType DEF TypeOK
    <2>10. /\ TakerSpends(m, o, taker, t)
                = Balance(taker, t) + Posted(p, o, open, t) + In(p.base, t, base)
           /\ TakerHad(m, o, t) = Balance(accounts[a], t) + In(p.quote, t, gained)
          BY <1>3 DEF TakerSpends, TakerHad, base, gained, traded, fee, open, fills
    <2>11. TakerSpends(m, o, taker, t) = TakerHad(m, o, t) /\ TakerHad(m, o, t) \in Int
      <3> HIDE DEF p
      <3> DEFINE spends == TakerSpends(m, o, taker, t)
                 had    == TakerHad(m, o, t)
      <3>1. /\ spends = Balance(taker, t) + In(p.base, t, lock) + In(p.base, t, base)
            /\ had = Balance(accounts[a], t) + In(p.quote, t, gained)
            BY <2>6, <2>10
      <3> HIDE DEF spends, had
      <3>2. In(p.base, t, debit) = In(p.base, t, lock) + In(p.base, t, base)
            BY <1>4, <1>5, <2>6 DEF In
      <3>3. /\ In(p.base, t, lock) \in Nat /\ In(p.base, t, base) \in Nat
            /\ In(p.quote, t, gained) \in Nat
            BY <1>4, <2>6 DEF In
      <3>4. spends = had /\ had \in Int
            BY <2>8, <2>9, <3>1, <3>2, <3>3
      <3>. QED  BY <3>4 DEF spends, had
    <2>. QED  BY <2>8, <2>11
  <1> HIDE DEF o, taker
  <1>7. Places(m, a, o, referrer, taker)
        BY <1>1, <1>3, <1>6 DEF Places
  <1>. QED  BY <1>7

(* ... and a market order for what it bought or sold.                      *)
LEMMA MarketOrderPlaces ==
  ASSUME TypeOK, NEW a \in Traders, NEW m \in Markets,
         NEW side \in Sides, NEW quantity \in Quantities, NEW max_spend,
         NEW referrer,
         PlaceMarketOrder(a, m, side, quantity, max_spend, referrer)
  PROVE  \E o, taker : Places(m, a, o, referrer, taker)
PROOF
  <1> DEFINE p      == MarketParams[m]
             o      == MarketOrder(a, m, side, quantity, max_spend)
             fills  == Matches(p, markets[m].book, o)
             open   == OpenQty(p, markets[m].book, o)
             base   == BaseTraded(m, fills)
             traded == QuoteTraded(m, fills)
             fee    == TakerFee(p.taker_rate, traded)
             debit  == MarketOrderDebit(m, o)
             input  == IF side = "Buy" THEN p.quote ELSE p.base
             output == IF side = "Buy" THEN p.base ELSE p.quote
             credit == IF side = "Buy" THEN base ELSE traded - fee
             debited == Withdraw(accounts[a], input, debit)
             taker == Deposit(debited, output, credit)
  <1>1. /\ a \in DOMAIN accounts
        /\ CanWithdraw(accounts[a], input, debit)
        /\ ExecuteOrder(m, o, referrer, taker)
        BY DEF PlaceMarketOrder, CanPlaceOrder
  <1>2. IsMarketParams(p) /\ input \in Tokens /\ output \in Tokens
        BY ParamsFacts
  <1>3. IsNewOrder(o) /\ o.owner = a /\ o.side = side /\ o.type = "Market"
        BY MarketOrderFacts
  <1>4. base \in Nat /\ traded \in Nat /\ fee \in Nat /\ traded - fee \in Nat
    <2>1. o.qty \in Nat
          BY <1>3 DEF IsNewOrder
    <2> HIDE DEF o
    <2>. QED  BY <2>1, OrderAmounts
  <1>5. debit = IF side = "Buy" THEN traded + fee ELSE base
        BY <1>3 DEF MarketOrderDebit
  <1>6. ASSUME NEW t
        PROVE  /\ IsAccount(taker)
               /\ TakerSpends(m, o, taker, t) <= TakerHad(m, o, t)
               /\ TakerSpends(m, o, taker, t) = TakerHad(m, o, t)
    <2>6. Posted(p, o, open, t) = 0
      <3>1. IsBook(markets[m].book, prev_order_sequence_number) /\ prev_order_sequence_number \in Nat
            BY DEF TypeOK, IsMarket, IsBook
      <3>2. open > 0 => o.type \in {"Limit", "PostOnly"}
            BY <1>3, <3>1, OpenQtyFacts DEF IsNewOrder
      <3>. QED  BY <1>3, <3>2 DEF Posted
    <2> HIDE DEF o, base, traded, fee, fills, open, debit
    <2>7. debit \in Nat /\ credit \in Nat
          BY <1>4, <1>5
    <2>8. /\ IsAccount(debited)
          /\ Balance(debited, t) = Balance(accounts[a], t) - In(input, t, debit)
          /\ Balance(accounts[a], t) \in Nat
      <3>1. IsAccount(accounts[a])
            BY <1>1 DEF TypeOK
      <3> HIDE DEF input
      <3>. QED  BY <1>1, <1>2, <2>7, <3>1, WithdrawFacts, WithdrawBalance, BalanceType
    <2> HIDE DEF debited
    <2>9. /\ IsAccount(taker)
          /\ Balance(taker, t) = Balance(debited, t) + In(output, t, credit)
      <3> HIDE DEF output, credit
      <3>1. output \in Tokens /\ credit \in Nat /\ IsAccount(debited)
            BY <1>2, <2>7, <2>8
      <3>2. IsAccount(taker)
            BY <3>1, DepositFacts
      <3>3. Balance(taker, t) = Balance(debited, t) + In(output, t, credit)
            BY <3>1, DepositBalance
      <3>. QED  BY <3>2, <3>3
    <2> HIDE DEF taker
    <2>10. /\ TakerSpends(m, o, taker, t)
                = Balance(taker, t) + 0 + IF side = "Buy" THEN In(p.quote, t, traded + fee)
                                                          ELSE In(p.base, t, base)
           /\ TakerHad(m, o, t)
                = Balance(accounts[a], t) + IF side = "Buy" THEN In(p.base, t, base)
                                                            ELSE In(p.quote, t, traded - fee)
          BY <1>3, <2>6 DEF TakerSpends, TakerHad, base, traded, fee, open, fills
    <2>11. TakerSpends(m, o, taker, t) = TakerHad(m, o, t) /\ TakerHad(m, o, t) \in Int
      <3> HIDE DEF p
      <3>1. CASE side = "Buy"
        <4>1. Balance(taker, t) = Balance(accounts[a], t) - In(p.quote, t, traded + fee)
                                    + In(p.base, t, base)
              BY <1>5, <2>8, <2>9, <3>1
        <4>2. In(p.quote, t, traded + fee) \in Nat /\ In(p.base, t, base) \in Nat
              BY <1>4 DEF In
        <4>. QED  BY <2>8, <2>10, <3>1, <4>1, <4>2
      <3>2. CASE side # "Buy"
        <4>1. Balance(taker, t) = Balance(accounts[a], t) - In(p.base, t, base)
                                    + In(p.quote, t, traded - fee)
              BY <1>5, <2>8, <2>9, <3>2
        <4>2. In(p.quote, t, traded - fee) \in Nat /\ In(p.base, t, base) \in Nat
              BY <1>4 DEF In
        <4>. QED  BY <2>8, <2>10, <3>2, <4>1, <4>2
      <3>. QED  BY <3>1, <3>2
    <2>. QED  BY <2>9, <2>11
  <1>7. OpenQty(p, markets[m].book, o) > 0 => FALSE
    <2>1. IsBook(markets[m].book, prev_order_sequence_number) /\ prev_order_sequence_number \in Nat
          BY DEF TypeOK, IsMarket, IsBook
    <2>. QED  BY <1>3, <2>1, OpenQtyFacts DEF IsNewOrder
  <1> HIDE DEF o, taker
  <1>8. Places(m, a, o, referrer, taker)
        BY <1>1, <1>3, <1>6, <1>7 DEF Places
  <1>. QED  BY <1>8

(* Bids that join a book when order o is placed have even prices if o has. *)
LEMMA EvenWhenPlaced ==
  ASSUME TypeOK, NEW m \in Markets, NEW o, IsNewOrder(o), o.owner \in DOMAIN accounts,
         NEW referrer, NEW taker, IsAccount(taker), ExecuteOrder(m, o, referrer, taker),
         EvenBids(MarketParams[m], markets[m].book),
         OpenQty(MarketParams[m], markets[m].book, o) > 0 /\ o.side = "Buy"
           => IsEven(MarketParams[m], CHOOSE l \in o.limit : TRUE)
  PROVE  EvenBids(MarketParams[m], markets'[m].book)
PROOF
  <1> DEFINE n    == prev_order_sequence_number
             p    == MarketParams[m]
             book == markets[m].book
             open == OpenQty(p, book, o)
             new  == BookAfter(p, book, o, n + 1)
  <1>1. IsBook(book, n) /\ n \in Nat
        BY DEF TypeOK, IsMarket, IsBook
  <1>2. markets'[m].book = new
        BY ExecuteOrderFacts DEF OrderPlaced, NextSequence
  <1>3. /\ OrderJoined(new, book, o, Matches(p, book, o), open, n + 1)
        /\ IsBook(new, n + 1)
    <2> HIDE DEF p, book
    <2>. QED  BY <1>1, BookAfterFacts
  <1>4. n + 1 \notin DOMAIN book /\ \A i \in DOMAIN book : book[i] \in RestingOrder
    <2>1. DOMAIN book \subseteq 1 .. n
      <3> HIDE DEF book, n
      <3>. QED  BY <1>1, BookFinite
    <2>. QED  BY <1>1, <2>1, BookFinite
  <1>5. n + 1 \in Nat
        BY <1>1
  <1>6. \A i \in DOMAIN new : new[i] \in RestingOrder
    <2> HIDE DEF new, n
    <2>. QED  BY <1>3, <1>5, BookFinite
  <1>7. n + 1 \in DOMAIN new => open > 0
        BY <1>3, <1>4 DEF OrderJoined
  <1>8. n + 1 \in DOMAIN new => /\ new[n + 1].side = o.side
                                /\ new[n + 1].price = CHOOSE l \in o.limit : TRUE
        BY <1>4 DEF BookAfter
  <1> HIDE DEF new, open, n
  <1>9. ASSUME NEW i \in OnSide(new, "Buy") PROVE IsEven(p, new[i].price)
    <2>1. i \in DOMAIN new /\ new[i].side = "Buy"
          BY DEF OnSide
    <2>2. CASE i = n + 1
          BY <1>7, <1>8, <2>1, <2>2 DEF open
    <2>3. CASE i # n + 1
      <3>1. /\ i \in DOMAIN book
            /\ [new[i] EXCEPT !.qty = 0] = [book[i] EXCEPT !.qty = 0]
            BY <1>3, <2>1, <2>3 DEF OrderJoined
      <3>2. new[i] \in RestingOrder /\ book[i] \in RestingOrder
            BY <1>4, <1>6, <2>1, <3>1
      <3>3. new[i].side = book[i].side /\ new[i].price = book[i].price
        <4> DEFINE x == new[i]
                   y == book[i]
        <4>1. /\ x \in RestingOrder /\ y \in RestingOrder
              /\ [x EXCEPT !.qty = 0] = [y EXCEPT !.qty = 0]
              BY <3>1, <3>2
        <4> HIDE DEF x, y
        <4>2. /\ [x EXCEPT !.qty = 0].side = x.side /\ [y EXCEPT !.qty = 0].side = y.side
              /\ [x EXCEPT !.qty = 0].price = x.price /\ [y EXCEPT !.qty = 0].price = y.price
              BY <4>1 DEF RestingOrder
        <4>3. x.side = y.side /\ x.price = y.price
              BY <4>1, <4>2
        <4>. QED  BY <4>3 DEF x, y
      <3>. QED  BY <2>1, <3>1, <3>3 DEF EvenBids, OnSide
    <2>. QED  BY <2>2, <2>3
  <1>. QED  BY <1>2, <1>9 DEF EvenBids

(* new_order, called by a.                                                 *)
LEMMA OrderByPlaces ==
  ASSUME TypeOK, NEW m \in Markets, NEW a \in Traders,
         LimitBuyBy(a, m) \/ LimitSellBy(a, m) \/ MarketOrderBy(a, m)
  PROVE  \E referrer \in Optional(Referrers) : \E o, taker : Places(m, a, o, referrer, taker)
PROOF
  <1>1. CASE LimitBuyBy(a, m)
    <2>1. PICK type \in TypesTried, price \in Prices, quantity \in Quantities,
               max_spend \in Optional(MaxSpends), referrer \in Optional(Referrers) :
            PlaceLimitBuy(a, m, type, price, quantity, max_spend, referrer)
          BY <1>1 DEF LimitBuyBy
    <2>. QED  BY <2>1, LimitBuyPlaces
  <1>2. CASE LimitSellBy(a, m)
    <2>1. PICK type \in TypesTried, price \in Prices, quantity \in Quantities,
               referrer \in Optional(Referrers) :
            PlaceLimitSell(a, m, type, price, quantity, referrer)
          BY <1>2 DEF LimitSellBy
    <2>. QED  BY <2>1, LimitSellPlaces
  <1>3. CASE MarketOrderBy(a, m)
    <2>1. PICK side \in Sides, quantity \in Quantities,
               max_spend \in Optional(MaxSpends), referrer \in Optional(Referrers) :
            PlaceMarketOrder(a, m, side, quantity, max_spend, referrer)
          BY <1>3 DEF MarketOrderBy
    <2>. QED  BY <2>1, MarketOrderPlaces
  <1>. QED  BY <1>1, <1>2, <1>3

(* new_order                                                               *)
LEMMA NewOrderPlaces ==
  ASSUME TypeOK, NEW m \in Markets, NewOrder(m)
  PROVE  \E a \in Traders, referrer \in Optional(Referrers) :
           /\ LimitBuyBy(a, m) \/ LimitSellBy(a, m) \/ MarketOrderBy(a, m)
           /\ \E o, taker : Places(m, a, o, referrer, taker)
PROOF
  <1>1. PICK a \in Traders : LimitBuyBy(a, m) \/ LimitSellBy(a, m) \/ MarketOrderBy(a, m)
        BY DEF NewOrder, NewLimitBuy, NewLimitSell, NewMarketOrder
  <1>. QED  BY <1>1, OrderByPlaces

(* A new order settles, to the unit if nothing rounds; bids stay even.     *)
LEMMA OrderSettled ==
  ASSUME TypeOK, IsFiniteSet(DOMAIN accounts), NEW m \in Markets, NEW a \in Traders,
         NEW referrer \in Optional(Referrers), NEW o, NEW taker,
         Places(m, a, o, referrer, taker), NEW t
  PROVE  /\ Settled(m, t)
         /\ AlignedBids /\ EvenBids(MarketParams[m], markets[m].book) =>
              /\ NoSelfReferral => SettledExactly(m, t)
              /\ EvenBids(MarketParams[m], markets'[m].book)
PROOF
  <1>3. AtMostOne(referrer) /\ (NoSelfReferral => a \notin referrer)
        BY DEF Optional, AtMostOne, NoSelfReferral
  <1>4. /\ IsNewOrder(o) /\ o.owner = a /\ a \in DOMAIN accounts
        /\ IsAccount(taker) /\ ExecuteOrder(m, o, referrer, taker)
        /\ TakerSpends(m, o, taker, t) <= TakerHad(m, o, t)
        BY DEF Places
  <1>5. AlignedBids =>
          /\ TakerSpends(m, o, taker, t) = TakerHad(m, o, t)
          /\ o.side = "Buy" /\ OpenQty(MarketParams[m], markets[m].book, o) > 0
               => IsEven(MarketParams[m], CHOOSE l \in o.limit : TRUE)
        BY DEF Places
  <1>6. /\ Settled(m, t)
        /\ EvenBids(MarketParams[m], markets[m].book) /\ a \notin referrer
             /\ TakerSpends(m, o, taker, t) = TakerHad(m, o, t)
               => SettledExactly(m, t)
        BY <1>3, <1>4, PlacedSettled
  <1>7. AlignedBids /\ EvenBids(MarketParams[m], markets[m].book)
          => EvenBids(MarketParams[m], markets'[m].book)
        BY <1>4, <1>5, EvenWhenPlaced
  <1>. QED  BY <1>3, <1>5, <1>6, <1>7

-----------------------------------------------------------------------------
(* Cancelling orders.                                                      *)

(* A refund pays back exactly what the cancelled orders lock.              *)
LEMMA RefundedBalance ==
  ASSUME TypeOK, NEW m \in Markets, NEW acc, IsAccount(acc),
         NEW ids \in SUBSET DOMAIN markets[m].book, NEW t
  PROVE  /\ IsAccount(Refunded(acc, m, ids))
         /\ Balance(Refunded(acc, m, ids), t)
              = Balance(acc, t)
                  + SumFunctionOnSet(Locks(MarketParams[m], markets[m].book, t), ids)
PROOF
  <1> DEFINE p     == MarketParams[m]
             book  == markets[m].book
             locks == Locks(p, book, t)
             back(side) == {i \in ids : book[i].side = side}
             f(side)    == [i \in back(side) |-> GetRefundAmount(p, book[i])]
             due(side)  == SumFunction(f(side))
             paid(x, side, token) == IF back(side) = {} THEN x ELSE Deposit(x, token, due(side))
             sells == paid(acc, "Sell", p.base)
             all   == paid(sells, "Buy", p.quote)
             token(side) == IF side = "Buy" THEN p.quote ELSE p.base
             part(side)  == SumFunctionOnSet(locks, back(side))
  <1>1. IsBook(book, prev_order_sequence_number) /\ prev_order_sequence_number \in Nat
        BY DEF TypeOK, IsMarket, IsBook
  <1>2. IsMarketParams(p) /\ p.quote \in Tokens /\ p.base \in Tokens
        BY ParamsFacts
  <1>3. \A i \in ids : /\ locks[i] = In(RefundToken(p, book[i]), t, GetRefundAmount(p, book[i]))
                       /\ GetRefundAmount(p, book[i]) \in Nat
                       /\ book[i].side \in Sides
    <2> TAKE i \in ids
    <2>1. book[i].qty \in Nat /\ book[i].price \in Nat /\ book[i].side \in Sides
          BY <1>1, BookFinite DEF RestingOrder
    <2>2. GetRefundAmount(p, book[i]) \in Nat
          BY <1>2, <2>1, LotsFacts DEF GetRefundAmount
    <2>3. GetRefundAmount(p, book[i]) = Worth(p, book[i], book[i].qty)
          BY DEF GetRefundAmount, Worth
    <2>. QED  BY <2>1, <2>2, <2>3 DEF Locks
  <1>4. \A S \in SUBSET ids : IsFiniteSet(S)
        BY <1>1, BookFinite
  <1>5. \A side \in Sides : due(side) \in Nat /\ part(side) = In(token(side), t, due(side))
    <2> TAKE side \in Sides
    <2>1. back(side) \in SUBSET ids /\ DOMAIN f(side) = back(side)
          OBVIOUS
    <2>2. \A i \in back(side) : f(side)[i] \in Nat /\ locks[i] = In(token(side), t, f(side)[i])
          BY <1>3 DEF RefundToken
    <2> DEFINE B == back(side)
               h == f(side)
    <2>3. due(side) = SumFunctionOnSet(h, B) /\ IsFiniteSet(B)
          BY <1>4, <2>1 DEF SumFunction
    <2>4. \A i \in B : h[i] \in Nat /\ locks[i] = In(token(side), t, h[i])
          BY <2>2
    <2>5. part(side) = SumFunctionOnSet(locks, B)
          OBVIOUS
    <2> HIDE DEF B, h, locks, token, due, part
    <2>6. SumFunctionOnSet(h, B) \in Nat
          BY <2>3, <2>4, SumNat
    <2>7. SumFunctionOnSet(locks, B) = In(token(side), t, SumFunctionOnSet(h, B))
          BY <2>3, <2>4, InSum
    <2>. QED  BY <2>3, <2>5, <2>6, <2>7
  <1>6. \A side : back(side) = {} => part(side) = 0
        BY SumOfEmpty
  <1>7. SumFunctionOnSet(locks, ids) = part("Sell") + part("Buy")
    <2> DEFINE S == back("Sell")
               B == back("Buy")
    <2>1. S \cup B = ids /\ S \cap B = {} /\ S \in SUBSET ids /\ B \in SUBSET ids
          BY <1>3 DEF Sides
    <2>2. \A i \in ids : locks[i] \in Int
          BY <1>3 DEF In
    <2>3. part("Sell") = SumFunctionOnSet(locks, S) /\ part("Buy") = SumFunctionOnSet(locks, B)
          OBVIOUS
    <2> HIDE DEF S, B, locks, part
    <2>4. IsFiniteSet(S) /\ IsFiniteSet(B) /\ \A i \in S \cup B : locks[i] \in Int
          BY <1>4, <2>1, <2>2
    <2>5. SumFunctionOnSet(locks, S \cup B) = SumFunctionOnSet(locks, S) + SumFunctionOnSet(locks, B)
          BY <2>1, <2>4, SumDisjoint
    <2>. QED  BY <2>1, <2>3, <2>5
  <1>8. PaidBack(acc, m, ids) = all
        BY DEF PaidBack
  <1>9. /\ token("Sell") = p.base /\ token("Buy") = p.quote
        /\ "Sell" \in Sides /\ "Buy" \in Sides
        BY DEF Sides
  <1> HIDE DEF back, due, part, locks, p, token
  <1>10. part("Sell") \in Int /\ part("Buy") \in Int /\ Balance(acc, t) \in Nat
         BY <1>5, <1>9, BalanceType DEF In
  <1>11. IsAccount(sells) /\ Balance(sells, t) = Balance(acc, t) + part("Sell")
    <2>1. CASE back("Sell") = {}
          BY <1>6, <1>10, <2>1
    <2>2. CASE back("Sell") # {}
      <3>1. sells = Deposit(acc, p.base, due("Sell"))
            BY <2>2
      <3>2. due("Sell") \in Nat /\ part("Sell") = In(p.base, t, due("Sell"))
            BY <1>5, <1>9
      <3> HIDE DEF sells
      <3>. QED  BY <1>2, <3>1, <3>2, DepositFacts, DepositBalance
    <2>. QED  BY <2>1, <2>2
  <1> HIDE DEF sells
  <1>12. IsAccount(all) /\ Balance(all, t) = Balance(sells, t) + part("Buy")
    <2>1. CASE back("Buy") = {}
      <3>1. all = sells /\ part("Buy") = 0
            BY <1>6, <2>1
      <3>2. Balance(sells, t) \in Nat
            BY <1>11, BalanceType
      <3> HIDE DEF all
      <3>. QED  BY <1>11, <3>1, <3>2
    <2>2. CASE back("Buy") # {}
      <3>1. all = Deposit(sells, p.quote, due("Buy"))
            BY <2>2
      <3>2. due("Buy") \in Nat /\ part("Buy") = In(p.quote, t, due("Buy"))
            BY <1>5, <1>9
      <3> HIDE DEF all
      <3>. QED  BY <1>2, <1>11, <3>1, <3>2, DepositFacts, DepositBalance
    <2>. QED  BY <2>1, <2>2
  <1> HIDE DEF all
  <1>13. Balance(Refunded(acc, m, ids), t) = Balance(all, t)
         BY <1>8, <1>12, ListingBalance DEF Refunded
  <1>14. Balance(Refunded(acc, m, ids), t) = Balance(acc, t) + SumFunctionOnSet(locks, ids)
         BY <1>7, <1>10, <1>11, <1>12, <1>13
  <1>. QED  BY <1>14, RefundedFacts DEF locks, p

(* The orders in ids that account b owns.                                  *)
OwnedBy(book, ids, b) == {i \in ids : book[i].owner = b}

(* Cancels that refund to each owner what its orders lock move the locked  *)
(* amounts to the accounts, and nothing else.                              *)
LEMMA CancelledSettled ==
  ASSUME TypeOK, IsFiniteSet(DOMAIN accounts), NEW m \in Markets,
         NEW ids \in SUBSET DOMAIN markets[m].book,
         \A i \in ids : markets[m].book[i].owner \in DOMAIN accounts,
         NEW t, NEW refunded, refunded = [b \in DOMAIN accounts |-> refunded[b]],
         \A b \in DOMAIN accounts :
           /\ IsAccount(refunded[b])
           /\ Balance(refunded[b], t)
                = Balance(accounts[b], t)
                    + SumFunctionOnSet(Locks(MarketParams[m], markets[m].book, t),
                                       OwnedBy(markets[m].book, ids, b)),
         CommitCancels(m, ids, refunded)
  PROVE  Settled(m, t) /\ SettledExactly(m, t)
PROOF
  <1> DEFINE n     == prev_order_sequence_number
             p     == MarketParams[m]
             book  == markets[m].book
             after == RemoveOrders(book, ids)
             locks == Locks(p, book, t)
             D     == DOMAIN accounts
             rest  == DOMAIN book \ ids
             old == [b \in D |-> Balance(accounts[b], t)]
             new == [b \in D |-> Balance(refunded[b], t)]
             C   == [b \in D |-> OwnedBy(book, ids, b)]
             back == [b \in D |-> SumFunctionOnSet(locks, C[b])]
             w   == [i \in ids |-> book[i].owner]
  <1>1. /\ TypeOK' /\ accounts' = refunded
        /\ markets'[m].book = after
        BY CommitCancelsFacts
  <1>2. /\ markets'[m].fees_accrued = markets[m].fees_accrued
        /\ \A k \in Markets \ {m} : markets'[k] = markets[k]
    <2>1. /\ m \in DOMAIN markets
          /\ markets[m] \in [state : MarketStates, book : {markets[m].book}, fees_accrued : Nat,
                             minimum_bid_bps : BidWindows, maximum_ask_bps : AskWindows]
          BY DEF TypeOK, IsMarket
    <2>2. markets' = [markets EXCEPT ![m].book = after]
          BY DEF CommitCancels
    <2> HIDE DEF after
    <2>3. \A k \in Markets \ {m} : markets'[k] = markets[k]
          BY <2>2 DEF TypeOK
    <2>. QED  BY <2>1, <2>2, <2>3
  <1>3. IsBook(book, n) /\ n \in Nat /\ IsMarketParams(p)
        /\ markets[m].fees_accrued \in Nat
        BY ParamsFacts DEF TypeOK, IsMarket, IsBook
  <1>4. /\ \A S \in SUBSET DOMAIN book : IsFiniteSet(S)
        /\ \A i \in DOMAIN book : locks[i] \in Nat
        /\ LockedOf(p, book, t) = SumFunctionOnSet(locks, DOMAIN book)
        /\ LockedOf(p, book, t) \in Nat
    <2> HIDE DEF p, book
    <2>. QED  BY <1>3, BookFinite, LockedSum
  <1>5. IsBook(after, n) /\ DOMAIN after = rest /\ \A i \in rest : after[i] = book[i]
    <2>1. IsBook(book, n) /\ n \in Nat
          BY <1>3
    <2> HIDE DEF book, n
    <2>2. /\ IsBook(after, n)
          /\ DOMAIN after = DOMAIN book \ ids
          /\ \A i \in DOMAIN book \ ids : after[i] = book[i]
          BY <2>1 DEF IsBook, IsPartialFunction, RemoveOrders
    <2>. QED  BY <2>2
  <1> HIDE DEF after
  <1>6. /\ LockedOf(p, after, t) = SumFunctionOnSet(Locks(p, after, t), rest)
        /\ LockedOf(p, after, t) \in Nat
    <2> HIDE DEF p, rest
    <2>. QED  BY <1>3, <1>5, LockedSum
  <1>7. SumFunctionOnSet(Locks(p, after, t), rest) = SumFunctionOnSet(locks, rest)
    <2>1. \A i \in rest : locks[i] \in Int /\ Locks(p, after, t)[i] = locks[i]
      <3> TAKE i \in rest
      <3>1. i \in DOMAIN book /\ i \in DOMAIN after /\ after[i] = book[i]
            BY <1>5
      <3>2. locks[i] \in Int
            BY <1>4, <3>1
      <3>3. Locks(p, after, t)[i] = In(RefundToken(p, book[i]), t, Worth(p, book[i], book[i].qty))
            BY <3>1 DEF Locks
      <3>4. locks[i] = In(RefundToken(p, book[i]), t, Worth(p, book[i], book[i].qty))
            BY <3>1 DEF Locks
      <3>. QED  BY <3>2, <3>3, <3>4
    <2>2. IsFiniteSet(rest)
          BY <1>4
    <2> HIDE DEF locks, rest
    <2>. QED  BY <2>1, <2>2, SumSame
  <1>8. /\ SumFunctionOnSet(locks, DOMAIN book)
             = SumFunctionOnSet(locks, ids) + SumFunctionOnSet(locks, rest)
        /\ SumFunctionOnSet(locks, ids) \in Nat /\ SumFunctionOnSet(locks, rest) \in Nat
    <2>1. /\ DOMAIN book = ids \cup rest /\ ids \cap rest = {}
          /\ IsFiniteSet(ids) /\ IsFiniteSet(rest)
          /\ \A i \in ids \cup rest : locks[i] \in Int /\ locks[i] \in Nat
          BY <1>4
    <2> HIDE DEF locks, rest
    <2>. QED  BY <2>1, SumDisjoint, SumNat
  <1>9. HeldBy(accounts, t) = SumFunctionOnSet(old, D) /\ HeldBy(accounts', t) = SumFunctionOnSet(new, D)
    <2>1. DOMAIN accounts' = D /\ accounts' = refunded
          BY <1>1
    <2>2. HeldBy(refunded, t) = SumFunctionOnSet(new, D)
          BY <2>1, <1>1 DEF HeldBy, SumFunction
    <2>. QED  BY <2>1, <2>2 DEF HeldBy, SumFunction
  <1>10. \A b \in D : old[b] \in Nat /\ new[b] \in Nat
    <2>1. \A b \in D : IsAccount(accounts[b]) /\ IsAccount(refunded[b])
          BY DEF TypeOK
    <2>. QED  BY <2>1, BalanceType
  <1>11. \A b \in D : /\ C[b] \in SUBSET ids
                      /\ \A i \in ids : i \in C[b] <=> w[i] = b
         BY DEF OwnedBy
  <1>12. \A b \in D : back[b] = SumFunctionOnSet(locks, C[b]) /\ new[b] = old[b] + back[b]
         OBVIOUS
  <1>13. \A i \in ids : w[i] \in D /\ locks[i] \in Nat
         BY <1>4
  <1>14. IsFiniteSet(D) /\ IsFiniteSet(ids)
         BY <1>4
  <1>15. \A b \in D : back[b] \in Nat
    <2> HIDE DEF locks, C, back, D
    <2>1. \A b \in D : IsFiniteSet(C[b]) /\ \A i \in C[b] : locks[i] \in Nat
          BY <1>4, <1>11, <1>13
    <2>. QED  BY <1>12, <2>1, SumNat
  <1> HIDE DEF locks, D, old, new, C, back, w
  <1>16. SumFunctionOnSet(back, D) = SumFunctionOnSet(locks, ids)
    <2>1. IsFiniteSet(ids) /\ \A i \in ids : locks[i] \in Int
          BY <1>13, <1>14
    <2>2. IsFiniteSet(D) /\ \A i \in ids : w[i] \in D
          BY <1>13, <1>14
    <2>3. \A b \in D : back[b] = SumFunctionOnSet(locks, C[b])
          BY <1>12
    <2>. QED  BY <1>11, <2>1, <2>2, <2>3, SumByClass
  <1>17. SumFunctionOnSet(new, D) = SumFunctionOnSet(old, D) + SumFunctionOnSet(back, D)
    <2>1. \A b \in D : old[b] \in Int /\ back[b] \in Int /\ new[b] = old[b] + back[b]
          BY <1>10, <1>12, <1>15
    <2>. QED  BY <1>14, <2>1, SumPlus
  <1>18. SumFunctionOnSet(old, D) \in Nat /\ SumFunctionOnSet(new, D) \in Nat
         BY <1>10, <1>14, SumNat
  <1>19. In(p.quote, t, markets[m].fees_accrued) \in Nat
         BY <1>3 DEF In
  <1>20. /\ DueOf(m, markets[m], t) = LockedOf(p, book, t) + In(p.quote, t, markets[m].fees_accrued)
         /\ DueOf(m, markets'[m], t) = LockedOf(p, after, t) + In(p.quote, t, markets[m].fees_accrued)
         BY <1>1, <1>2 DEF DueOf
  <1> HIDE DEF p, book, rest
  <1>21. /\ DueOf(m, markets[m], t) \in Nat /\ DueOf(m, markets'[m], t) \in Nat
         /\ HeldBy(accounts', t) + DueOf(m, markets'[m], t) <= HeldBy(accounts, t) + DueOf(m, markets[m], t)
         /\ HeldBy(accounts', t) + DueOf(m, markets'[m], t) = HeldBy(accounts, t) + DueOf(m, markets[m], t)
         BY <1>4, <1>6, <1>7, <1>8, <1>9, <1>16, <1>17, <1>18, <1>19, <1>20
  <1>. QED  BY <1>2, <1>9, <1>18, <1>21 DEF Settled, SettledExactly

(* The orders in ids of market m are cancelled: each account is saved as   *)
(* refunded, with what its orders among them lock.                         *)
Cancels(m, ids, refunded) ==
  /\ ids \in SUBSET DOMAIN markets[m].book
  /\ \A i \in ids : markets[m].book[i].owner \in DOMAIN accounts
  /\ refunded = [b \in DOMAIN accounts |-> refunded[b]]
  /\ \A b \in DOMAIN accounts :
       /\ IsAccount(refunded[b])
       /\ \A t : Balance(refunded[b], t)
                   = Balance(accounts[b], t)
                       + SumFunctionOnSet(Locks(MarketParams[m], markets[m].book, t),
                                          OwnedBy(markets[m].book, ids, b))
  /\ CommitCancels(m, ids, refunded)

(* internal_cancel_order                                                   *)
LEMMA CancelOrderCancels ==
  ASSUME TypeOK, NEW a, NEW m \in Markets, NEW id,
         InternalCancelOrder(a, m, id)
  PROVE  \E ids, refunded : Cancels(m, ids, refunded)
PROOF
  <1> DEFINE book == markets[m].book
             locks(t) == Locks(MarketParams[m], book, t)
             after == Refunded(accounts[a], m, {id})
             refunded == [accounts EXCEPT ![a] = after]
  <1>1. /\ a \in DOMAIN accounts /\ {id} \in SUBSET DOMAIN book
        /\ book[id].owner = a
        /\ CommitCancels(m, {id}, refunded)
        BY DEF InternalCancelOrder
  <1>2. /\ accounts = [b \in DOMAIN accounts |-> accounts[b]]
        /\ \A b \in DOMAIN accounts : IsAccount(accounts[b]) /\ \A t : Balance(accounts[b], t) \in Nat
        BY BalanceType DEF TypeOK
  <1>3. /\ IsAccount(after)
        /\ \A t : Balance(after, t) = Balance(accounts[a], t) + SumFunctionOnSet(locks(t), {id})
        BY <1>1, <1>2, RefundedBalance
  <1>4. /\ OwnedBy(book, {id}, a) = {id}
        /\ \A b \in DOMAIN accounts \ {a} : OwnedBy(book, {id}, b) = {}
        BY <1>1 DEF OwnedBy
  <1> HIDE DEF locks, after
  <1>5. /\ refunded = [b \in DOMAIN accounts |-> refunded[b]]
        /\ refunded[a] = after
        /\ \A b \in DOMAIN accounts \ {a} : refunded[b] = accounts[b]
        BY <1>1, <1>2
  <1> HIDE DEF refunded
  <1>6. ASSUME NEW b \in DOMAIN accounts
        PROVE  /\ IsAccount(refunded[b])
               /\ \A t : Balance(refunded[b], t)
                           = Balance(accounts[b], t) + SumFunctionOnSet(locks(t), OwnedBy(book, {id}, b))
    <2>1. CASE b = a
          BY <1>3, <1>4, <1>5, <2>1
    <2>2. CASE b # a
      <3>1. refunded[b] = accounts[b] /\ \A t : SumFunctionOnSet(locks(t), OwnedBy(book, {id}, b)) = 0
            BY <1>4, <1>5, <2>2, SumOfEmpty
      <3>. QED  BY <1>2, <3>1
    <2>. QED  BY <2>1, <2>2
  <1>7. Cancels(m, {id}, refunded)
        BY <1>1, <1>5, <1>6 DEF Cancels, locks
  <1>. QED  BY <1>7

(* internal_cancel_all_orders                                              *)
LEMMA CancelAllOrdersCancels ==
  ASSUME TypeOK, NEW a, NEW m \in Markets,
         InternalCancelAllOrders(a, m)
  PROVE  \E ids, refunded : Cancels(m, ids, refunded)
PROOF
  <1> DEFINE book   == markets[m].book
             locks(t) == Locks(MarketParams[m], book, t)
             listed == accounts[a].open[m]
             found  == listed \cap DOMAIN book
             first  == Refunded(accounts[a], m, found)
             after  == RemoveOrderInfos(first, m, listed)
             refunded == [accounts EXCEPT ![a] = after]
  <1>1. /\ a \in DOMAIN accounts /\ found \in SUBSET DOMAIN book
        /\ \A i \in found : book[i].owner = a
        /\ CommitCancels(m, found, refunded)
        BY DEF InternalCancelAllOrders
  <1>2. /\ accounts = [b \in DOMAIN accounts |-> accounts[b]]
        /\ \A b \in DOMAIN accounts : IsAccount(accounts[b]) /\ \A t : Balance(accounts[b], t) \in Nat
        BY BalanceType DEF TypeOK
  <1> HIDE DEF found
  <1>3. /\ IsAccount(first)
        /\ \A t : Balance(first, t) = Balance(accounts[a], t) + SumFunctionOnSet(locks(t), found)
        BY <1>1, <1>2, RefundedBalance
  <1>4. OwnedBy(book, found, a) = found /\ \A b \in DOMAIN accounts \ {a} : OwnedBy(book, found, b) = {}
        BY <1>1 DEF OwnedBy
  <1> HIDE DEF locks, first
  <1>5. IsAccount(after) /\ \A t : Balance(after, t) = Balance(first, t)
    <2> HIDE DEF listed
    <2>1. IsAccount(after)
          BY <1>3, RemoveOrderInfosFacts
    <2>2. \A t : Balance(after, t) = Balance(first, t)
          BY <1>3, ListingBalance
    <2>. QED  BY <2>1, <2>2
  <1> HIDE DEF after
  <1>6. /\ refunded = [b \in DOMAIN accounts |-> refunded[b]]
        /\ refunded[a] = after
        /\ \A b \in DOMAIN accounts \ {a} : refunded[b] = accounts[b]
        BY <1>1, <1>2
  <1> HIDE DEF refunded
  <1>7. ASSUME NEW b \in DOMAIN accounts
        PROVE  /\ IsAccount(refunded[b])
               /\ \A t : Balance(refunded[b], t)
                           = Balance(accounts[b], t) + SumFunctionOnSet(locks(t), OwnedBy(book, found, b))
    <2>1. CASE b = a
          BY <1>3, <1>4, <1>5, <1>6, <2>1
    <2>2. CASE b # a
      <3>1. refunded[b] = accounts[b] /\ \A t : SumFunctionOnSet(locks(t), OwnedBy(book, found, b)) = 0
            BY <1>4, <1>6, <2>2, SumOfEmpty
      <3>. QED  BY <1>2, <3>1
    <2>. QED  BY <2>1, <2>2
  <1>8. Cancels(m, found, refunded)
        BY <1>1, <1>6, <1>7 DEF Cancels, locks
  <1>. QED  BY <1>8

(* admin_clear_orderbook                                                   *)
LEMMA ClearOrderbookCancels ==
  ASSUME TypeOK, NEW m \in Markets, NEW limit,
         AdminClearOrderbook(m, limit)
  PROVE  \E ids, refunded : Cancels(m, ids, refunded)
PROOF
  <1> DEFINE book  == markets[m].book
             locks(t) == Locks(MarketParams[m], book, t)
             upto(i) == {j \in DOMAIN book : j = i \/ IteratedBefore(book, j, i)}
             ids   == {i \in DOMAIN book : Cardinality(upto(i)) <= limit}
             own(b) == OwnedBy(book, ids, b)
             refunded == [b \in DOMAIN accounts |->
                            IF own(b) = {} THEN accounts[b] ELSE Refunded(accounts[b], m, own(b))]
  <1>1. /\ CommitCancels(m, ids, refunded)
        /\ \A i \in ids : book[i].owner \in DOMAIN accounts
        BY DEF AdminClearOrderbook, OwnedBy
  <1>2. ids \in SUBSET DOMAIN book
        OBVIOUS
  <1> HIDE DEF ids
  <1>3. \A b : own(b) \in SUBSET DOMAIN book
        BY <1>2 DEF OwnedBy
  <1>4. \A b \in DOMAIN accounts : IsAccount(accounts[b]) /\ \A t : Balance(accounts[b], t) \in Nat
        BY BalanceType DEF TypeOK
  <1>5. /\ refunded = [b \in DOMAIN accounts |-> refunded[b]]
        /\ \A b \in DOMAIN accounts :
             refunded[b] = IF own(b) = {} THEN accounts[b] ELSE Refunded(accounts[b], m, own(b))
        OBVIOUS
  <1> HIDE DEF refunded
  <1>6. ASSUME NEW b \in DOMAIN accounts
        PROVE  /\ IsAccount(refunded[b])
               /\ \A t : Balance(refunded[b], t) = Balance(accounts[b], t) + SumFunctionOnSet(locks(t), own(b))
    <2>1. CASE own(b) = {}
      <3>1. refunded[b] = accounts[b] /\ \A t : SumFunctionOnSet(locks(t), own(b)) = 0
            BY <1>5, <2>1, SumOfEmpty
      <3>. QED  BY <1>4, <3>1
    <2>2. CASE own(b) # {}
      <3>1. refunded[b] = Refunded(accounts[b], m, own(b))
            BY <1>5, <2>2
      <3>2. /\ IsAccount(Refunded(accounts[b], m, own(b)))
            /\ \A t : Balance(Refunded(accounts[b], m, own(b)), t)
                        = Balance(accounts[b], t) + SumFunctionOnSet(locks(t), own(b))
        <4> HIDE DEF own
        <4>. QED  BY <1>3, <1>4, RefundedBalance
      <3>. QED  BY <3>1, <3>2
    <2>. QED  BY <2>1, <2>2
  <1> HIDE DEF locks
  <1>7. Cancels(m, ids, refunded)
        BY <1>1, <1>2, <1>5, <1>6 DEF Cancels, locks
  <1>. QED  BY <1>7

(* The owner's switches of a market leave its orders, its fees and all the *)
(* accounts alone.                                                         *)
Switches ==
  /\ accounts' = accounts
  /\ prev_order_sequence_number' = prev_order_sequence_number
  /\ \A k \in Markets : /\ markets'[k].book = markets[k].book
                        /\ markets'[k].fees_accrued = markets[k].fees_accrued

(* What the owner does to a market cancels orders or flips a switch.       *)
LEMMA AdminCancels ==
  ASSUME TypeOK, NEW m \in Markets, Admin(m)
  PROVE  Switches \/ \E ids, refunded : Cancels(m, ids, refunded)
PROOF
  <1>0. /\ markets[m] \in [state : MarketStates, book : {markets[m].book}, fees_accrued : Nat,
                           minimum_bid_bps : BidWindows, maximum_ask_bps : AskWindows]
        /\ markets = [k \in Markets |-> markets[k]]
        BY DEF TypeOK, IsMarket
  <1>1. ASSUME NEW id, AdminCancelOrder(m, id) PROVE \E ids, refunded : Cancels(m, ids, refunded)
        BY <1>1, CancelOrderCancels DEF AdminCancelOrder
  <1>2. ASSUME NEW a, AdminCancelAllUserOrders(a, m)
        PROVE  \E ids, refunded : Cancels(m, ids, refunded)
        BY <1>2, CancelAllOrdersCancels DEF AdminCancelAllUserOrders
  <1>3. ASSUME NEW limit, AdminClearOrderbook(m, limit)
        PROVE  \E ids, refunded : Cancels(m, ids, refunded)
        BY <1>3, ClearOrderbookCancels
  <1>4. ASSUME NEW state, SetMarketState(m, state) PROVE Switches
        BY <1>0, <1>4 DEF SetMarketState, Switches
  <1>5. ASSUME NEW bps, SetMarketBidWindow(m, bps) PROVE Switches
        BY <1>0, <1>5 DEF SetMarketBidWindow, Switches
  <1>6. ASSUME NEW bps, SetMarketAskWindow(m, bps) PROVE Switches
        BY <1>0, <1>6 DEF SetMarketAskWindow, Switches
  <1>. QED  BY <1>1, <1>2, <1>3, <1>4, <1>5, <1>6 DEF Admin

(* Every step places an order, cancels some or flips a switch.             *)
LEMMA StepKinds ==
  ASSUME TypeOK, Next
  PROVE  \/ Switches
         \/ \E m \in Markets : \E ids, refunded : Cancels(m, ids, refunded)
         \/ \E m \in Markets, a \in Traders, referrer \in Optional(Referrers) :
              /\ PlacesOrder(a)
              /\ \E o, taker : Places(m, a, o, referrer, taker)
PROOF
  <1>1. Switch => Switches
        BY DEF Switch, SetContractState, Switches
  <1>2. ASSUME NEW m \in Markets, Cancel(m) PROVE \E ids, refunded : Cancels(m, ids, refunded)
        BY <1>2, CancelOrderCancels, CancelAllOrdersCancels DEF Cancel, CancelOrder, CancelAllOrders
  <1>3. ASSUME NEW m \in Markets, NewOrder(m)
        PROVE  \E a \in Traders, referrer \in Optional(Referrers) :
                 PlacesOrder(a) /\ \E o, taker : Places(m, a, o, referrer, taker)
        BY <1>3, NewOrderPlaces DEF PlacesOrder
  <1>. QED  BY <1>1, <1>2, <1>3, AdminCancels DEF Next

-----------------------------------------------------------------------------
(* The whole exchange.                                                     *)

(* What accounts accs and markets in these states are owed.                *)
OwedOf(accs, states, t) ==
  HeldBy(accs, t) + SumFunctionOnSet([k \in Markets |-> DueOf(k, states[k], t)], Markets)

(* Owed is OwedOf the current state.                                       *)
LEMMA OwedNow ==
  ASSUME NEW t
  PROVE  Owed(t) = OwedOf(accounts, markets, t) /\ Owed(t)' = OwedOf(accounts', markets', t)
PROOF
  <1>1. \A k \in Markets : /\ LockedIn(k, t) + FeesHeld(k, t) = DueOf(k, markets[k], t)
                           /\ LockedIn(k, t)' + FeesHeld(k, t)' = DueOf(k, markets'[k], t)
        BY DEF LockedIn, LockedOf, FeesHeld, In, DueOf
  <1>2. BalancesHeld(t) = HeldBy(accounts, t) /\ BalancesHeld(t)' = HeldBy(accounts', t)
        BY DEF BalancesHeld, HeldBy
  <1>3. /\ [k \in Markets |-> LockedIn(k, t) + FeesHeld(k, t)]
             = [k \in Markets |-> DueOf(k, markets[k], t)]
        /\ [k \in Markets |-> LockedIn(k, t)' + FeesHeld(k, t)']
             = [k \in Markets |-> DueOf(k, markets'[k], t)]
        BY <1>1
  <1>. QED  BY <1>2, <1>3 DEF Owed, OwedOf, SumFunction

(* What a market owes is a natural.                                        *)
LEMMA DueType ==
  ASSUME TypeOK, NEW k \in Markets, NEW t
  PROVE  DueOf(k, markets[k], t) \in Nat
PROOF
  <1> DEFINE book == markets[k].book
             p == MarketParams[k]
  <1>1. /\ IsBook(book, prev_order_sequence_number) /\ prev_order_sequence_number \in Nat
        /\ IsMarketParams(p) /\ markets[k].fees_accrued \in Nat
        BY ParamsFacts DEF TypeOK, IsMarket, IsBook
  <1>2. LockedOf(p, book, t) \in Nat
    <2> HIDE DEF book, p
    <2>. QED  BY <1>1, LockedSum
  <1>. QED  BY <1>1, <1>2 DEF DueOf, In

(* A step that settles in one market creates nothing, and loses nothing if *)
(* it settles to the unit.                                                 *)
LEMMA SettledOwed ==
  ASSUME TypeOK, NEW m \in Markets, NEW t, Settled(m, t)
  PROVE  /\ Owed(t)' <= Owed(t) /\ Owed(t) \in Nat /\ Owed(t)' \in Nat
         /\ SettledExactly(m, t) => Owed(t)' = Owed(t)
PROOF
  <1> DEFINE f == [k \in Markets |-> DueOf(k, markets[k], t)]
             g == [k \in Markets |-> DueOf(k, markets'[k], t)]
  <1>1. \A k \in Markets : f[k] \in Nat /\ f[k] = DueOf(k, markets[k], t)
        BY DueType
  <1>2. /\ g[m] \in Nat
        /\ \A k \in Markets \ {m} : g[k] = f[k]
        /\ HeldBy(accounts, t) \in Nat /\ HeldBy(accounts', t) \in Nat
        /\ HeldBy(accounts', t) + g[m] <= HeldBy(accounts, t) + f[m]
        /\ SettledExactly(m, t) => HeldBy(accounts', t) + g[m] = HeldBy(accounts, t) + f[m]
        BY DEF Settled, SettledExactly
  <1>3. /\ Owed(t) = HeldBy(accounts, t) + SumFunctionOnSet(f, Markets)
        /\ Owed(t)' = HeldBy(accounts', t) + SumFunctionOnSet(g, Markets)
        BY OwedNow DEF OwedOf
  <1> HIDE DEF f, g
  <1>4. \A k \in Markets : f[k] \in Nat /\ g[k] \in Nat /\ f[k] \in Int /\ g[k] \in Int
        BY <1>1, <1>2
  <1>5. SumFunctionOnSet(g, Markets) = SumFunctionOnSet(f, Markets) + g[m] - f[m]
        BY <1>2, <1>4, FinitenessAssumption, SumChange
  <1>6. SumFunctionOnSet(f, Markets) \in Nat /\ SumFunctionOnSet(g, Markets) \in Nat
        BY <1>4, FinitenessAssumption, SumNat
  <1>. QED  BY <1>2, <1>3, <1>4, <1>5, <1>6

(* No step makes the exchange owe more, or less if nothing rounds.         *)
LEMMA OwedNeverGrows ==
  ASSUME TypeOK, Next, NEW t, Owed(t) \in Nat
  PROVE  /\ Owed(t)' <= Owed(t) /\ Owed(t)' \in Nat
         /\ AlignedBids /\ NoSelfReferral /\ AllEven => Owed(t)' = Owed(t)
PROOF
  <1>0. IsFiniteSet(DOMAIN accounts)
        BY FinitenessAssumption, FS_Subset DEF TypeOK
  <1>1. CASE Switches
    <2>1. \A k \in Markets : DueOf(k, markets'[k], t) = DueOf(k, markets[k], t)
          BY <1>1 DEF Switches, DueOf
    <2>2. [k \in Markets |-> DueOf(k, markets'[k], t)] = [k \in Markets |-> DueOf(k, markets[k], t)]
          BY <2>1
    <2>3. Owed(t)' = Owed(t)
          BY <1>1, <2>2, OwedNow DEF Switches, OwedOf
    <2>. QED  BY <2>3
  <1>2. ASSUME NEW m \in Markets, NEW ids, NEW refunded, Cancels(m, ids, refunded)
        PROVE  Owed(t)' = Owed(t) /\ Owed(t)' \in Nat
    <2>1. Settled(m, t) /\ SettledExactly(m, t)
          BY <1>0, <1>2, CancelledSettled DEF Cancels
    <2>. QED  BY <2>1, SettledOwed
  <1>3. ASSUME NEW m \in Markets, NEW a \in Traders, NEW referrer \in Optional(Referrers),
               NEW o, NEW taker, Places(m, a, o, referrer, taker)
        PROVE  /\ Owed(t)' <= Owed(t) /\ Owed(t)' \in Nat
               /\ AlignedBids /\ NoSelfReferral /\ AllEven => Owed(t)' = Owed(t)
        BY <1>0, <1>3, OrderSettled, SettledOwed DEF AllEven
  <1>. QED  BY <1>1, <1>2, <1>3, StepKinds

(* Books keep even prices if all prices are aligned.                       *)
LEMMA EvenStays ==
  ASSUME TypeOK, Next, AlignedBids, AllEven
  PROVE  AllEven'
PROOF
  <1>0. IsFiniteSet(DOMAIN accounts)
        BY FinitenessAssumption, FS_Subset DEF TypeOK
  <1>1. CASE OrdersShrink /\ prev_order_sequence_number' = prev_order_sequence_number
    <2> SUFFICES ASSUME NEW m \in Markets, NEW i \in OnSide(markets'[m].book, "Buy")
                 PROVE  IsEven(MarketParams[m], markets'[m].book[i].price)
        BY DEF AllEven, EvenBids
    <2> DEFINE n == prev_order_sequence_number
               x == markets'[m].book[i]
               y == markets[m].book[i]
    <2>1. i \in DOMAIN markets'[m].book /\ x.side = "Buy"
          BY DEF OnSide
    <2>2. /\ i \in DOMAIN markets[m].book
          /\ [x EXCEPT !.qty = 0] = [y EXCEPT !.qty = 0]
      <3>1. i \notin DOMAIN markets[m].book => n < i /\ i <= n
            BY <1>1, <2>1 DEF OrdersShrink
      <3>2. i \in Nat /\ n \in Nat
        <4>1. TypeOK' /\ n \in Nat
              BY StepFacts DEF TypeOK
        <4>2. IsBook(markets'[m].book, n) /\ n \in Nat
              BY <1>1, <4>1 DEF TypeOK, IsMarket, IsBook
        <4> HIDE DEF n
        <4>. QED  BY <2>1, <4>2, BookFinite
      <3> HIDE DEF n
      <3>3. i \in DOMAIN markets[m].book
            BY <3>1, <3>2
      <3>. QED  BY <1>1, <2>1, <3>3 DEF OrdersShrink
    <2>3. x \in RestingOrder /\ y \in RestingOrder
      <3>1. TypeOK' /\ prev_order_sequence_number' = n
            BY <1>1, StepFacts
      <3>2. n \in Nat /\ IsBook(markets[m].book, n) /\ IsBook(markets'[m].book, n)
            BY <3>1 DEF TypeOK, IsMarket, IsBook
      <3> HIDE DEF n
      <3>. QED  BY <2>1, <2>2, <3>2, BookFinite
    <2> HIDE DEF x, y
    <2>4. /\ [x EXCEPT !.qty = 0].side = x.side /\ [y EXCEPT !.qty = 0].side = y.side
          /\ [x EXCEPT !.qty = 0].price = x.price /\ [y EXCEPT !.qty = 0].price = y.price
          BY <2>3 DEF RestingOrder
    <2>5. y.side = "Buy" /\ y.price = x.price
          BY <2>1, <2>2, <2>4 DEF x
    <2>6. IsEven(MarketParams[m], y.price)
          BY <2>2, <2>5 DEF AllEven, EvenBids, OnSide, y
    <2>. QED  BY <2>5, <2>6 DEF x
  <1>2. ASSUME NEW m \in Markets, NEW a \in Traders, NEW referrer \in Optional(Referrers),
               NEW o, NEW taker, Places(m, a, o, referrer, taker)
        PROVE  AllEven'
    <2>1. /\ EvenBids(MarketParams[m], markets'[m].book)
          /\ \A k \in Markets \ {m} : markets'[k] = markets[k]
          BY <1>0, <1>2, OrderSettled DEF AllEven, Settled
    <2>. QED  BY <2>1 DEF AllEven
  <1>3. OrdersShrink
        BY ShrinkInStep
  <1>4. /\ Switches => prev_order_sequence_number' = prev_order_sequence_number
        /\ \A m, ids, refunded :
             Cancels(m, ids, refunded) => prev_order_sequence_number' = prev_order_sequence_number
        BY DEF Switches, Cancels, CommitCancels
  <1>. QED  BY <1>1, <1>2, <1>3, <1>4, StepKinds

(* At first the exchange owes exactly what was deposited.                  *)
LEMMA OwedAtFirst ==
  ASSUME Init, NEW t
  PROVE  Owed(t) = Endowment(t) /\ Owed(t) \in Nat
PROOF
  <1> DEFINE f == [k \in Markets |-> DueOf(k, markets[k], t)]
             h == [a \in DOMAIN InitialAccounts |-> Balance(InitialAccounts[a], t)]
  <1>1. \A k \in Markets : f[k] = 0
    <2> TAKE k \in Markets
    <2>1. markets[k].book = EmptyBook /\ markets[k].fees_accrued = 0
          BY DEF Init
    <2>2. LockedOf(MarketParams[k], EmptyBook, t) = 0
      <3> DEFINE none == {i \in DOMAIN EmptyBook : RefundToken(MarketParams[k], EmptyBook[i]) = t}
                 g == [i \in none |-> GetRefundAmount(MarketParams[k], EmptyBook[i])]
      <3>1. none = {}
            BY DEF EmptyBook
      <3>2. LockedOf(MarketParams[k], EmptyBook, t) = SumFunctionOnSet(g, none)
            BY DEF LockedOf, SumFunction
      <3> HIDE DEF g, none
      <3>. QED  BY <3>1, <3>2, SumOfEmpty
    <2>. QED  BY <2>1, <2>2 DEF DueOf, In
  <1>2. Endowment(t) = SumFunctionOnSet(h, DOMAIN InitialAccounts)
        /\ HeldBy(accounts, t) = Endowment(t)
        BY DEF Endowment, HeldBy, SumFunction, Init
  <1>3. \A a \in DOMAIN InitialAccounts : h[a] \in Nat
        BY InitialAccountsAssumption, BalanceType
  <1>4. IsFiniteSet(DOMAIN InitialAccounts)
        BY InitialAccountsAssumption, FinitenessAssumption, FS_Subset
  <1>5. Owed(t) = HeldBy(accounts, t) + SumFunctionOnSet(f, Markets)
        BY OwedNow DEF OwedOf
  <1> HIDE DEF f, h
  <1>6. SumFunctionOnSet(f, Markets) = 0
        BY <1>1, FinitenessAssumption, SumOfZeros
  <1>7. SumFunctionOnSet(h, DOMAIN InitialAccounts) \in Nat
        BY <1>3, <1>4, SumNat
  <1>. QED  BY <1>2, <1>5, <1>6, <1>7

(* The inductive form of Solvent.                                          *)
Balanced == \A token \in Tokens : Owed(token) \in Nat /\ Owed(token) <= Endowment(token)

(* The exchange never owes more of a token than was deposited, whatever    *)
(* the accounts, markets, rates, lot sizes, orders and roundings.          *)
THEOREM SolvencyHolds == Spec => []Solvent
PROOF
  <1>1. Init => Balanced
    <2> SUFFICES ASSUME Init, NEW token \in Tokens
                 PROVE  Owed(token) \in Nat /\ Owed(token) <= Endowment(token)
        BY DEF Balanced
    <2>. QED  BY OwedAtFirst
  <1>2. TypeOK /\ Balanced /\ [Next]_vars => Balanced'
    <2>0. \A token \in Tokens : Endowment(token)' = Endowment(token)
          BY DEF Endowment
    <2>1. ASSUME TypeOK, Balanced, Next PROVE Balanced'
      <3> SUFFICES ASSUME NEW token \in Tokens
                   PROVE  Owed(token)' \in Nat /\ Owed(token)' <= Endowment(token)
          BY <2>0 DEF Balanced
      <3>1. Owed(token) \in Nat /\ Owed(token) <= Endowment(token)
            BY <2>1 DEF Balanced
      <3>2. Owed(token)' <= Owed(token) /\ Owed(token)' \in Nat
            BY <2>1, <3>1, OwedNeverGrows
      <3>3. Endowment(token) \in Int
        <4> DEFINE h == [a \in DOMAIN InitialAccounts |-> Balance(InitialAccounts[a], token)]
        <4>1. \A a \in DOMAIN InitialAccounts : h[a] \in Int
              BY InitialAccountsAssumption, BalanceType
        <4>2. IsFiniteSet(DOMAIN InitialAccounts)
              BY InitialAccountsAssumption, FinitenessAssumption, FS_Subset
        <4>3. Endowment(token) = SumFunctionOnSet(h, DOMAIN InitialAccounts)
              BY DEF Endowment, SumFunction
        <4> HIDE DEF h
        <4>. QED  BY <4>1, <4>2, <4>3, SumType
      <3>. QED  BY <3>1, <3>2, <3>3
    <2>2. ASSUME Balanced, UNCHANGED vars PROVE Balanced'
      <3>1. \A token \in Tokens : Owed(token)' = Owed(token)
        <4> TAKE token \in Tokens
        <4>. QED  BY <2>2, OwedNow DEF vars
      <3>. QED  BY <2>0, <2>2, <3>1 DEF Balanced
    <2>. QED  BY <2>1, <2>2
  <1>3. Balanced => Solvent
        BY DEF Balanced, Solvent
  <1>. QED  BY <1>1, <1>2, <1>3, TypeCorrect, PTL DEF Spec

(* Nothing is lost either, if bids can only name prices that are whole     *)
(* numbers of lots and cost whole amounts of quote a lot, and if nobody    *)
(* who trades is named as a referrer: then all the exchange owes is what   *)
(* was deposited, to the unit, in spite of all the fees and rebates that   *)
(* are rounded on the way.  Each condition is needed: without it the       *)
(* exchange loses what a lock or a fill rounds away, or the rebate of a    *)
(* taker that is its own referrer.                                         *)
THEOREM ConservedHolds ==
  ASSUME AlignedBids, NoSelfReferral
  PROVE  Spec => []Conserved
PROOF
  <1> DEFINE Kept == AllEven /\ \A token \in Tokens : Owed(token) = Endowment(token) /\ Owed(token) \in Nat
  <1>1. Init => Kept
    <2> SUFFICES ASSUME Init PROVE Kept
        OBVIOUS
    <2>1. AllEven
          BY DEF AllEven, EvenBids, OnSide, Init, EmptyBook
    <2>. QED  BY <2>1, OwedAtFirst
  <1>2. TypeOK /\ Kept /\ [Next]_vars => Kept'
    <2>0. \A token \in Tokens : Endowment(token)' = Endowment(token)
          BY DEF Endowment
    <2>1. ASSUME TypeOK, Kept, Next PROVE Kept'
      <3>1. AllEven'
            BY <2>1, EvenStays
      <3>2. ASSUME NEW token \in Tokens
            PROVE  Owed(token)' = Owed(token) /\ Owed(token)' \in Nat
            BY <2>1, OwedNeverGrows
      <3>. QED  BY <2>0, <2>1, <3>1, <3>2
    <2>2. ASSUME Kept, UNCHANGED vars PROVE Kept'
      <3>1. \A token \in Tokens : Owed(token)' = Owed(token)
        <4> TAKE token \in Tokens
        <4>. QED  BY <2>2, OwedNow DEF vars
      <3>2. AllEven'
            BY <2>2 DEF AllEven, vars
      <3>. QED  BY <2>0, <2>2, <3>1, <3>2
    <2>. QED  BY <2>1, <2>2
  <1>3. Kept => Conserved
        BY DEF Conserved
  <1> HIDE DEF Kept
  <1>. QED  BY <1>1, <1>2, <1>3, TypeCorrect, PTL DEF Spec

-----------------------------------------------------------------------------
(* What Exchange never does to those who did not place the order: nobody   *)
(* else pays, and the maker of an order that is hit gets all it is due,    *)
(* however many of its orders one taker hits.                              *)

(* The fills of orders of account b.                                       *)
OwnFills(book, fills, b) == {i \in DOMAIN fills : book[i].owner = b}

(* An order credits every other account at least what its fills pay: the   *)
(* referrer gets its share on top of what its own fills pay it.            *)
LEMMA OthersCredited ==
  ASSUME TypeOK, NEW m \in Markets, NEW a, NEW referrer, NEW o, NEW taker,
         Places(m, a, o, referrer, taker), NEW b \in DOMAIN accounts \ {a}, NEW t
  PROVE  LET book  == markets[m].book
             fills == Matches(MarketParams[m], book, o)
             paid  == SumFunctionOnSet(Credits(m, fills, o.side, t), OwnFills(book, fills, b))
         IN  /\ paid \in Nat /\ Balance(accounts[b], t) \in Nat /\ Balance(accounts'[b], t) \in Nat
             /\ Balance(accounts'[b], t) >= Balance(accounts[b], t) + paid
PROOF
  <1> DEFINE p      == MarketParams[m]
             book   == markets[m].book
             fills  == Matches(p, book, o)
             fee    == TakerFee(p.taker_rate, QuoteTraded(m, fills))
             rebate == TotalMakerRebate(m, fills)
             rest   == fee - rebate
             settled == SettleMakerFills(m, fills, o.side)
             credited == Deposit(settled[b], p.quote, rest)
             payees == {r \in referrer : r \in DOMAIN settled
                          /\ IsStorageCovered(Deposit(settled[r], p.quote, rest))}
             ref    == SettleReferrer(settled, p.quote, referrer, rest)
             own    == OwnFills(book, fills, b)
             credits == Credits(m, fills, o.side, t)
             paid   == SumFunctionOnSet(credits, own)
  <1>1. /\ o.owner = a /\ fee >= rebate
        /\ accounts' = [ref.accounts EXCEPT ![o.owner] = taker]
        BY DEF Places, ExecuteOrder
  <1>2. ref.accounts = [r \in DOMAIN settled |-> IF r \in payees THEN Deposit(settled[r], p.quote, rest)
                                                                 ELSE settled[r]]
        BY DEF SettleReferrer, ReferrerRebate
  <1>3. AreFills(fills, book)
        BY MatchesAreFills
  <1>4. p.quote \in Tokens /\ p.taker_rate \in 0 .. FeeToBpsDivisor
        BY ParamsFacts
  <1> HIDE DEF fills, book, p
  <1>5. fee \in Nat /\ rebate \in Nat
    <2>1. QuoteTraded(m, fills) \in Nat /\ rebate \in Nat
          BY <1>3, FillAmounts DEF book
    <2>. QED  BY <1>4, <2>1, FeeBound
  <1> HIDE DEF fee, rebate
  <1>6. rest \in Nat
        BY <1>1, <1>5
  <1>7. /\ b \in DOMAIN settled /\ IsAccount(settled[b])
        /\ Balance(settled[b], t) = Balance(accounts[b], t) + paid
    <2>1. settled[b] = MakerAccount(m, fills, o.side, b, DOMAIN fills) /\ b \in DOMAIN settled
          BY DEF SettleMakerFills
    <2>2. IsAccount(MakerAccount(m, fills, o.side, b, DOMAIN fills))
          BY <1>3, MakerAccountFacts DEF book
    <2>3. Balance(MakerAccount(m, fills, o.side, b, DOMAIN fills), t) = Balance(accounts[b], t) + paid
          BY <1>3, MakerBalance DEF book, OwnFills
    <2> HIDE DEF settled, paid
    <2>. QED  BY <2>1, <2>2, <2>3
  <1>8. paid \in Nat /\ Balance(accounts[b], t) \in Nat
    <2>1. own \in SUBSET DOMAIN fills
          BY DEF OwnFills
    <2>2. /\ IsFiniteSet(own) /\ \A i \in own : credits[i] \in Nat
          BY <1>3, <2>1, FillAmounts, CreditsSum DEF book
    <2> HIDE DEF own, credits
    <2>3. paid \in Nat
          BY <2>2, SumNat
    <2>. QED  BY <2>3, BalanceType DEF TypeOK
  <1> HIDE DEF rest, settled, paid, ref, payees
  <1>9. Balance(credited, t) = Balance(settled[b], t) + In(p.quote, t, rest)
        BY <1>4, <1>6, <1>7, DepositBalance
  <1>10. accounts'[b] = IF b \in payees THEN credited ELSE settled[b]
        BY <1>1, <1>2, <1>7
  <1>11. In(p.quote, t, rest) \in Nat
        BY <1>6 DEF In
  <1>12. Balance(accounts'[b], t) >= Balance(accounts[b], t) + paid /\ Balance(accounts'[b], t) \in Nat
    <2>1. CASE b \in payees
          BY <1>7, <1>8, <1>9, <1>10, <1>11, <2>1
    <2>2. CASE b \notin payees
          BY <1>7, <1>8, <1>10, <2>2
    <2>. QED  BY <2>1, <2>2
  <1>. QED  BY <1>8, <1>12 DEF paid, credits, own, book, fills, p

(* Only the account that places an order can have less of a token after it.*)
LEMMA TakerPaysAlone ==
  ASSUME TypeOK, NEW m \in Markets, NEW a, NEW referrer, NEW o, NEW taker,
         Places(m, a, o, referrer, taker)
  PROVE  PayingAccounts \subseteq {a}
PROOF
  <1> SUFFICES ASSUME NEW b \in DOMAIN accounts \ {a}, NEW t
               PROVE  ~ (Balance(accounts'[b], t) < Balance(accounts[b], t))
      BY DEF PayingAccounts
  <1> DEFINE paid == SumFunctionOnSet(
                       Credits(m, Matches(MarketParams[m], markets[m].book, o), o.side, t),
                       OwnFills(markets[m].book, Matches(MarketParams[m], markets[m].book, o), b))
  <1>1. /\ paid \in Nat /\ Balance(accounts[b], t) \in Nat /\ Balance(accounts'[b], t) \in Nat
        /\ Balance(accounts'[b], t) >= Balance(accounts[b], t) + paid
        BY OthersCredited
  <1> HIDE DEF paid
  <1>. QED  BY <1>1

(* Cancels and switches take from nobody.                                  *)
LEMMA NobodyElsePays ==
  ASSUME TypeOK
  PROVE  /\ Switches => PayingAccounts = {}
         /\ \A m \in Markets : \A ids, refunded :
              Cancels(m, ids, refunded) =>
                PayingAccounts = {} /\ prev_order_sequence_number' = prev_order_sequence_number
PROOF
  <1>0. \A b \in DOMAIN accounts : \A t : Balance(accounts[b], t) \in Nat
        BY BalanceType DEF TypeOK
  <1>1. Switches => PayingAccounts = {}
        BY <1>0 DEF Switches, PayingAccounts
  <1>2. ASSUME NEW m \in Markets, NEW ids, NEW refunded, Cancels(m, ids, refunded)
        PROVE  PayingAccounts = {} /\ prev_order_sequence_number' = prev_order_sequence_number
    <2> DEFINE p    == MarketParams[m]
               book == markets[m].book
    <2>1. /\ accounts' = refunded
          /\ prev_order_sequence_number' = prev_order_sequence_number
          /\ ids \in SUBSET DOMAIN book
          BY <1>2 DEF Cancels, CommitCancels
    <2>2. IsBook(book, prev_order_sequence_number) /\ prev_order_sequence_number \in Nat
          /\ IsMarketParams(p)
          BY ParamsFacts DEF TypeOK, IsMarket, IsBook
    <2>3. ASSUME NEW b \in DOMAIN accounts, NEW t
          PROVE  ~ (Balance(refunded[b], t) < Balance(accounts[b], t))
      <3> DEFINE own   == OwnedBy(book, ids, b)
                 locks == Locks(p, book, t)
      <3>1. Balance(refunded[b], t) = Balance(accounts[b], t) + SumFunctionOnSet(locks, own)
            BY <1>2 DEF Cancels
      <3>2. own \in SUBSET DOMAIN book
            BY <2>1 DEF OwnedBy
      <3> HIDE DEF p, book, own
      <3>3. IsFiniteSet(own) /\ \A i \in own : locks[i] \in Nat
            BY <2>2, <3>2, BookFinite, LockedSum
      <3> HIDE DEF locks
      <3>4. SumFunctionOnSet(locks, own) \in Nat
            BY <3>3, SumNat
      <3>. QED  BY <1>0, <3>1, <3>4
    <2>. QED  BY <2>1, <2>3 DEF PayingAccounts
  <1>. QED  BY <1>1, <1>2

(* What OnlyTheTakerPays says of a step.                                   *)
OnlyTakersPay ==
  /\ \A a \in PayingAccounts : PlacesOrder(a)
  /\ \A a \in Traders : PayingAccounts \subseteq {a} \/ ~ PlacesOrder(a)

(* Only the account that places an order pays: the account whose call of   *)
(* new_order the step is, and no maker, referrer or bystander, ends with   *)
(* less available; no cancel, forced or not, and no switch takes from      *)
(* anyone.                                                                 *)
THEOREM OnlyTheTakerPaysHolds == Spec => OnlyTheTakerPays
PROOF
  <1>1. ASSUME TypeOK, Next PROVE OnlyTakersPay
    <2>1. ASSUME NEW a \in Traders, PlacesOrder(a)
          PROVE  PayingAccounts \subseteq {a}
      <3>1. PICK m \in Markets : LimitBuyBy(a, m) \/ LimitSellBy(a, m) \/ MarketOrderBy(a, m)
            BY <2>1 DEF PlacesOrder
      <3>2. PICK referrer \in Optional(Referrers) : \E o, taker : Places(m, a, o, referrer, taker)
            BY <1>1, <3>1, OrderByPlaces
      <3>. QED  BY <1>1, <3>2, TakerPaysAlone
    <2>2. PayingAccounts = {} \/ \E a \in Traders : PlacesOrder(a)
      <3>1. CASE Switches
            BY <1>1, <3>1, NobodyElsePays
      <3>2. CASE \E m \in Markets : \E ids, refunded : Cancels(m, ids, refunded)
            BY <1>1, <3>2, NobodyElsePays
      <3>. QED  BY <1>1, <3>1, <3>2, StepKinds
    <2>. QED  BY <2>1, <2>2 DEF OnlyTakersPay
  <1>2. TypeOK /\ [Next]_vars => [OnlyTakersPay]_vars
        BY <1>1
  <1>. QED  BY <1>2, TypeCorrect, PTL DEF Spec, OnlyTheTakerPays, OnlyTakersPay

-----------------------------------------------------------------------------
(* What the orders of the book lose in a step that places an order is what *)
(* was filled of them.                                                     *)
LEMMA LostIsFilled ==
  ASSUME TypeOK, NEW m \in Markets, NEW a, NEW referrer, NEW o, NEW taker,
         Places(m, a, o, referrer, taker)
  PROVE  LET old   == markets[m].book
             new   == markets'[m].book
             fills == Matches(MarketParams[m], old, o)
         IN  \A i \in DOMAIN old :
               /\ old[i].qty \in Nat /\ old[i].price \in Nat /\ old[i].side \in Sides
               /\ old[i].qty - (IF i \in DOMAIN new THEN new[i].qty ELSE 0)
                    = IF i \in DOMAIN fills THEN fills[i] ELSE 0
PROOF
  <1> DEFINE n     == prev_order_sequence_number
             p     == MarketParams[m]
             old   == markets[m].book
             fills == Matches(p, old, o)
             open  == OpenQty(p, old, o)
             full  == FullyFilled(old, fills)
             new   == BookAfter(p, old, o, n + 1)
  <1>1. IsBook(old, n) /\ n \in Nat
        BY DEF TypeOK, IsMarket, IsBook
  <1>2. markets'[m].book = new
        BY ExecuteOrderFacts DEF Places, OrderPlaced, NextSequence
  <1>3. n + 1 \notin DOMAIN old /\ \A i \in DOMAIN old : old[i] \in RestingOrder
        BY <1>1, BookFinite
  <1>4. \A i \in DOMAIN fills : i \in DOMAIN old /\ fills[i] \in 1 .. old[i].qty
        BY <1>1, MatchesFacts
  <1>5. /\ DOMAIN new = (DOMAIN old \ full) \cup (IF open > 0 THEN {n + 1} ELSE {})
        /\ \A i \in DOMAIN old \ full :
             new[i] = IF i \in DOMAIN fills THEN [old[i] EXCEPT !.qty = @ - fills[i]] ELSE old[i]
        BY <1>3 DEF BookAfter
  <1>6. full = {i \in DOMAIN fills : fills[i] = old[i].qty}
        BY DEF FullyFilled
  <1> HIDE DEF fills, open, full, new
  <1>7. ASSUME NEW i \in DOMAIN old
        PROVE  /\ old[i].qty \in Nat /\ old[i].price \in Nat /\ old[i].side \in Sides
               /\ old[i].qty - (IF i \in DOMAIN new THEN new[i].qty ELSE 0)
                    = IF i \in DOMAIN fills THEN fills[i] ELSE 0
    <2>1. old[i] \in RestingOrder /\ old[i].qty \in Nat /\ old[i].price \in Nat /\ old[i].side \in Sides
          BY <1>3 DEF RestingOrder
    <2>2. i \in DOMAIN new <=> i \notin full
          BY <1>3, <1>5
    <2>3. CASE i \in full
          BY <1>4, <1>6, <2>1, <2>2, <2>3
    <2>4. CASE i \notin full /\ i \in DOMAIN fills
      <3>1. fills[i] \in Nat
            BY <1>4, <2>1, <2>4
      <3>2. new[i].qty = old[i].qty - fills[i]
            BY <1>5, <2>1, <2>4 DEF RestingOrder
      <3>. QED  BY <2>1, <2>2, <2>4, <3>1, <3>2
    <2>5. CASE i \notin full /\ i \notin DOMAIN fills
      <3>1. new[i] = old[i]
            BY <1>5, <2>5
      <3>. QED  BY <2>1, <2>2, <2>5, <3>1
    <2>. QED  BY <2>1, <2>3, <2>4, <2>5
  <1>. QED  BY <1>2, <1>7 DEF fills

(* What a maker on this side of market m is due for x lots at its price.   *)
DueFor(m, side, x, price) ==
  IF side = "Buy" THEN BaseLotsToNative(MarketParams[m], x)
                  ELSE QuoteValueOfLots(MarketParams[m], x, price)

(* ... and for the lots its orders on this side lost in a step.            *)
DueForLost(b, m, side) ==
  [i \in DOMAIN LotsLost(b, m, side) |->
     DueFor(m, side, LotsLost(b, m, side)[i], markets[m].book[i].price)]

(* Dues are naturals; nothing is due for no lots.                          *)
LEMMA DueForFacts ==
  ASSUME NEW m \in Markets, NEW side, NEW x \in Nat, NEW price \in Nat
  PROVE  DueFor(m, side, x, price) \in Nat /\ DueFor(m, side, 0, price) = 0
PROOF
  <1> DEFINE p == MarketParams[m]
  <1>1. IsMarketParams(p)
        BY ParamsFacts
  <1>2. BaseLotsToNative(p, x) \in Nat /\ QuoteValueOfLots(p, x, price) \in Nat
        BY <1>1, LotsFacts
  <1>3. /\ p.base_lot \in Nat /\ p.base_denomination \in Nat \ {0}
        /\ QuoteLotsToNative(p, price) \in Nat
        BY <1>1, LotsFacts DEF IsMarketParams
  <1> HIDE DEF p
  <1>4. BaseLotsToNative(p, 0) = 0
        BY <1>3 DEF BaseLotsToNative
  <1>5. QuoteValueOfLots(p, 0, price) = 0
        BY <1>3, <1>4 DEF QuoteValueOfLots, QuoteValue
  <1>. QED  BY <1>2, <1>4, <1>5 DEF DueFor, p

(* When no order of account b loses a lot, nothing is due for lost lots.   *)
LEMMA NothingDue ==
  ASSUME TypeOK, NEW m \in Markets, NEW b, NEW side \in Sides,
         \A i \in DOMAIN LotsLost(b, m, side) : LotsLost(b, m, side)[i] = 0
  PROVE  SumFunction(DueForLost(b, m, side)) = 0
PROOF
  <1> DEFINE lost == LotsLost(b, m, side)
             due  == DueForLost(b, m, side)
             book == markets[m].book
  <1>1. IsBook(book, prev_order_sequence_number) /\ prev_order_sequence_number \in Nat
        BY DEF TypeOK, IsMarket, IsBook
  <1>2. DOMAIN lost \in SUBSET DOMAIN book
        BY DEF LotsLost, OnSide
  <1>3. IsFiniteSet(DOMAIN lost)
        BY <1>1, <1>2, BookFinite
  <1>4. \A i \in DOMAIN book : book[i].price \in Nat
        BY <1>1, BookFinite DEF RestingOrder
  <1>5. DOMAIN due = DOMAIN lost
        BY DEF DueForLost
  <1>6. \A i \in DOMAIN lost : due[i] = DueFor(m, side, lost[i], book[i].price)
        BY DEF DueForLost
  <1>7. \A i \in DOMAIN lost : due[i] = 0
        BY <1>2, <1>4, <1>6, DueForFacts
  <1> HIDE DEF due, lost
  <1>8. SumFunctionOnSet(due, DOMAIN due) = 0
        BY <1>3, <1>5, <1>7, SumOfZeros
  <1>. QED  BY <1>8 DEF SumFunction, due

(* What is left of order i in a book, and the orders that account b has on *)
(* a side of it.                                                           *)
QtyLeft(book, i) == IF i \in DOMAIN book THEN book[i].qty ELSE 0

OrdersOf(book, b, side) == {i \in OnSide(book, side) : book[i].owner = b}

(* What account b is due for the lots its orders on this side of market m  *)
(* lost from one book to a later one.                                      *)
DueSince(m, b, side, old, new) ==
  SumFunction([i \in OrdersOf(old, b, side) |->
                 DueFor(m, side, old[i].qty - QtyLeft(new, i), old[i].price)])

(* What an order takes from an account's orders is on the other side, and  *)
(* due for it is what its fills pay.                                       *)
LEMMA DueIsPaid ==
  ASSUME TypeOK, NEW m \in Markets, NEW o, o.side \in Sides, NEW new,
         LET old   == markets[m].book
             fills == Matches(MarketParams[m], old, o)
         IN  \A i \in DOMAIN old :
               old[i].qty - QtyLeft(new, i) = IF i \in DOMAIN fills THEN fills[i] ELSE 0,
         NEW b, NEW side \in Sides
  PROVE  LET book  == markets[m].book
             fills == Matches(MarketParams[m], book, o)
         IN  DueSince(m, b, side, book, new)
               = IF side = o.side THEN 0
                 ELSE SumFunction([i \in OwnFills(book, fills, b) |->
                                     MakerPay(m, fills, o.side, i)])
PROOF
  <1> DEFINE book  == markets[m].book
             fills == Matches(MarketParams[m], book, o)
             S     == OrdersOf(book, b, side)
             lost  == [i \in S |-> book[i].qty - QtyLeft(new, i)]
             due   == [i \in S |-> DueFor(m, side, lost[i], book[i].price)]
             own   == OwnFills(book, fills, b)
             pay   == [i \in own |-> MakerPay(m, fills, o.side, i)]
  <1>1. IsBook(book, prev_order_sequence_number) /\ prev_order_sequence_number \in Nat
        BY DEF TypeOK, IsMarket, IsBook
  <1>2. DueSince(m, b, side, book, new) = SumFunctionOnSet(due, S)
        BY DEF DueSince, SumFunction
  <1>3. \A i \in DOMAIN fills : i \in DOMAIN book /\ book[i].side # o.side
        BY <1>1, MatchesSides
  <1>4. /\ \A i : i \in S <=> i \in DOMAIN book /\ book[i].side = side /\ book[i].owner = b
        /\ S \in SUBSET DOMAIN book
        BY DEF OrdersOf, OnSide
  <1>5. /\ \A i \in DOMAIN book : book[i].price \in Nat /\ book[i].side \in Sides
        /\ \A i \in S : /\ book[i].price \in Nat
                        /\ lost[i] = IF i \in DOMAIN fills THEN fills[i] ELSE 0
    <2>1. \A i \in DOMAIN book : book[i].price \in Nat /\ book[i].side \in Sides
          BY <1>1, BookFinite DEF RestingOrder
    <2>. QED  BY <1>4, <2>1
  <1>6. \A i \in own : i \in DOMAIN fills /\ book[i].owner = b
        BY DEF OwnFills
  <1>7. IsFiniteSet(S)
        BY <1>1, <1>4, BookFinite
  <1>8. \A i \in S : due[i] = DueFor(m, side, lost[i], book[i].price)
        OBVIOUS
  <1>9. CASE side = o.side
    <2>1. \A i \in S : lost[i] = 0
          BY <1>3, <1>4, <1>5, <1>9
    <2> HIDE DEF due, lost, S
    <2>2. \A i \in S : due[i] = 0
          BY <1>5, <1>8, <2>1, DueForFacts
    <2>3. SumFunctionOnSet(due, S) = 0
          BY <1>7, <2>2, SumOfZeros
    <2>. QED  BY <1>2, <1>9, <2>3
  <1>10. CASE side # o.side
    <2>1. \A i \in own : pay[i] = MakerPay(m, fills, o.side, i) /\ pay[i] \in Nat
      <3>1. AreFills(fills, book)
            BY MatchesAreFills
      <3>2. \A i \in DOMAIN fills : MakerPay(m, fills, o.side, i) \in Nat
        <4>1. \A i \in DOMAIN fills : QuotePaid(m, fills, i) \in Nat
                                      /\ BaseLotsToNative(MarketParams[m], fills[i]) \in Nat
              BY <3>1, FillAmounts
        <4>. QED  BY <4>1 DEF MakerPay
      <3>. QED  BY <1>6, <3>2
    <2>2. own \in SUBSET S
          BY <1>3, <1>4, <1>5, <1>6, <1>10 DEF Sides
    <2>3. \A i \in own : due[i] = pay[i]
      <3> SUFFICES ASSUME NEW i \in own PROVE due[i] = pay[i]
          OBVIOUS
      <3>1. lost[i] = fills[i]
            BY <1>5, <1>6, <2>2
      <3>2. due[i] = DueFor(m, side, fills[i], book[i].price)
            BY <1>8, <2>2, <3>1
      <3>3. DueFor(m, side, fills[i], book[i].price) = MakerPay(m, fills, o.side, i)
            BY <1>10 DEF DueFor, MakerPay, QuotePaid, Sides
      <3>. QED  BY <2>1, <3>2, <3>3
    <2>4. \A i \in S \ own : due[i] = 0
      <3> SUFFICES ASSUME NEW i \in S \ own PROVE due[i] = 0
          OBVIOUS
      <3>1. i \notin DOMAIN fills
            BY <1>4 DEF OwnFills
      <3>2. lost[i] = 0 /\ book[i].price \in Nat
            BY <1>5, <3>1
      <3>. QED  BY <1>8, <3>2, DueForFacts
    <2> HIDE DEF own, pay, due, lost, fills, S
    <2>5. SumFunctionOnSet(pay, own) = SumFunctionOnSet(due, S)
          BY <1>7, <2>1, <2>2, <2>3, <2>4, SumOfPart
    <2>6. DOMAIN pay = own
          BY DEF pay
    <2>7. DueSince(m, b, side, book, new) = SumFunction(pay)
          BY <1>2, <2>5, <2>6 DEF SumFunction
    <2>. QED  BY <1>10, <2>7 DEF pay, own, fills
  <1>. QED  BY <1>9, <1>10

(* The same, of what was lost in a step.                                   *)
LEMMA DueForLostIs ==
  ASSUME NEW m, NEW b, NEW side
  PROVE  SumFunction(DueForLost(b, m, side))
           = DueSince(m, b, side, markets[m].book, markets'[m].book)
PROOF
  <1> DEFINE book == markets[m].book
             new  == markets'[m].book
             S    == OrdersOf(book, b, side)
  <1>1. LotsLost(b, m, side) = [i \in S |-> book[i].qty - QtyLeft(new, i)]
        BY Zenon DEF LotsLost, OrdersOf, QtyLeft
  <1> HIDE DEF S
  <1>2. DueForLost(b, m, side)
          = [i \in S |-> DueFor(m, side, book[i].qty - QtyLeft(new, i), book[i].price)]
        BY <1>1 DEF DueForLost
  <1>. QED  BY <1>2 DEF DueSince, S

(* ... and of the step that places the order.                              *)
LEMMA DueForFills ==
  ASSUME TypeOK, NEW m \in Markets, NEW a, NEW referrer, NEW o, NEW taker,
         Places(m, a, o, referrer, taker), NEW b, NEW side \in Sides
  PROVE  LET book  == markets[m].book
             fills == Matches(MarketParams[m], book, o)
         IN  SumFunction(DueForLost(b, m, side))
               = IF side = o.side THEN 0
                 ELSE SumFunction([i \in OwnFills(book, fills, b) |->
                                     MakerPay(m, fills, o.side, i)])
PROOF
  <1> DEFINE book == markets[m].book
             new  == markets'[m].book
  <1>1. o.side \in Sides
        BY DEF Places, IsNewOrder
  <1>2. \A i \in DOMAIN book :
          book[i].qty - QtyLeft(new, i)
            = IF i \in DOMAIN Matches(MarketParams[m], book, o)
                THEN Matches(MarketParams[m], book, o)[i] ELSE 0
        BY LostIsFilled DEF QtyLeft
  <1>3. SumFunction(DueForLost(b, m, side)) = DueSince(m, b, side, book, new)
        BY DueForLostIs
  <1>. QED  BY <1>1, <1>2, <1>3, DueIsPaid

(* An account that does not pay has not lost a token.                      *)
LEMMA KeepsWhatItHas ==
  ASSUME TypeOK, NEW b \in DOMAIN accounts \ PayingAccounts, NEW t \in Tokens,
         Balance(accounts'[b], t) \in Nat
  PROVE  Balance(accounts'[b], t) - Balance(accounts[b], t) \in Nat
PROOF
  <1>1. ~ (Balance(accounts'[b], t) < Balance(accounts[b], t))
        BY DEF PayingAccounts
  <1>2. Balance(accounts[b], t) \in Nat
        BY BalanceType DEF TypeOK
  <1>. QED  BY <1>1, <1>2

(* MadeWhole, with the sums named.                                         *)
LEMMA MadeWholeParts ==
  ASSUME NEW b,
         \A m \in Markets : \A side \in Sides :
           Balance(accounts'[b], IF side = "Buy" THEN MarketParams[m].base ELSE MarketParams[m].quote)
             - Balance(accounts[b], IF side = "Buy" THEN MarketParams[m].base ELSE MarketParams[m].quote)
             >= SumFunction(DueForLost(b, m, side))
  PROVE  MadeWhole(b)
PROOF
  <1> SUFFICES ASSUME NEW m \in Markets
               PROVE  LET p == MarketParams[m]
                          bought == LotsLost(b, m, "Buy")
                          sold == LotsLost(b, m, "Sell")
                          gain(token) == Balance(accounts'[b], token) - Balance(accounts[b], token)
                      IN  /\ gain(p.base) >= SumFunction([i \in DOMAIN bought |->
                                                            BaseLotsToNative(p, bought[i])])
                          /\ gain(p.quote) >= SumFunction([i \in DOMAIN sold |->
                               QuoteValueOfLots(p, sold[i], markets[m].book[i].price)])
      BY DEF MadeWhole
  <1>1. /\ DueForLost(b, m, "Buy")
             = [i \in DOMAIN LotsLost(b, m, "Buy") |->
                  BaseLotsToNative(MarketParams[m], LotsLost(b, m, "Buy")[i])]
        /\ DueForLost(b, m, "Sell")
             = [i \in DOMAIN LotsLost(b, m, "Sell") |->
                  QuoteValueOfLots(MarketParams[m], LotsLost(b, m, "Sell")[i], markets[m].book[i].price)]
        BY DEF DueForLost, DueFor
  <1>2. "Buy" \in Sides /\ "Sell" \in Sides /\ "Buy" # "Sell"
        BY DEF Sides
  <1>. QED  BY <1>1, <1>2, Zenon

(* The step that places an order makes every other account whole.          *)
LEMMA MadeWholeWhenPlaced ==
  ASSUME TypeOK, TypeOK', NEW m \in Markets, NEW a, NEW referrer, NEW o, NEW taker,
         Places(m, a, o, referrer, taker), NEW b \in DOMAIN accounts \ {a}
  PROVE  MadeWhole(b)
PROOF
  <1> DEFINE token(k, side) == IF side = "Buy" THEN MarketParams[k].base ELSE MarketParams[k].quote
             gain(t) == Balance(accounts'[b], t) - Balance(accounts[b], t)
             book  == markets[m].book
             fills == Matches(MarketParams[m], book, o)
             own   == OwnFills(book, fills, b)
             paid  == SumFunction([i \in own |-> MakerPay(m, fills, o.side, i)])
             rebates == SumFunction([i \in own |-> RebateOf(m, fills, i)])
             sum(t) == SumFunctionOnSet(Credits(m, fills, o.side, t), own)
  <1>1. OrderPlaced(m, o, taker) /\ o.owner = a /\ o.side \in Sides
        BY ExecuteOrderFacts DEF Places, IsNewOrder
  <1>2. b \in DOMAIN accounts' /\ IsAccount(accounts'[b]) /\ IsAccount(accounts[b])
        BY <1>1 DEF TypeOK, OrderPlaced
  <1>3. \A k \in Markets, side \in Sides : token(k, side) \in Tokens /\ gain(token(k, side)) \in Nat
    <2>1. b \in DOMAIN accounts \ PayingAccounts
          BY TakerPaysAlone
    <2>. QED  BY <1>2, <2>1, ParamsFacts, BalanceType, KeepsWhatItHas
  <1>4. ASSUME NEW k \in Markets \ {m}, NEW side \in Sides
        PROVE  gain(token(k, side)) >= SumFunction(DueForLost(b, k, side))
    <2>1. markets'[k].book = markets[k].book
          BY <1>1 DEF OrderPlaced
    <2>2. \A i \in DOMAIN markets[k].book : markets[k].book[i].qty \in Nat
          BY BookFinite DEF TypeOK, IsMarket, IsBook, RestingOrder
    <2>3. \A i \in DOMAIN LotsLost(b, k, side) : LotsLost(b, k, side)[i] = 0
          BY <2>1, <2>2 DEF LotsLost, OnSide
    <2>4. SumFunction(DueForLost(b, k, side)) = 0
          BY <2>3, NothingDue
    <2>. QED  BY <1>3, <2>4
  <1>5. ASSUME NEW side \in Sides
        PROVE  gain(token(m, side)) >= SumFunction(DueForLost(b, m, side))
    <2>1. SumFunction(DueForLost(b, m, side)) = IF side = o.side THEN 0 ELSE paid
          BY DueForFills
    <2>2. CASE side = o.side
          BY <1>3, <2>1, <2>2
    <2>3. CASE side # o.side
      <3> DEFINE t == token(m, side)
      <3>1. t = PayToken(m, o.side)
            BY <1>1, <2>3 DEF PayToken, Sides
      <3>2. own \in SUBSET DOMAIN fills /\ AreFills(fills, book)
            BY MatchesAreFills DEF OwnFills
      <3>3. /\ rebates \in Nat /\ paid \in Nat
            /\ sum(t) = In(MarketParams[m].quote, t, rebates) + In(PayToken(m, o.side), t, paid)
        <4> HIDE DEF own, fills, t
        <4>. QED  BY <3>2, CreditsSum DEF book
      <3>4. /\ sum(t) \in Nat /\ Balance(accounts[b], t) \in Nat /\ Balance(accounts'[b], t) \in Nat
            /\ Balance(accounts'[b], t) >= Balance(accounts[b], t) + sum(t)
            BY OthersCredited
      <3> HIDE DEF rebates, paid, sum, t
      <3>5. gain(t) >= paid
            BY <3>1, <3>3, <3>4 DEF In
      <3>. QED  BY <2>1, <2>3, <3>5 DEF t
    <2>. QED  BY <2>2, <2>3
  <1>. QED  BY <1>4, <1>5, MadeWholeParts

(* Every account but that of the taker is made whole.                      *)
THEOREM MakersMadeWholeHolds == Spec => MakersMadeWhole
PROOF
  <1> DEFINE Whole == prev_order_sequence_number' # prev_order_sequence_number =>
                        \A a \in DOMAIN accounts : MadeWhole(a) \/ PlacesOrder(a)
  <1>1. ASSUME TypeOK, TypeOK', Next PROVE Whole
    <2>1. ASSUME NEW m \in Markets, NEW a \in Traders, NEW referrer \in Optional(Referrers),
                 PlacesOrder(a), NEW o, NEW taker, Places(m, a, o, referrer, taker)
          PROVE  Whole
          BY <1>1, <2>1, MadeWholeWhenPlaced
    <2>2. CASE Switches
          BY <2>2 DEF Switches
    <2>3. CASE \E m \in Markets : \E ids, refunded : Cancels(m, ids, refunded)
          BY <1>1, <2>3, NobodyElsePays
    <2>. QED  BY <1>1, <2>1, <2>2, <2>3, StepKinds
  <1>2. TypeOK /\ TypeOK' /\ [Next]_vars => [Whole]_vars
        BY <1>1
  <1>. QED  BY <1>2, TypeCorrect, PTL DEF Spec, MakersMadeWhole, Whole

-----------------------------------------------------------------------------
(* Storage balances.                                                       *)

(* acc has the fields of an account and a storage balance of s.            *)
StorageIs(acc, s) ==
  acc = [balances |-> acc.balances, open |-> acc.open, storage |-> s]

(* Every account has the storage balance it has.                           *)
LEMMA StorageNow ==
  ASSUME NEW acc, IsAccount(acc)
  PROVE  StorageIs(acc, acc.storage)
BY DEF IsAccount, StorageIs

(* No operation on an account touches it.                                  *)
LEMMA StorageKept ==
  ASSUME NEW acc, NEW s, StorageIs(acc, s), NEW token, NEW amount, NEW m, NEW ids
  PROVE  /\ StorageIs(Deposit(acc, token, amount), s)
         /\ StorageIs(Withdraw(acc, token, amount), s)
         /\ StorageIs(SaveNewOrderInfo(acc, m, ids), s)
         /\ StorageIs(RemoveOrderInfos(acc, m, ids), s)
PROOF
  <1>1. acc = [balances |-> acc.balances, open |-> acc.open, storage |-> s]
        BY DEF StorageIs
  <1>2. StorageIs(Deposit(acc, token, amount), s)
        BY <1>1 DEF StorageIs, Deposit
  <1>3. StorageIs(Withdraw(acc, token, amount), s)
        BY <1>1 DEF StorageIs, Withdraw
  <1>4. StorageIs(SaveNewOrderInfo(acc, m, ids), s)
        BY <1>1 DEF StorageIs, SaveNewOrderInfo
  <1>5. StorageIs(RemoveOrderInfos(acc, m, ids), s)
        BY <1>1 DEF StorageIs, RemoveOrderInfos
  <1>. QED  BY <1>2, <1>3, <1>4, <1>5

-----------------------------------------------------------------------------
(* Orders whose taker pays from outside of the exchange: fills, fee and    *)
(* what is left of it, and the accounts, the book and the fees once the    *)
(* makers and the referrer are settled.                                    *)
FillsOf(m, o) == Matches(MarketParams[m], markets[m].book, o)

FeeOf(m, o) == TakerFee(MarketParams[m].taker_rate, QuoteTraded(m, FillsOf(m, o)))

RestOfFee(m, o) == FeeOf(m, o) - TotalMakerRebate(m, FillsOf(m, o))

SettledFor(m, o, referrer) ==
  SettleReferrer(SettleMakerFills(m, FillsOf(m, o), o.side), MarketParams[m].quote,
                 referrer, RestOfFee(m, o))

BookLeft(m, o) == BookAfter(MarketParams[m], markets[m].book, o, prev_order_sequence_number + 1)

FeesLeft(m, o, referrer) ==
  markets[m].fees_accrued + RestOfFee(m, o) - SettledFor(m, o, referrer).paid

(* Such an order posts nothing, and its settlement does not panic.         *)
CanSettle(m, o, referrer) ==
  /\ IsNewOrder(o) /\ o.type = "Market" /\ AtMostOne(referrer)
  /\ MakersCovered(m, FillsOf(m, o), o.side)
  /\ FeeOf(m, o) >= TotalMakerRebate(m, FillsOf(m, o))
  /\ FeeOf(m, o) >= SettledFor(m, o, referrer).paid + TotalMakerRebate(m, FillsOf(m, o))

(* The amounts are naturals, the fee no more than what is traded, and the  *)
(* referrer is paid all that the makers leave of the fee, or nothing.      *)
LEMMA SettledAmounts ==
  ASSUME TypeOK, NEW m \in Markets, NEW o, NEW referrer, CanSettle(m, o, referrer)
  PROVE  /\ AreFills(FillsOf(m, o), markets[m].book)
         /\ BaseTraded(m, FillsOf(m, o)) \in Nat
         /\ QuoteTraded(m, FillsOf(m, o)) \in Nat
         /\ TotalMakerRebate(m, FillsOf(m, o)) \in Nat
         /\ FeeOf(m, o) \in Nat /\ FeeOf(m, o) <= QuoteTraded(m, FillsOf(m, o))
         /\ RestOfFee(m, o) \in Nat
         /\ SettledFor(m, o, referrer).paid \in {0, RestOfFee(m, o)}
         /\ FeesLeft(m, o, referrer) \in Nat
PROOF
  <1> DEFINE fills == FillsOf(m, o)
  <1>1. AreFills(fills, markets[m].book)
        BY MatchesAreFills DEF FillsOf
  <1> HIDE DEF fills
  <1>2. BaseTraded(m, fills) \in Nat /\ QuoteTraded(m, fills) \in Nat
        /\ TotalMakerRebate(m, fills) \in Nat
        BY <1>1, FillAmounts
  <1>3. FeeOf(m, o) \in Nat /\ FeeOf(m, o) <= QuoteTraded(m, fills)
        BY <1>2, ParamsFacts, FeeBound DEF FeeOf, fills
  <1>4. RestOfFee(m, o) \in Nat
        BY <1>2, <1>3 DEF CanSettle, RestOfFee, fills
  <1>5. SettledFor(m, o, referrer).paid \in {0, RestOfFee(m, o)}
        BY DEF SettledFor, SettleReferrer, ReferrerRebate
  <1>6. FeesLeft(m, o, referrer) \in Nat
        BY <1>4, <1>5 DEF FeesLeft, TypeOK, IsMarket
  <1>. QED  BY <1>1, <1>2, <1>3, <1>4, <1>5, <1>6 DEF fills

(* The account of maker b after the fills.                                 *)
MadeOf(m, o, b) == MakerAccount(m, FillsOf(m, o), o.side, b, DOMAIN FillsOf(m, o))

(* All accounts are credited their fills, and one of them may be paid the  *)
(* rest of the fee on top.                                                 *)
LEMMA SettledParts ==
  ASSUME TypeOK, NEW m \in Markets, NEW o, NEW referrer, CanSettle(m, o, referrer)
  PROVE  \E payees \in SUBSET DOMAIN accounts :
           /\ \A r, s \in payees : r = s
           /\ LET paid(b) == Deposit(MadeOf(m, o, b), MarketParams[m].quote, RestOfFee(m, o))
              IN  /\ SettledFor(m, o, referrer).accounts
                       = [b \in DOMAIN accounts |-> IF b \in payees THEN paid(b) ELSE MadeOf(m, o, b)]
                  /\ \A b \in payees : IsStorageCovered(paid(b))
           /\ SettledFor(m, o, referrer).paid = IF payees = {} THEN 0 ELSE RestOfFee(m, o)
PROOF
  <1> DEFINE accs == SettleMakerFills(m, FillsOf(m, o), o.side)
             credited(b) == Deposit(accs[b], MarketParams[m].quote, RestOfFee(m, o))
             payees == {r \in referrer : r \in DOMAIN accs /\ IsStorageCovered(credited(r))}
  <1>1. /\ DOMAIN accs = DOMAIN accounts
        /\ \A b \in DOMAIN accounts : accs[b] = MadeOf(m, o, b)
        BY DEF SettleMakerFills, MadeOf
  <1>2. /\ SettledFor(m, o, referrer).accounts
             = [b \in DOMAIN accs |-> IF b \in payees THEN credited(b) ELSE accs[b]]
        /\ SettledFor(m, o, referrer).paid = IF payees = {} THEN 0 ELSE RestOfFee(m, o)
        BY DEF SettledFor, SettleReferrer, ReferrerRebate
  <1>3. \A r, s \in payees : r = s
        BY DEF CanSettle, AtMostOne
  <1>4. payees \in SUBSET DOMAIN accounts /\ \A b \in payees : IsStorageCovered(credited(b))
        BY <1>1
  <1> HIDE DEF accs, payees
  <1>. QED  BY <1>1, <1>2, <1>3, <1>4

(* The orders it lists then.                                               *)
OpenLeft(m, o, b) ==
  LET fills == FillsOf(m, o)
  IN  [accounts[b].open EXCEPT ![m] = @ \ FilledOf(m, fills, b, DOMAIN fills)]

(* No account opens or closes.                                             *)
LEMMA SettledDomain ==
  ASSUME TypeOK, NEW m \in Markets, NEW o, NEW referrer, CanSettle(m, o, referrer)
  PROVE  LET accs == SettledFor(m, o, referrer).accounts
         IN  accs = [b \in DOMAIN accounts |-> accs[b]]
PROOF
  <1> DEFINE accs == SettledFor(m, o, referrer).accounts
  <1>1. PICK payees \in SUBSET DOMAIN accounts :
          accs = [b \in DOMAIN accounts |->
                    IF b \in payees
                      THEN Deposit(MadeOf(m, o, b), MarketParams[m].quote, RestOfFee(m, o))
                      ELSE MadeOf(m, o, b)]
        BY SettledParts
  <1> HIDE DEF accs
  <1>2. accs = [b \in DOMAIN accounts |-> accs[b]]
        BY <1>1
  <1>. QED  BY <1>2 DEF accs

(* Makers are credited what their fills pay.                               *)
LEMMA MadeFacts ==
  ASSUME TypeOK, NEW m \in Markets, NEW o, NEW referrer, CanSettle(m, o, referrer),
         NEW b \in DOMAIN accounts
  PROVE  LET fills == FillsOf(m, o)
             own   == OwnFills(markets[m].book, fills, b)
         IN  /\ IsAccount(MadeOf(m, o, b))
             /\ MadeOf(m, o, b).open = OpenLeft(m, o, b)
             /\ MadeOf(m, o, b).storage = accounts[b].storage
             /\ StorageIs(MadeOf(m, o, b), accounts[b].storage)
             /\ IsStorageCovered(accounts[b]) => IsStorageCovered(MadeOf(m, o, b))
             /\ \A t : LET paid == SumFunctionOnSet(Credits(m, fills, o.side, t), own)
                       IN  /\ paid \in Nat /\ Balance(accounts[b], t) \in Nat
                           /\ Balance(MadeOf(m, o, b), t) = Balance(accounts[b], t) + paid
PROOF
  <1> DEFINE fills == FillsOf(m, o)
             own   == OwnFills(markets[m].book, fills, b)
             made  == MakerAccount(m, fills, o.side, b, DOMAIN fills)
             was   == accounts[b].storage
  <1>1. AreFills(fills, markets[m].book)
        BY SettledAmounts
  <1>2. IsStorageCovered(accounts[b]) => IsStorageCovered(made)
    <2>1. IsNewOrder(o) /\ MakersCovered(m, fills, o.side)
          BY DEF CanSettle
    <2>. QED  BY <2>1, MakerCoveredAtLast DEF FillsOf
  <1>3. own \in SUBSET DOMAIN fills
        BY DEF OwnFills
  <1>4. StorageIs(made, was)
    <2> DEFINE credited == MakerCredited(m, fills, o.side, b, DOMAIN fills)
    <2>1. StorageIs(accounts[b], was)
          BY StorageNow DEF TypeOK
    <2>2. credited = accounts[b]
            \/ \E x, y, v, w : credited = Deposit(Deposit(accounts[b], x, v), y, w)
          BY DEF MakerCredited
    <2> HIDE DEF credited, fills
    <2>3. StorageIs(credited, was)
          BY <2>1, <2>2, StorageKept
    <2>. QED  BY <2>3, StorageKept DEF MakerAccount, credited
  <1> HIDE DEF fills
  <1>5. /\ IsAccount(made)
        /\ made.open = [accounts[b].open EXCEPT ![m] = @ \ FilledOf(m, fills, b, DOMAIN fills)]
        BY <1>1, MakerAccountFacts
  <1>6. ASSUME NEW t
        PROVE  LET paid == SumFunctionOnSet(Credits(m, fills, o.side, t), own)
               IN  /\ paid \in Nat /\ Balance(accounts[b], t) \in Nat
                   /\ Balance(made, t) = Balance(accounts[b], t) + paid
    <2>1. /\ IsFiniteSet(own)
          /\ \A i \in own : Credits(m, fills, o.side, t)[i] \in Nat
          BY <1>1, <1>3, FillAmounts, CreditsSum
    <2>2. SumFunctionOnSet(Credits(m, fills, o.side, t), own) \in Nat
      <3> HIDE DEF own
      <3>. QED  BY <2>1, SumNat
    <2>3. Balance(accounts[b], t) \in Nat
          BY BalanceType DEF TypeOK
    <2>. QED  BY <1>1, <2>2, <2>3, MakerBalance DEF OwnFills
  <1>7. made.storage = was
        BY <1>4 DEF StorageIs
  <1> HIDE DEF made, own
  <1>8. made.open = OpenLeft(m, o, b)
        BY <1>5 DEF OpenLeft, fills
  <1>. QED  BY <1>2, <1>4, <1>5, <1>6, <1>7, <1>8 DEF made, own, fills, MadeOf

(* No account loses anything, whether its fills or the rest of the fee are *)
(* credited to it, and all keep paying for their storage.                  *)
LEMMA SettledAccounts ==
  ASSUME TypeOK, NEW m \in Markets, NEW o, NEW referrer, CanSettle(m, o, referrer),
         NEW b \in DOMAIN accounts
  PROVE  LET accs  == SettledFor(m, o, referrer).accounts
             fills == FillsOf(m, o)
         IN  /\ IsAccount(accs[b])
             /\ accs[b].open = OpenLeft(m, o, b)
             /\ accs[b].storage = accounts[b].storage
             /\ IsStorageCovered(accounts[b]) => IsStorageCovered(accs[b])
             /\ \A t : LET paid == SumFunctionOnSet(Credits(m, fills, o.side, t),
                                                    OwnFills(markets[m].book, fills, b))
                       IN  /\ paid \in Nat /\ Balance(accounts[b], t) \in Nat
                           /\ Balance(accs[b], t) \in Nat
                           /\ Balance(accs[b], t) >= Balance(accounts[b], t) + paid
PROOF
  <1> DEFINE accs  == SettledFor(m, o, referrer).accounts
             fills == FillsOf(m, o)
             q     == MarketParams[m].quote
             rest  == RestOfFee(m, o)
             made(c) == MadeOf(m, o, c)
             credited(c) == Deposit(made(c), q, rest)
             paid(t) == SumFunctionOnSet(Credits(m, fills, o.side, t),
                                         OwnFills(markets[m].book, fills, b))
  <1>1. PICK payees \in SUBSET DOMAIN accounts :
          /\ accs = [c \in DOMAIN accounts |-> IF c \in payees THEN credited(c) ELSE made(c)]
          /\ \A c \in payees : IsStorageCovered(credited(c))
        BY SettledParts
  <1>2. q \in Tokens /\ rest \in Nat
        BY SettledAmounts, ParamsFacts
  <1>3. /\ IsAccount(accs[b])
        /\ accs[b].open = OpenLeft(m, o, b)
        /\ accs[b].storage = accounts[b].storage
        /\ IsStorageCovered(accounts[b]) => IsStorageCovered(accs[b])
        /\ \A t : /\ paid(t) \in Nat /\ Balance(accounts[b], t) \in Nat
                  /\ Balance(accs[b], t) \in Nat
                  /\ Balance(accs[b], t) >= Balance(accounts[b], t) + paid(t)
    <2> HIDE DEF q, rest, fills, made
    <2>1. /\ IsAccount(made(b)) /\ StorageIs(made(b), accounts[b].storage)
          /\ made(b).open = OpenLeft(m, o, b)
          /\ made(b).storage = accounts[b].storage
          /\ IsStorageCovered(accounts[b]) => IsStorageCovered(made(b))
          /\ \A t : /\ paid(t) \in Nat /\ Balance(accounts[b], t) \in Nat
                    /\ Balance(made(b), t) = Balance(accounts[b], t) + paid(t)
          BY MadeFacts DEF made, fills
    <2>2. /\ IsAccount(credited(b)) /\ credited(b).open = made(b).open
          /\ credited(b).storage = accounts[b].storage
          /\ \A t : Balance(credited(b), t) = Balance(made(b), t) + In(q, t, rest)
      <3>1. StorageIs(credited(b), accounts[b].storage)
            BY <2>1, StorageKept
      <3>. QED  BY <1>2, <2>1, <3>1, DepositFacts, DepositBalance DEF StorageIs
    <2>3. \A t : In(q, t, rest) \in Nat
          BY <1>2 DEF In
    <2> HIDE DEF credited, paid
    <2>4. CASE b \in payees
      <3>1. accs[b] = credited(b) /\ IsStorageCovered(credited(b))
            BY <1>1, <2>4 DEF accs
      <3> HIDE DEF accs
      <3>. QED  BY <2>1, <2>2, <2>3, <3>1
    <2>5. CASE b \notin payees
      <3>1. accs[b] = made(b)
            BY <1>1, <2>5 DEF accs
      <3> HIDE DEF accs
      <3>. QED  BY <2>1, <3>1
    <2>. QED  BY <2>4, <2>5
  <1> HIDE DEF credited, made
  <1> HIDE DEF accs
  <1>. QED  BY <1>3 DEF accs, fills, paid

(* All that is credited: the rebates, what the makers are paid, and what   *)
(* the referrer is paid.                                                   *)
LEMMA SettledHeld ==
  ASSUME TypeOK, IsFiniteSet(DOMAIN accounts), NEW m \in Markets, NEW o, NEW referrer,
         CanSettle(m, o, referrer), NEW t
  PROVE  LET fills == FillsOf(m, o)
             accs  == SettledFor(m, o, referrer).accounts
         IN  /\ HeldBy(accounts, t) \in Nat /\ HeldBy(accs, t) \in Nat
             /\ HeldBy(accs, t)
                  = HeldBy(accounts, t)
                      + SumFunctionOnSet(Credits(m, fills, o.side, t), DOMAIN fills)
                      + In(MarketParams[m].quote, t, SettledFor(m, o, referrer).paid)
PROOF
  <1> DEFINE accs  == SettledFor(m, o, referrer).accounts
             fills == FillsOf(m, o)
             book  == markets[m].book
             q     == MarketParams[m].quote
             rest  == RestOfFee(m, o)
             paid  == SettledFor(m, o, referrer).paid
             made(b) == MadeOf(m, o, b)
             credited(b) == Deposit(made(b), q, rest)
             credits == Credits(m, fills, o.side, t)
             own(b) == OwnFills(book, fills, b)
             D == DOMAIN accounts
             new == [b \in D |-> Balance(accs[b], t)]
             old == [b \in D |-> Balance(accounts[b], t)]
             mkr == [b \in D |-> SumFunctionOnSet(credits, own(b))]
  <1>1. PICK payees \in SUBSET D :
          /\ \A r, s \in payees : r = s
          /\ accs = [b \in D |-> IF b \in payees THEN credited(b) ELSE made(b)]
          /\ paid = IF payees = {} THEN 0 ELSE rest
        BY SettledParts
  <1> DEFINE rfr == [b \in D |-> IF b \in payees THEN In(q, t, rest) ELSE 0]
             om  == [b \in D |-> old[b] + mkr[b]]
  <1>2. q \in Tokens /\ rest \in Nat /\ AreFills(fills, book)
        BY SettledAmounts, ParamsFacts
  <1>3. In(q, t, rest) \in Nat
        BY <1>2 DEF In
  <1>4. ASSUME NEW b \in D
        PROVE  /\ mkr[b] \in Nat /\ old[b] \in Nat /\ rfr[b] \in Nat
               /\ new[b] = om[b] + rfr[b]
    <2> HIDE DEF q, rest, fills, made, book
    <2>1. /\ IsAccount(made(b))
          /\ \A u : LET got == SumFunctionOnSet(Credits(m, fills, o.side, u), OwnFills(markets[m].book, fills, b))
                  IN  /\ got \in Nat /\ Balance(accounts[b], u) \in Nat
                      /\ Balance(made(b), u) = Balance(accounts[b], u) + got
          BY MadeFacts DEF made, fills
    <2>3. /\ SumFunctionOnSet(credits, own(b)) \in Nat /\ Balance(accounts[b], t) \in Nat
          /\ Balance(made(b), t) = Balance(accounts[b], t) + SumFunctionOnSet(credits, own(b))
          BY <2>1 DEF book
    <2> HIDE DEF credits, own
    <2>2. Balance(credited(b), t) = Balance(made(b), t) + In(q, t, rest)
          BY <1>2, <2>1, DepositBalance
    <2> HIDE DEF credited, accs
    <2>. QED  BY <1>1, <1>3, <2>1, <2>2, <2>3
  <1>5. \A i \in DOMAIN fills : book[i].owner \in D
        BY DEF CanSettle, MakersCovered
  <1>6. /\ IsFiniteSet(DOMAIN fills)
        /\ \A i \in DOMAIN fills : credits[i] \in Int
    <2>1. AreFills(fills, markets[m].book)
          BY <1>2
    <2> DEFINE S == DOMAIN fills
    <2>2. S \in SUBSET DOMAIN fills
          OBVIOUS
    <2> HIDE DEF fills
    <2>3. \A i \in DOMAIN fills : credits[i] \in Nat
          BY <2>1, FillAmounts, CreditsSum
    <2>4. IsFiniteSet(S)
      <3> HIDE DEF S
      <3>. QED  BY <2>1, <2>2, FillAmounts, CreditsSum
    <2>. QED  BY <2>3, <2>4
  <1>7. DOMAIN accs = D
        BY <1>1
  <1> HIDE DEF accs, fills, book, q, rest, paid, credits, credited, made
  <1>8. SumFunctionOnSet(mkr, D) = SumFunctionOnSet(credits, DOMAIN fills)
    <2> DEFINE w == [i \in DOMAIN fills |-> book[i].owner]
               C == [b \in D |-> own(b)]
    <2>1. \A i \in DOMAIN fills : w[i] \in D
          BY <1>5
    <2>2. \A b \in D : /\ C[b] \in SUBSET DOMAIN fills
                       /\ \A i \in DOMAIN fills : i \in C[b] <=> w[i] = b
          BY DEF OwnFills
    <2>3. \A b \in D : mkr[b] = SumFunctionOnSet(credits, C[b])
          OBVIOUS
    <2>4. IsFiniteSet(D)
          OBVIOUS
    <2> HIDE DEF w, C, D, mkr
    <2>. QED  BY <1>6, <2>1, <2>2, <2>3, <2>4, SumByClass
  <1>9. SumFunctionOnSet(rfr, D) = In(q, t, paid)
    <2>1. CASE payees = {}
      <3>1. \A b \in D : rfr[b] = 0
            BY <2>1
      <3>2. SumFunctionOnSet(rfr, D) = 0
        <4> HIDE DEF rfr
        <4>. QED  BY <3>1, SumOfZeros
      <3>. QED  BY <1>1, <2>1, <3>2 DEF In
    <2>2. CASE payees # {}
      <3>1. PICK r \in payees : TRUE
            BY <2>2
      <3>2. /\ r \in D /\ rfr[r] = In(q, t, rest) /\ rfr[r] \in Int
            /\ \A b \in D \ {r} : rfr[b] = 0
            BY <1>1, <1>3, <3>1
      <3> HIDE DEF rfr
      <3>3. SumFunctionOnSet(rfr, D) = rfr[r]
            BY <3>2, SumOfOne
      <3>. QED  BY <1>1, <2>2, <3>2, <3>3
    <2>. QED  BY <2>1, <2>2
  <1>10. \A b \in D : /\ old[b] \in Nat /\ mkr[b] \in Nat /\ rfr[b] \in Nat /\ om[b] \in Nat
                      /\ new[b] \in Nat /\ om[b] = old[b] + mkr[b] /\ new[b] = om[b] + rfr[b]
    <2>1. \A b \in D : om[b] = old[b] + mkr[b]
          OBVIOUS
    <2> HIDE DEF new, old, mkr, rfr, om
    <2>. QED  BY <1>4, <2>1
  <1>11. HeldBy(accounts, t) = SumFunctionOnSet(old, D) /\ HeldBy(accs, t) = SumFunctionOnSet(new, D)
        BY <1>7 DEF HeldBy, SumFunction
  <1> HIDE DEF new, old, mkr, rfr, om
  <1>12. \A b \in D : /\ old[b] \in Int /\ mkr[b] \in Int /\ rfr[b] \in Int /\ om[b] \in Int
                      /\ new[b] \in Int /\ om[b] = old[b] + mkr[b] /\ new[b] = om[b] + rfr[b]
        BY <1>10
  <1>13. SumFunctionOnSet(om, D) = SumFunctionOnSet(old, D) + SumFunctionOnSet(mkr, D)
        BY <1>12, SumPlus
  <1>14. SumFunctionOnSet(new, D) = SumFunctionOnSet(om, D) + SumFunctionOnSet(rfr, D)
        BY <1>12, SumPlus
  <1>15. SumFunctionOnSet(old, D) \in Nat /\ SumFunctionOnSet(new, D) \in Nat
        BY <1>10, SumNat
  <1>. QED  BY <1>8, <1>9, <1>11, <1>13, <1>14, <1>15 DEF accs, fills, q, paid, credits

(* The market, and all markets, once it is settled.                        *)
MarketLeft(m, o, referrer) ==
  [markets[m] EXCEPT !.book = BookLeft(m, o), !.fees_accrued = FeesLeft(m, o, referrer)]

MarketsLeft(m, o, referrer) == [markets EXCEPT ![m] = MarketLeft(m, o, referrer)]

(* BooksMatchAccounts of accounts accs and markets mkts.                   *)
ListsMatch(accs, mkts) ==
  \A m \in Markets :
    /\ \A i \in DOMAIN mkts[m].book : mkts[m].book[i].owner \in DOMAIN accs
    /\ \A a \in DOMAIN accs :
         accs[a].open[m] = {i \in DOMAIN mkts[m].book : mkts[m].book[i].owner = a}

LEMMA MarketsLeftDomain ==
  ASSUME TypeOK, NEW m \in Markets, NEW o, NEW referrer
  PROVE  MarketsLeft(m, o, referrer) = [k \in Markets |-> MarketsLeft(m, o, referrer)[k]]
PROOF
  <1>1. markets = [k \in Markets |-> markets[k]]
        BY DEF TypeOK
  <1>. QED  BY <1>1 DEF MarketsLeft

LEMMA MarketsLeftFacts ==
  ASSUME TypeOK, NEW m \in Markets, NEW o, NEW referrer
  PROVE  LET mkts == MarketsLeft(m, o, referrer)
         IN  /\ mkts[m] = MarketLeft(m, o, referrer)
             /\ mkts[m].book = BookLeft(m, o) /\ mkts[m].fees_accrued = FeesLeft(m, o, referrer)
             /\ \A k \in Markets \ {m} : mkts[k] = markets[k]
PROOF
  <1>1. markets = [k \in Markets |-> markets[k]]
        BY DEF TypeOK
  <1>2. markets[m] \in [state : MarketStates, book : {markets[m].book}, fees_accrued : Nat,
                        minimum_bid_bps : BidWindows, maximum_ask_bps : AskWindows]
        BY DEF TypeOK, IsMarket
  <1>. QED  BY <1>1, <1>2 DEF MarketsLeft, MarketLeft

(* The markets stay well formed and the orders listed are those they hold. *)
LEMMA SettledBooks ==
  ASSUME TypeOK, NEW m \in Markets, NEW o, NEW referrer, CanSettle(m, o, referrer)
  PROVE  LET accs == SettledFor(m, o, referrer).accounts
             mkts == MarketsLeft(m, o, referrer)
         IN  /\ \A k \in Markets : IsMarket(mkts[k], prev_order_sequence_number + 1)
             /\ BooksMatchAccounts => ListsMatch(accs, mkts)
PROOF
  <1> DEFINE n     == prev_order_sequence_number
             p     == MarketParams[m]
             book  == markets[m].book
             fills == FillsOf(m, o)
             accs  == SettledFor(m, o, referrer).accounts
             mkts  == MarketsLeft(m, o, referrer)
             new   == BookLeft(m, o)
             fees  == FeesLeft(m, o, referrer)
             full  == FullyFilled(book, fills)
  <1>1. n \in Nat /\ IsBook(book, n) /\ fees \in Nat
        BY SettledAmounts DEF TypeOK, IsMarket, IsBook
  <1>2. /\ IsBook(new, n + 1)
        /\ OrderJoined(new, book, o, fills, OpenQty(p, book, o), n + 1)
        BY <1>1, BookAfterFacts DEF CanSettle, BookLeft, FillsOf
  <1>3. OpenQty(p, book, o) = 0
        BY DEF CanSettle, OpenQty
  <1>4. /\ DOMAIN new = DOMAIN book \ full
        /\ \A i \in DOMAIN new : new[i].owner = book[i].owner
    <2>1. n + 1 \notin DOMAIN book
          BY <1>1, BookFinite
    <2>2. /\ DOMAIN new = DOMAIN book \ full
          /\ \A i \in DOMAIN new \ {n + 1} : i \in DOMAIN book /\ new[i].owner = book[i].owner
      <3> HIDE DEF new, full, fills, book
      <3>1. ~ (OpenQty(p, book, o) > 0)
            BY <1>3
      <3>. QED  BY <1>2, <3>1, Zenon DEF OrderJoined, full
    <2> HIDE DEF new, full, book
    <2>. QED  BY <2>1, <2>2
  <1> HIDE DEF fills, new, fees
  <1>5. /\ mkts[m] = MarketLeft(m, o, referrer)
        /\ mkts[m].book = new
        /\ \A k \in Markets \ {m} : mkts[k] = markets[k]
        BY MarketsLeftFacts DEF new
  <1> HIDE DEF mkts
  <1>6. ASSUME NEW k \in Markets
        PROVE  IsMarket(mkts[k], n + 1)
    <2>1. IsMarket(markets[k], n)
          BY DEF TypeOK
    <2>2. CASE k = m
      <3>1. /\ markets[m] \in [state : MarketStates, book : {markets[m].book}, fees_accrued : Nat,
                               minimum_bid_bps : BidWindows, maximum_ask_bps : AskWindows]
            BY <2>1, <2>2 DEF IsMarket
      <3>2. mkts[m].book = new
            BY <1>5, <3>1
      <3>. QED  BY <1>1, <1>2, <1>5, <2>2, <3>1, <3>2 DEF IsMarket, IsBook, MarketLeft, new, fees
    <2>3. CASE k # m
      <3>1. 1 .. n \subseteq 1 .. n + 1
            BY <1>1
      <3>. QED  BY <1>5, <2>1, <2>3, <3>1 DEF IsMarket, IsPartialFunction
    <2>. QED  BY <2>2, <2>3
  <1>8. /\ DOMAIN accs = DOMAIN accounts
        /\ \A b \in DOMAIN accounts :
             /\ accs[b].open = [accounts[b].open EXCEPT ![m] = @ \ FilledOf(m, fills, b, DOMAIN fills)]
             /\ accounts[b].open \in [Markets -> SUBSET Nat]
    <2>1. \A b \in DOMAIN accounts : accounts[b].open \in [Markets -> SUBSET Nat]
          BY DEF TypeOK, IsAccount
    <2>2. accs = [b \in DOMAIN accounts |-> accs[b]]
          BY SettledDomain
    <2>3. ASSUME NEW b \in DOMAIN accounts
          PROVE  accs[b].open = OpenLeft(m, o, b)
          BY SettledAccounts
    <2> HIDE DEF accs
    <2>. QED  BY <2>1, <2>2, <2>3 DEF OpenLeft, fills
  <1> HIDE DEF accs
  <1>9. ASSUME BooksMatchAccounts
        PROVE  ListsMatch(accs, mkts)
    <2> SUFFICES ASSUME NEW k \in Markets
                 PROVE  /\ \A i \in DOMAIN mkts[k].book : mkts[k].book[i].owner \in DOMAIN accs
                        /\ \A a \in DOMAIN accs :
                             accs[a].open[k] = {i \in DOMAIN mkts[k].book : mkts[k].book[i].owner = a}
        BY DEF ListsMatch
    <2>1. /\ \A i \in DOMAIN markets[k].book : markets[k].book[i].owner \in DOMAIN accounts
          /\ \A b \in DOMAIN accounts :
               accounts[b].open[k] = {i \in DOMAIN markets[k].book : markets[k].book[i].owner = b}
          BY <1>9 DEF BooksMatchAccounts
    <2>2. CASE k = m
      <3>1. \A b : FilledOf(m, fills, b, DOMAIN fills) = {i \in full : book[i].owner = b}
            BY DEF FilledOf, FullyFilled
      <3>2. \A b \in DOMAIN accounts : accs[b].open[m] = accounts[b].open[m] \ {i \in full : book[i].owner = b}
            BY <1>8, <3>1
      <3>3. /\ \A i \in DOMAIN book : book[i].owner \in DOMAIN accounts
            /\ \A b \in DOMAIN accounts : accounts[b].open[m] = {i \in DOMAIN book : book[i].owner = b}
            BY <2>1, <2>2
      <3> HIDE DEF full, book
      <3>4. \A b \in DOMAIN accounts : accs[b].open[m] = {i \in DOMAIN new : new[i].owner = b}
            BY <1>4, <3>2, <3>3
      <3>5. DOMAIN accs = DOMAIN accounts /\ mkts[k].book = new
            BY <1>5, <1>8, <2>2
      <3>. QED  BY <1>4, <2>2, <3>3, <3>4, <3>5
    <2>3. CASE k # m
      <3>1. mkts[k] = markets[k] /\ \A b \in DOMAIN accounts : accs[b].open[k] = accounts[b].open[k]
            BY <1>5, <1>8, <2>3
      <3>. QED  BY <1>8, <2>1, <3>1
    <2>. QED  BY <2>2, <2>3
  <1>. QED  BY <1>6, <1>9 DEF mkts, accs

(* The taker brings what it pays the makers with and the fee of its        *)
(* purchase, and takes away what it bought, or sold for less the fee.      *)
Brings(m, o, t) ==
  LET p == MarketParams[m]
  IN  IF o.side = "Buy" THEN In(p.quote, t, QuoteTraded(m, FillsOf(m, o)) + FeeOf(m, o))
                        ELSE In(p.base, t, BaseTraded(m, FillsOf(m, o)))

Takes(m, o, t) ==
  LET p == MarketParams[m]
  IN  IF o.side = "Buy" THEN In(p.base, t, BaseTraded(m, FillsOf(m, o)))
                        ELSE In(p.quote, t, QuoteTraded(m, FillsOf(m, o)) - FeeOf(m, o))

(* What accounts and market hold, and the taker takes away, has been       *)
(* there before or was brought by the taker.                               *)
LEMMA SettledSheet ==
  ASSUME TypeOK, IsFiniteSet(DOMAIN accounts), NEW m \in Markets, NEW o, NEW referrer,
         CanSettle(m, o, referrer), NEW t
  PROVE  LET accs == SettledFor(m, o, referrer).accounts
             mkts == MarketsLeft(m, o, referrer)
         IN  /\ HeldBy(accounts, t) \in Nat /\ HeldBy(accs, t) \in Nat
             /\ DueOf(m, markets[m], t) \in Nat /\ DueOf(m, mkts[m], t) \in Nat
             /\ Brings(m, o, t) \in Nat /\ Takes(m, o, t) \in Nat
             /\ HeldBy(accs, t) + DueOf(m, mkts[m], t) + Takes(m, o, t)
                  <= HeldBy(accounts, t) + DueOf(m, markets[m], t) + Brings(m, o, t)
PROOF
  <1> DEFINE n      == prev_order_sequence_number
             p      == MarketParams[m]
             book   == markets[m].book
             fills  == FillsOf(m, o)
             open   == OpenQty(p, book, o)
             base   == BaseTraded(m, fills)
             traded == QuoteTraded(m, fills)
             fee    == FeeOf(m, o)
             rebate == TotalMakerRebate(m, fills)
             paid   == SettledFor(m, o, referrer).paid
             taken  == SumFunctionOnSet(Taken(p, book, fills, t), DOMAIN fills)
             credits == SumFunctionOnSet(Credits(m, fills, o.side, t), DOMAIN fills)
             fees   == markets[m].fees_accrued
             fees2  == FeesLeft(m, o, referrer)
             after  == BookLeft(m, o)
             locked == LockedOf(p, book, t)
             kept   == LockedOf(p, after, t)
             mkts   == MarketsLeft(m, o, referrer)
             held   == HeldBy(accounts, t)
             held2  == HeldBy(SettledFor(m, o, referrer).accounts, t)
  <1>1. /\ IsBook(book, n) /\ n \in Nat /\ IsMarketParams(p) /\ fees \in Nat /\ IsNewOrder(o)
        BY ParamsFacts DEF TypeOK, IsMarket, IsBook, CanSettle
  <1>2. /\ base \in Nat /\ traded \in Nat /\ rebate \in Nat /\ fee \in Nat /\ fee <= traded
        /\ paid \in Nat /\ fees2 \in Nat /\ fees2 = fees + (fee - rebate) - paid
    <2>1. /\ base \in Nat /\ traded \in Nat /\ rebate \in Nat /\ fee \in Nat /\ fee <= traded
          /\ paid \in Nat /\ fees2 \in Nat
          BY SettledAmounts
    <2>. QED  BY <2>1 DEF FeesLeft, RestOfFee
  <1>3. /\ held \in Nat /\ held2 \in Nat
        /\ held2 = held + credits + In(p.quote, t, paid)
        BY SettledHeld
  <1>4. /\ taken = IF o.side = "Buy" THEN In(p.base, t, base) ELSE In(p.quote, t, traded)
        /\ credits = In(p.quote, t, rebate)
                       + IF o.side = "Buy" THEN In(p.quote, t, traded) ELSE In(p.base, t, base)
        BY <1>1, FillSums DEF FillsOf
  <1>5. kept + taken <= locked
    <2>1. open = 0
          BY DEF CanSettle, OpenQty
    <2>2. Posted(p, o, open, t) = 0
          BY <2>1 DEF Posted
    <2>3. kept + taken <= locked + Posted(p, o, open, t)
      <3> HIDE DEF p, book
      <3>1. LockedOf(p, BookAfter(p, book, o, n + 1), t)
                    + SumFunctionOnSet(Taken(p, book, Matches(p, book, o), t), DOMAIN Matches(p, book, o))
                  <= LockedOf(p, book, t) + Posted(p, o, OpenQty(p, book, o), t)
            BY <1>1, LockedWhenPlaced
      <3>. QED  BY <3>1 DEF BookLeft, FillsOf, p, book
    <2>4. locked \in Nat
      <3> HIDE DEF p, book
      <3>. QED  BY <1>1, LockedSum
    <2> HIDE DEF open, kept, taken, locked
    <2>. QED  BY <2>2, <2>3, <2>4
  <1>6. locked \in Nat /\ kept \in Nat
    <2>1. IsBook(after, n + 1) /\ n + 1 \in Nat
      <3>1. IsBook(BookAfter(p, book, o, n + 1), n + 1)
        <4> HIDE DEF p, book
        <4>. QED  BY <1>1, BookAfterFacts
      <3>. QED  BY <1>1, <3>1 DEF BookLeft
    <2> HIDE DEF p, book, after
    <2>. QED  BY <1>1, <2>1, LockedSum
  <1>7. /\ DueOf(m, markets[m], t) = locked + In(p.quote, t, fees)
        /\ DueOf(m, mkts[m], t) = kept + In(p.quote, t, fees2)
    <2>1. mkts[m].book = after /\ mkts[m].fees_accrued = fees2
          BY MarketsLeftFacts
    <2>. QED  BY <2>1 DEF DueOf
  <1>8. /\ Brings(m, o, t) = IF o.side = "Buy" THEN In(p.quote, t, traded + fee) ELSE In(p.base, t, base)
        /\ Takes(m, o, t) = IF o.side = "Buy" THEN In(p.base, t, base) ELSE In(p.quote, t, traded - fee)
        BY DEF Brings, Takes
  <1> HIDE DEF fees, fees2, held, held2, locked, kept, taken, credits, paid, fee, rebate, base, traded,
               p, mkts, fills
  <1> DEFINE brings == IF o.side = "Buy" THEN In(p.quote, t, traded + fee) ELSE In(p.base, t, base)
             takes  == IF o.side = "Buy" THEN In(p.base, t, base) ELSE In(p.quote, t, traded - fee)
  <1>9. /\ brings \in Nat /\ takes \in Nat
        /\ locked + In(p.quote, t, fees) \in Nat /\ kept + In(p.quote, t, fees2) \in Nat
        BY <1>1, <1>2, <1>6 DEF In, fees
  <1>10. held2 + (kept + In(p.quote, t, fees2)) + takes <= held + (locked + In(p.quote, t, fees)) + brings
    <2>0. fees \in Nat
          BY <1>1 DEF fees
    <2>1. CASE t = p.quote
      <3>1. CASE o.side = "Buy"
            BY <1>2, <1>3, <1>4, <1>5, <1>6, <2>0, <2>1, <3>1 DEF In
      <3>2. CASE o.side # "Buy"
            BY <1>2, <1>3, <1>4, <1>5, <1>6, <2>0, <2>1, <3>2 DEF In
      <3>. QED  BY <3>1, <3>2
    <2>2. CASE t # p.quote
      <3>1. CASE o.side = "Buy"
            BY <1>2, <1>3, <1>4, <1>5, <1>6, <2>0, <2>2, <3>1 DEF In
      <3>2. CASE o.side # "Buy"
            BY <1>2, <1>3, <1>4, <1>5, <1>6, <2>0, <2>2, <3>2 DEF In
      <3>. QED  BY <3>1, <3>2
    <2>. QED  BY <2>1, <2>2
  <1>. QED  BY <1>3, <1>7, <1>8, <1>9, <1>10 DEF held, held2, mkts

(* Well formed accounts and markets, as in TypeOK; accounts that pay for   *)
(* their storage; and accounts of which none has less than before.         *)
AreAccounts(accs) ==
  /\ DOMAIN accs \subseteq Accounts
  /\ accs = [a \in DOMAIN accs |-> accs[a]]
  /\ \A a \in DOMAIN accs : IsAccount(accs[a])

AreMarkets(mkts, last) ==
  /\ mkts = [m \in Markets |-> mkts[m]]
  /\ \A m \in Markets : IsMarket(mkts[m], last)

AreCovered(accs) == \A a \in DOMAIN accs : IsStorageCovered(accs[a])

NoneLoses(old, new) ==
  /\ DOMAIN new = DOMAIN old
  /\ \A a \in DOMAIN old :
       /\ new[a].storage = old[a].storage
       /\ \A t : Balance(new[a], t) >= Balance(old[a], t)

(* From one book to a later one: no new orders; the lots of a side stay    *)
(* all; takers of this side only hit orders of the other side and post     *)
(* none themselves.                                                        *)
KeepsOrders(old, new) ==
  \A i \in DOMAIN new :
    /\ i \in DOMAIN old
    /\ new[i].owner = old[i].owner /\ new[i].side = old[i].side /\ new[i].price = old[i].price

KeepsSide(side, old, new) ==
  \A i \in OnSide(old, side) : i \in DOMAIN new /\ new[i].qty = old[i].qty

OnlyHits(side, old, new) == KeepsOrders(old, new) /\ KeepsSide(side, old, new)

(* The token that the makers on a side are paid in.                        *)
GainToken(m, side) ==
  IF side = "Buy" THEN MarketParams[m].base ELSE MarketParams[m].quote

(* Takers of this side hit orders of market m, and every account has been  *)
(* credited at least what it is due for the lots it lost.                  *)
MakersPaid(m, side, old, new, accs, accs2) ==
  /\ OnlyHits(side, old, new)
  /\ \A b \in DOMAIN accs, s \in Sides :
       /\ DueSince(m, b, s, old, new) \in Nat
       /\ Balance(accs2[b], GainToken(m, s))
            >= Balance(accs[b], GainToken(m, s)) + DueSince(m, b, s, old, new)

(* An order paid from outside leaves a book that lost what was filled.     *)
LEMMA BookLeftHits ==
  ASSUME TypeOK, NEW m \in Markets, NEW o, NEW referrer, CanSettle(m, o, referrer)
  PROVE  LET old   == markets[m].book
             new   == BookLeft(m, o)
             fills == FillsOf(m, o)
         IN  /\ OnlyHits(o.side, old, new)
             /\ \A i \in DOMAIN old :
                  old[i].qty - QtyLeft(new, i) = IF i \in DOMAIN fills THEN fills[i] ELSE 0
PROOF
  <1> DEFINE n     == prev_order_sequence_number
             p     == MarketParams[m]
             old   == markets[m].book
             fills == Matches(p, old, o)
             open  == OpenQty(p, old, o)
             full  == FullyFilled(old, fills)
             new   == BookAfter(p, old, o, n + 1)
  <1>1. IsBook(old, n) /\ n \in Nat
        BY DEF TypeOK, IsMarket, IsBook
  <1>2. ~ (open > 0)
    <2>1. open = 0
          BY DEF CanSettle, OpenQty
    <2>. QED  BY <2>1
  <1>3. n + 1 \notin DOMAIN old /\ \A i \in DOMAIN old : old[i] \in RestingOrder
        BY <1>1, BookFinite
  <1>4. \A i \in DOMAIN fills : /\ i \in DOMAIN old /\ fills[i] \in 1 .. old[i].qty
                                /\ old[i].side # o.side
        BY <1>1, MatchesFacts, MatchesSides
  <1>5. /\ DOMAIN new = (DOMAIN old \ full) \cup (IF open > 0 THEN {n + 1} ELSE {})
        /\ \A i \in DOMAIN old \ full :
             new[i] = IF i \in DOMAIN fills THEN [old[i] EXCEPT !.qty = @ - fills[i]] ELSE old[i]
        BY <1>3 DEF BookAfter
  <1>6. full = {i \in DOMAIN fills : fills[i] = old[i].qty}
        BY DEF FullyFilled
  <1>7. new = BookLeft(m, o) /\ fills = FillsOf(m, o)
        BY DEF BookLeft, FillsOf
  <1> HIDE DEF fills, open, full, new, old
  <1>8. ASSUME NEW i \in DOMAIN old
        PROVE  /\ i \in DOMAIN new <=> i \notin full
               /\ i \in DOMAIN new => /\ new[i].owner = old[i].owner /\ new[i].side = old[i].side
                                      /\ new[i].price = old[i].price
               /\ old[i].qty - QtyLeft(new, i) = IF i \in DOMAIN fills THEN fills[i] ELSE 0
               /\ i \notin DOMAIN fills => i \in DOMAIN new /\ new[i].qty = old[i].qty
    <2>1. old[i] \in RestingOrder /\ old[i].qty \in Nat
          BY <1>3 DEF RestingOrder
    <2>2. i \in DOMAIN new <=> i \notin full
          BY <1>2, <1>3, <1>5
    <2>3. CASE i \in full
          BY <1>4, <1>6, <2>1, <2>2, <2>3 DEF QtyLeft
    <2>4. CASE i \notin full /\ i \in DOMAIN fills
      <3>1. fills[i] \in Nat
            BY <1>4, <2>1, <2>4
      <3>2. /\ new[i].qty = old[i].qty - fills[i]
            /\ new[i].owner = old[i].owner /\ new[i].side = old[i].side /\ new[i].price = old[i].price
            BY <1>5, <2>1, <2>4 DEF RestingOrder
      <3>. QED  BY <2>1, <2>2, <2>4, <3>1, <3>2 DEF QtyLeft
    <2>5. CASE i \notin full /\ i \notin DOMAIN fills
      <3>1. new[i] = old[i]
            BY <1>5, <2>5
      <3>. QED  BY <2>1, <2>2, <2>5, <3>1 DEF QtyLeft
    <2>. QED  BY <2>3, <2>4, <2>5
  <1>9. DOMAIN new \subseteq DOMAIN old
        BY <1>2, <1>5
  <1>10. OnlyHits(o.side, old, new)
    <2>1. \A i \in DOMAIN new :
            /\ i \in DOMAIN old
            /\ new[i].owner = old[i].owner /\ new[i].side = old[i].side /\ new[i].price = old[i].price
          BY <1>8, <1>9
    <2>2. \A i \in OnSide(old, o.side) : i \in DOMAIN new /\ new[i].qty = old[i].qty
          BY <1>4, <1>8 DEF OnSide
    <2>. QED  BY <2>1, <2>2 DEF OnlyHits, KeepsOrders, KeepsSide
  <1>. QED  BY <1>7, <1>8, <1>10 DEF old

(* The makers of an order that is paid from outside are paid.              *)
LEMMA SettledMakers ==
  ASSUME TypeOK, NEW m \in Markets, NEW o, NEW referrer, CanSettle(m, o, referrer)
  PROVE  MakersPaid(m, o.side, markets[m].book, BookLeft(m, o),
                    accounts, SettledFor(m, o, referrer).accounts)
PROOF
  <1> DEFINE accs  == SettledFor(m, o, referrer).accounts
             old   == markets[m].book
             new   == BookLeft(m, o)
             fills == FillsOf(m, o)
  <1>1. /\ OnlyHits(o.side, old, new)
        /\ \A i \in DOMAIN old :
             old[i].qty - QtyLeft(new, i) = IF i \in DOMAIN fills THEN fills[i] ELSE 0
        BY BookLeftHits
  <1>2. o.side \in Sides /\ AreFills(fills, old)
        BY SettledAmounts DEF CanSettle, IsNewOrder
  <1>3. ASSUME NEW b \in DOMAIN accounts, NEW s \in Sides
        PROVE  /\ DueSince(m, b, s, old, new) \in Nat
               /\ Balance(accs[b], GainToken(m, s))
                    >= Balance(accounts[b], GainToken(m, s)) + DueSince(m, b, s, old, new)
    <2> DEFINE t       == GainToken(m, s)
               own     == OwnFills(old, fills, b)
               pay     == SumFunction([i \in own |-> MakerPay(m, fills, o.side, i)])
               rebates == SumFunction([i \in own |-> RebateOf(m, fills, i)])
               sum     == SumFunctionOnSet(Credits(m, fills, o.side, t), own)
    <2>1. DueSince(m, b, s, old, new) = IF s = o.side THEN 0 ELSE pay
      <3> HIDE DEF new
      <3>. QED  BY <1>1, <1>2, DueIsPaid DEF FillsOf
    <2>2. own \in SUBSET DOMAIN fills
          BY DEF OwnFills
    <2>3. /\ rebates \in Nat /\ pay \in Nat
          /\ sum = In(MarketParams[m].quote, t, rebates) + In(PayToken(m, o.side), t, pay)
      <3> HIDE DEF own, fills, t
      <3>. QED  BY <1>2, <2>2, CreditsSum DEF old
    <2>4. /\ sum \in Nat /\ Balance(accounts[b], t) \in Nat /\ Balance(accs[b], t) \in Nat
          /\ Balance(accs[b], t) >= Balance(accounts[b], t) + sum
          BY SettledAccounts
    <2>5. s # o.side => t = PayToken(m, o.side)
          BY <1>2 DEF PayToken, GainToken, Sides
    <2> HIDE DEF rebates, pay, sum, t, accs, old, new
    <2>6. s # o.side => sum >= pay
          BY <2>3, <2>5 DEF In
    <2>7. CASE s = o.side
          BY <2>1, <2>4, <2>7 DEF t
    <2>8. CASE s # o.side
          BY <2>1, <2>3, <2>4, <2>6, <2>8 DEF t
    <2>. QED  BY <2>7, <2>8
  <1> HIDE DEF accs, old, new
  <1>4. MakersPaid(m, o.side, old, new, accounts, accs)
        BY <1>1, <1>3 DEF MakersPaid
  <1>. QED  BY <1>4 DEF accs, old, new

(* What an order that is paid from outside leaves is as well formed as     *)
(* before, its makers are paid, and what it takes away was there or has    *)
(* been brought.                                                           *)
FairlySettled(m, o, referrer) ==
  LET accs == SettledFor(m, o, referrer).accounts
      mkts == MarketsLeft(m, o, referrer)
  IN  /\ AreAccounts(accs) /\ AreMarkets(mkts, prev_order_sequence_number + 1)
      /\ ListsMatch(accs, mkts) /\ AreCovered(accs)
      /\ NoneLoses(accounts, accs)
      /\ MakersPaid(m, o.side, markets[m].book, mkts[m].book, accounts, accs)
      /\ \A k \in Markets \ {m} : mkts[k] = markets[k]
      /\ BaseTraded(m, FillsOf(m, o)) \in Nat /\ QuoteTraded(m, FillsOf(m, o)) \in Nat
      /\ FeeOf(m, o) \in Nat /\ FeeOf(m, o) <= QuoteTraded(m, FillsOf(m, o))
      /\ \A t : /\ HeldBy(accounts, t) \in Nat /\ HeldBy(accs, t) \in Nat
                /\ DueOf(m, markets[m], t) \in Nat /\ DueOf(m, mkts[m], t) \in Nat
                /\ Brings(m, o, t) \in Nat /\ Takes(m, o, t) \in Nat
                /\ HeldBy(accs, t) + DueOf(m, mkts[m], t) + Takes(m, o, t)
                     <= HeldBy(accounts, t) + DueOf(m, markets[m], t) + Brings(m, o, t)

LEMMA SettledFromOutside ==
  ASSUME AreAccounts(accounts), AreMarkets(markets, prev_order_sequence_number),
         contract_state \in ContractStates, prev_order_sequence_number \in Nat,
         ListsMatch(accounts, markets), AreCovered(accounts), IsFiniteSet(DOMAIN accounts),
         NEW m \in Markets, NEW o, NEW referrer, CanSettle(m, o, referrer)
  PROVE  FairlySettled(m, o, referrer)
PROOF
  <1> DEFINE accs == SettledFor(m, o, referrer).accounts
             mkts == MarketsLeft(m, o, referrer)
  <1>1. TypeOK
        BY DEF TypeOK, AreAccounts, AreMarkets
  <1>2. BooksMatchAccounts
        BY DEF BooksMatchAccounts, ListsMatch
  <1>3. accs = [b \in DOMAIN accounts |-> accs[b]]
        BY <1>1, SettledDomain
  <1>4. DOMAIN accs = DOMAIN accounts
    <2> HIDE DEF accs
    <2>. QED  BY <1>3
  <1>5. ASSUME NEW b \in DOMAIN accounts
        PROVE  /\ IsAccount(accs[b]) /\ IsStorageCovered(accs[b])
               /\ accs[b].storage = accounts[b].storage
               /\ \A t : Balance(accs[b], t) >= Balance(accounts[b], t)
    <2>1. IsStorageCovered(accounts[b])
          BY DEF AreCovered
    <2>2. /\ IsAccount(accs[b])
          /\ accs[b].storage = accounts[b].storage
          /\ IsStorageCovered(accounts[b]) => IsStorageCovered(accs[b])
          BY <1>1, SettledAccounts
    <2>3. ASSUME NEW t
          PROVE  Balance(accs[b], t) >= Balance(accounts[b], t)
      <3> DEFINE paid == SumFunctionOnSet(Credits(m, FillsOf(m, o), o.side, t),
                                          OwnFills(markets[m].book, FillsOf(m, o), b))
      <3>1. /\ paid \in Nat /\ Balance(accounts[b], t) \in Nat /\ Balance(accs[b], t) \in Nat
            /\ Balance(accs[b], t) >= Balance(accounts[b], t) + paid
            BY <1>1, SettledAccounts
      <3> HIDE DEF paid, accs
      <3>. QED  BY <3>1
    <2>. QED  BY <2>1, <2>2, <2>3
  <1>6. /\ \A k \in Markets : IsMarket(mkts[k], prev_order_sequence_number + 1)
        /\ ListsMatch(accs, mkts)
        BY <1>1, <1>2, SettledBooks
  <1>7. mkts = [k \in Markets |-> mkts[k]]
        BY <1>1, MarketsLeftDomain
  <1>8. \A k \in Markets \ {m} : mkts[k] = markets[k]
        BY <1>1, MarketsLeftFacts
  <1>9. /\ BaseTraded(m, FillsOf(m, o)) \in Nat /\ QuoteTraded(m, FillsOf(m, o)) \in Nat
        /\ FeeOf(m, o) \in Nat /\ FeeOf(m, o) <= QuoteTraded(m, FillsOf(m, o))
        BY <1>1, SettledAmounts
  <1>10. ASSUME NEW t
         PROVE  /\ HeldBy(accounts, t) \in Nat /\ HeldBy(accs, t) \in Nat
                /\ DueOf(m, markets[m], t) \in Nat /\ DueOf(m, mkts[m], t) \in Nat
                /\ Brings(m, o, t) \in Nat /\ Takes(m, o, t) \in Nat
                /\ HeldBy(accs, t) + DueOf(m, mkts[m], t) + Takes(m, o, t)
                     <= HeldBy(accounts, t) + DueOf(m, markets[m], t) + Brings(m, o, t)
         BY <1>1, SettledSheet
  <1>15. MakersPaid(m, o.side, markets[m].book, mkts[m].book, accounts, accs)
    <2>1. mkts[m].book = BookLeft(m, o)
          BY <1>1, MarketsLeftFacts
    <2> HIDE DEF accs, mkts
    <2>. QED  BY <1>1, <2>1, SettledMakers DEF accs
  <1> HIDE DEF accs, mkts
  <1>11. AreAccounts(accs)
        BY <1>3, <1>4, <1>5 DEF AreAccounts
  <1>12. AreMarkets(mkts, prev_order_sequence_number + 1)
        BY <1>6, <1>7 DEF AreMarkets
  <1>13. AreCovered(accs)
        BY <1>4, <1>5 DEF AreCovered
  <1>14. NoneLoses(accounts, accs)
        BY <1>4, <1>5 DEF NoneLoses
  <1>. QED  BY <1>6, <1>8, <1>9, <1>10, <1>11, <1>12, <1>13, <1>14, <1>15
           DEF accs, mkts, FairlySettled
=============================================================================
