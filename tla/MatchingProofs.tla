--------------------------- MODULE MatchingProofs ---------------------------
(***************************************************************************)
(* Proofs about what the contract and the engine make of a limit order     *)
(* together: the contract caps its quantity by what its quote affords at   *)
(* the native limit price, the engine stops at the quantity or at the      *)
(* quote, at the prices of the makers in lots.                             *)
(***************************************************************************)
EXTENDS ExchangeProofs

(* The value of two quantities, rounded, is no more than that of both.     *)
LEMMA ValueParts ==
  ASSUME NEW p, IsMarketParams(p), NEW x \in Nat, NEW y \in Nat, NEW price \in Nat
  PROVE  /\ QuoteValue(p, BaseLotsToNative(p, x), price) \in Nat
         /\ QuoteValue(p, BaseLotsToNative(p, y), price) \in Nat
         /\ QuoteValue(p, BaseLotsToNative(p, x + y), price) \in Nat
         /\ QuoteValue(p, BaseLotsToNative(p, x), price)
              + QuoteValue(p, BaseLotsToNative(p, y), price)
              <= QuoteValue(p, BaseLotsToNative(p, x + y), price)
PROOF
  <1> DEFINE b == p.base_lot
             d == p.base_denomination
  <1>1. b \in Nat /\ d \in Nat \ {0}
        BY DEF IsMarketParams
  <1>2. \A z : QuoteValue(p, BaseLotsToNative(p, z), price) = ((z * b) * price) \div d
        BY DEF QuoteValue, BaseLotsToNative
  <1> HIDE DEF b, d
  <1>3. (x * b) * price \in Nat /\ (y * b) * price \in Nat /\ ((x + y) * b) * price \in Nat
    <2>1. x + y \in Nat
          OBVIOUS
    <2>2. x * b \in Nat /\ y * b \in Nat /\ (x + y) * b \in Nat
          BY <1>1, <2>1, TimesNat
    <2>. QED  BY <2>2, TimesNat
  <1>4. ((x + y) * b) * price = (x * b) * price + (y * b) * price
        BY <1>1
  <1>5. (((x * b) * price) \div d) + (((y * b) * price) \div d)
          <= ((x * b) * price + (y * b) * price) \div d
        BY <1>1, <1>3, DivParts
  <1>6. /\ ((x * b) * price) \div d \in Nat /\ ((y * b) * price) \div d \in Nat
        /\ (((x + y) * b) * price) \div d \in Nat
        BY <1>1, <1>3, DivNat
  <1>. QED  BY <1>2, <1>4, <1>5, <1>6

(* More lots are worth no less.                                            *)
LEMMA ValueGrows ==
  ASSUME NEW p, IsMarketParams(p), NEW x \in Nat, NEW y \in Nat, x <= y, NEW price \in Nat
  PROVE  QuoteValue(p, BaseLotsToNative(p, x), price)
           <= QuoteValue(p, BaseLotsToNative(p, y), price)
PROOF
  <1> DEFINE rest == y - x
  <1>1. rest \in Nat /\ x + rest = y
        OBVIOUS
  <1> HIDE DEF rest
  <1>2. /\ QuoteValue(p, BaseLotsToNative(p, x), price) \in Nat
        /\ QuoteValue(p, BaseLotsToNative(p, rest), price) \in Nat
        /\ QuoteValue(p, BaseLotsToNative(p, x + rest), price) \in Nat
        /\ QuoteValue(p, BaseLotsToNative(p, x), price)
             + QuoteValue(p, BaseLotsToNative(p, rest), price)
             <= QuoteValue(p, BaseLotsToNative(p, x + rest), price)
        BY <1>1, ValueParts
  <1>. QED  BY <1>1, <1>2

(* A fill at a price in lots that a native limit price allows costs no     *)
(* more than its value at the limit price.                                 *)
LEMMA FillWithinLimit ==
  ASSUME NEW p, IsMarketParams(p), NEW x \in Nat, NEW price \in Nat,
         NEW lots \in Nat, lots <= QuoteNativeToLots(p, price)
  PROVE  /\ QuoteValueOfLots(p, x, lots) \in Nat
         /\ QuoteValueOfLots(p, x, lots) <= QuoteValue(p, BaseLotsToNative(p, x), price)
PROOF
  <1> DEFINE q == p.quote_lot
             d == p.base_denomination
             limit == QuoteNativeToLots(p, price)
             amount == BaseLotsToNative(p, x)
  <1>1. q \in Nat \ {0} /\ d \in Nat \ {0} /\ amount \in Nat /\ limit \in Nat
        BY LotsFacts DEF IsMarketParams
  <1>2. /\ QuoteValueOfLots(p, x, lots) = (amount * (lots * q)) \div d
        /\ QuoteValueOfLots(p, x, limit) = (amount * (limit * q)) \div d
        BY DEF QuoteValueOfLots, QuoteValue, QuoteLotsToNative
  <1>3. /\ QuoteValueOfLots(p, x, limit) \in Nat
        /\ QuoteValue(p, amount, price) \in Nat
        /\ QuoteValueOfLots(p, x, lots) \in Nat
        BY <1>1, LotsFacts
  <1>4. QuoteValueOfLots(p, x, limit) <= QuoteValue(p, amount, price)
        BY LockCoversRefund
  <1>5. lots <= limit
        OBVIOUS
  <1> HIDE DEF q, d, limit, amount
  <1>6. /\ amount * (lots * q) \in Nat /\ amount * (limit * q) \in Nat
        /\ amount * (lots * q) <= amount * (limit * q)
    <2>1. lots * q \in Nat /\ limit * q \in Nat /\ lots * q <= limit * q
          BY <1>1, <1>5, TimesNat
    <2>. QED  BY <1>1, <2>1, TimesNat
  <1>7. (amount * (lots * q)) \div d <= (amount * (limit * q)) \div d
        BY <1>1, <1>6, DivGrows
  <1>. QED  BY <1>2, <1>3, <1>4, <1>7 DEF amount

(* Any number of fills, each rounded and at prices within the limit, and y *)
(* more lots locked at the limit price cost no more than all of the lots   *)
(* together are worth at the limit price.                                  *)
LEMMA FillsWithinLimit ==
  ASSUME NEW p, IsMarketParams(p), NEW price \in Nat, NEW T, IsFiniteSet(T), NEW y \in Nat,
         NEW x, NEW r, NEW v,
         \A i \in T : /\ x[i] \in Nat /\ r[i] \in Nat
                      /\ r[i] <= QuoteNativeToLots(p, price)
                      /\ v[i] = QuoteValueOfLots(p, x[i], r[i])
  PROVE  /\ SumFunctionOnSet(v, T) \in Nat /\ SumFunctionOnSet(x, T) \in Nat
         /\ SumFunctionOnSet(v, T) + QuoteValue(p, BaseLotsToNative(p, y), price)
              <= QuoteValue(p, BaseLotsToNative(p, SumFunctionOnSet(x, T) + y), price)
PROOF
  <1> DEFINE worth(z) == QuoteValue(p, BaseLotsToNative(p, z), price)
             Good == {U \in SUBSET T :
               SumFunctionOnSet(v, U) + worth(y) <= worth(SumFunctionOnSet(x, U) + y)}
  <1>1. \A i \in T : x[i] \in Nat /\ v[i] \in Nat /\ v[i] <= worth(x[i])
        BY FillWithinLimit
  <1>2. \A U \in SUBSET T : /\ IsFiniteSet(U)
                            /\ SumFunctionOnSet(v, U) \in Nat /\ SumFunctionOnSet(x, U) \in Nat
    <2>1. \A U \in SUBSET T : IsFiniteSet(U)
          BY SubsetFacts
    <2>. QED  BY <1>1, <2>1, SumNat
  <1>3. \A z, w \in Nat : /\ worth(z) \in Nat /\ worth(w) \in Nat /\ worth(z + w) \in Nat
                          /\ worth(z) + worth(w) <= worth(z + w)
        BY ValueParts
  <1> HIDE DEF worth
  <1>4. {} \in Good
    <2>1. SumFunctionOnSet(v, {}) = 0 /\ SumFunctionOnSet(x, {}) = 0
          BY SumOfEmpty
    <2>2. 0 + y = y
          OBVIOUS
    <2>3. worth(y) \in Nat
          BY <1>3
    <2>. QED  BY <2>1, <2>2, <2>3
  <1>5. ASSUME NEW U \in SUBSET T, NEW e \in U, U \ {e} \in Good
        PROVE  U \in Good
    <2> DEFINE V == SumFunctionOnSet(v, U \ {e})
               X == SumFunctionOnSet(x, U \ {e})
    <2>1. U \ {e} \in SUBSET T
          OBVIOUS
    <2>2. V \in Nat /\ X \in Nat /\ x[e] \in Nat /\ v[e] \in Nat /\ v[e] <= worth(x[e])
          BY <1>1, <1>2, <2>1
    <2>3. V + worth(y) <= worth(X + y)
          BY <1>5
    <2>4. \A i \in U : v[i] \in Int /\ x[i] \in Int
          BY <1>1
    <2>5. IsFiniteSet(U)
          BY <1>2
    <2>6. SumFunctionOnSet(v, U) = v[e] + V /\ SumFunctionOnSet(x, U) = x[e] + X
          BY <2>4, <2>5, SumRemove
    <2> HIDE DEF V, X
    <2>7. X + y \in Nat
          BY <2>2
    <2>8. worth(x[e]) + worth(X + y) <= worth(x[e] + (X + y))
          BY <1>3, <2>2, <2>7
    <2>9. /\ worth(x[e]) \in Nat /\ worth(X + y) \in Nat /\ worth(x[e] + (X + y)) \in Nat
          /\ worth(y) \in Nat
          BY <1>3, <2>2, <2>7
    <2>10. (x[e] + X) + y = x[e] + (X + y)
          BY <2>2
    <2>11. (v[e] + V) + worth(y) <= worth((x[e] + X) + y)
          BY <2>2, <2>3, <2>8, <2>9, <2>10
    <2>. QED  BY <2>6, <2>11
  <1>6. T \in Good
    <2> HIDE DEF Good
    <2>. QED  BY <1>4, <1>5, SubsetInduction
  <1>7. T \in SUBSET T
        OBVIOUS
  <1>. QED  BY <1>2, <1>6, <1>7 DEF worth
-----------------------------------------------------------------------------
(* The numbers of lots of resting order i that o can take.                 *)
CanTake(p, book, o, i, n) ==
  LET ahead == Ahead(book, o, i)
      taken == SumFunction([j \in ahead |-> book[j].qty])
      spent == SumFunction([j \in ahead |-> QuoteValueOfLots(p, book[j].qty, book[j].price)])
  IN  /\ taken + n <= o.qty
      /\ \A c \in o.quote :
           spent + QuoteValueOfLots(p, n, book[i].price) <= QuoteLotsToNative(p, c)

(* A set of numbers from 1 has at most as many as its largest ...          *)
LEMMA CountAtMost ==
  ASSUME NEW k \in Nat, NEW S \in SUBSET (1 .. k)
  PROVE  IsFiniteSet(S) /\ Cardinality(S) \in Nat /\ Cardinality(S) <= k
PROOF
  <1>1. k \in Int /\ 1 \in Int
        OBVIOUS
  <1>2. IsFiniteSet(1 .. k) /\ Cardinality(1 .. k) = IF 1 > k THEN 0 ELSE k - 1 + 1
        BY <1>1, FS_Interval
  <1>3. Cardinality(1 .. k) = k
        BY <1>2
  <1>4. IsFiniteSet(S) /\ Cardinality(S) <= Cardinality(1 .. k)
        BY <1>2, FS_Subset
  <1>. QED  BY <1>3, <1>4, FS_CardinalityType

(* ... and no less than the numbers it has without a gap.                  *)
LEMMA CountAtLeast ==
  ASSUME NEW k \in Nat, NEW S, IsFiniteSet(S), 1 .. k \subseteq S
  PROVE  Cardinality(S) \in Nat /\ k <= Cardinality(S)
PROOF
  <1>1. k \in Int /\ 1 \in Int
        OBVIOUS
  <1>2. IsFiniteSet(1 .. k) /\ Cardinality(1 .. k) = IF 1 > k THEN 0 ELSE k - 1 + 1
        BY <1>1, FS_Interval
  <1>3. Cardinality(1 .. k) = k
        BY <1>2
  <1>4. Cardinality(1 .. k) <= Cardinality(S)
        BY FS_Subset
  <1>. QED  BY <1>3, <1>4, FS_CardinalityType

(* What is filled of order i is the number of lots o can take.  If it is   *)
(* not nothing, o can take at least as many; if it is not all of i, then   *)
(* there is a number up to one more that o cannot take.                    *)
LEMMA LotsFilledFacts ==
  ASSUME NEW p, NEW n \in Nat, NEW book, IsBook(book, n), NEW o, NEW i \in DOMAIN book
  PROVE  LET k == LotsFilled(p, book, o, i)
         IN  /\ k \in 0 .. book[i].qty
             /\ k > 0 => \E l \in 1 .. book[i].qty : k <= l /\ CanTake(p, book, o, i, l)
             /\ k < book[i].qty => \E l \in 1 .. k + 1 : ~ CanTake(p, book, o, i, l)
PROOF
  <1> DEFINE q    == book[i].qty
             k    == LotsFilled(p, book, o, i)
             lots == {l \in 1 .. q : CanTake(p, book, o, i, l)}
  <1>1. k = Cardinality(lots)
        BY DEF LotsFilled, CanTake
  <1>2. k \in 0 .. q
        BY LotsFilledType
  <1>3. q \in Nat
        BY BookFinite DEF RestingOrder
  <1>4. lots \in SUBSET (1 .. q) /\ \A l : l \in lots <=> l \in 1 .. q /\ CanTake(p, book, o, i, l)
        OBVIOUS
  <1> HIDE DEF q, k, lots
  <1>5. IsFiniteSet(lots)
        BY <1>3, <1>4, CountAtMost
  <1>6. ASSUME k > 0 PROVE \E l \in 1 .. q : k <= l /\ CanTake(p, book, o, i, l)
    <2>1. SUFFICES ASSUME \A l \in lots : ~ (k <= l) PROVE FALSE
          BY <1>4
    <2>2. k - 1 \in Nat /\ lots \in SUBSET (1 .. k - 1)
      <3>1. k - 1 \in Nat
            BY <1>2, <1>3, <1>6
      <3>2. \A l \in lots : l \in 1 .. k - 1
        <4> TAKE l \in lots
        <4>1. l \in 1 .. q /\ ~ (k <= l)
              BY <1>4, <2>1
        <4>. QED  BY <1>2, <1>3, <4>1
      <3>. QED  BY <3>1, <3>2
    <2>3. Cardinality(lots) <= k - 1
          BY <2>2, CountAtMost
    <2>. QED  BY <1>1, <1>2, <1>3, <2>3
  <1>7. ASSUME k < q PROVE \E l \in 1 .. k + 1 : ~ CanTake(p, book, o, i, l)
    <2>1. SUFFICES ASSUME \A l \in 1 .. k + 1 : CanTake(p, book, o, i, l) PROVE FALSE
          OBVIOUS
    <2>2. k + 1 \in Nat /\ 1 .. k + 1 \subseteq lots
      <3>1. k + 1 \in Nat /\ \A l \in 1 .. k + 1 : l \in 1 .. q
            BY <1>2, <1>3, <1>7
      <3>. QED  BY <1>4, <2>1, <3>1
    <2>3. k + 1 <= Cardinality(lots)
          BY <1>5, <2>2, CountAtLeast
    <2>. QED  BY <1>1, <1>2, <1>3, <2>3
  <1>. QED  BY <1>2, <1>6, <1>7 DEF q, k

(* Orders of one side are in a total order of priority, so any of them     *)
(* have a last one ...                                                     *)
LEMMA LastMaker ==
  ASSUME NEW n \in Nat, NEW book, IsBook(book, n), NEW o, o.side \in Sides,
         NEW S \in SUBSET Makers(book, o), S # {}
  PROVE  \E i \in S : \A j \in S : j = i \/ j \in Ahead(book, o, i)
PROOF
  <1>1. /\ S \in SUBSET DOMAIN book
        /\ \A i \in S : book[i].side # o.side /\ book[i].side \in Sides
        BY BookFinite DEF Makers, RestingOrder
  <1>2. PICK i \in S : \A j \in S : j = i \/ IteratedBefore(book, j, i)
        BY <1>1, LastIterated
  <1>3. \A j \in S : IteratedBefore(book, j, i) => Precedes(book, j, i)
        BY <1>1 DEF IteratedBefore, Sides
  <1>. QED  BY <1>2, <1>3 DEF Ahead

(* ... and a first one.                                                    *)
LEMMA FirstMaker ==
  ASSUME NEW n \in Nat, NEW book, IsBook(book, n), NEW o, o.side \in Sides,
         NEW S \in SUBSET Makers(book, o), S # {}
  PROVE  \E i \in S : \A j \in S : j \notin Ahead(book, o, i)
PROOF
  <1> DEFINE R == {e \in S \X S : IteratedBefore(book, e[2], e[1])}
  <1>1. /\ S \in SUBSET DOMAIN book
        /\ \A i \in S : book[i].side # o.side /\ book[i].side \in Sides
        BY BookFinite DEF Makers, RestingOrder
  <1>2. IsFiniteSet(S)
        BY <1>1, BookFinite
  <1>3. \A i, j \in S : <<i, j>> \in R <=> IteratedBefore(book, j, i)
        OBVIOUS
  <1>4. /\ \A i \in S : ~ IteratedBefore(book, i, i)
        /\ \A i, j \in S : i = j \/ IteratedBefore(book, i, j) \/ IteratedBefore(book, j, i)
        /\ \A i, j, k \in S : IteratedBefore(book, i, j) /\ IteratedBefore(book, j, k)
                                 => IteratedBefore(book, i, k)
        BY <1>1, IterationOrder
  <1> HIDE DEF R
  <1>5. PICK i \in S : \A j \in S : j = i \/ <<j, i>> \in R
    <2>1. \A i \in S : <<i, i>> \notin R
          BY <1>3, <1>4
    <2>2. \A i, j \in S : i = j \/ <<i, j>> \in R \/ <<j, i>> \in R
          BY <1>3, <1>4
    <2>3. \A i, j, k \in S : <<i, j>> \in R /\ <<j, k>> \in R => <<i, k>> \in R
          BY <1>3, <1>4
    <2>. QED  BY <1>2, <2>1, <2>2, <2>3, FiniteLast
  <1>6. \A j \in S : j \in Ahead(book, o, i) => IteratedBefore(book, j, i)
        BY <1>1 DEF Ahead, IteratedBefore, Sides
  <1>7. \A j \in S : ~ IteratedBefore(book, j, i)
    <2> SUFFICES ASSUME NEW j \in S, IteratedBefore(book, j, i) PROVE FALSE
        OBVIOUS
    <2>1. j = i \/ IteratedBefore(book, i, j)
          BY <1>3, <1>5
    <2>2. IteratedBefore(book, i, i)
          BY <1>4, <2>1
    <2>. QED  BY <1>4, <2>2
  <1>. QED  BY <1>6, <1>7

-----------------------------------------------------------------------------
(* A part of a sum of naturals is no more than the sum.                    *)
LEMMA PartOfSum ==
  ASSUME NEW f, NEW S, IsFiniteSet(S), NEW P \in SUBSET S, \A x \in S : f[x] \in Nat
  PROVE  /\ SumFunctionOnSet(f, P) \in Nat /\ SumFunctionOnSet(f, S) \in Nat
         /\ SumFunctionOnSet(f, P) <= SumFunctionOnSet(f, S)
PROOF
  <1> DEFINE R == S \ P
  <1>1. IsFiniteSet(P) /\ IsFiniteSet(R)
    <2>1. P \in SUBSET S /\ R \in SUBSET S
          OBVIOUS
    <2>. QED  BY <2>1, SubsetFacts
  <1>2. /\ P \cap R = {} /\ P \cup R = S
        /\ \A x \in P : f[x] \in Nat
        /\ \A x \in R : f[x] \in Nat
        OBVIOUS
  <1>3. \A x \in P \cup R : f[x] \in Int
        BY <1>2
  <1> HIDE DEF R
  <1>4. SumFunctionOnSet(f, P) \in Nat /\ SumFunctionOnSet(f, R) \in Nat
        BY <1>1, <1>2, SumNat
  <1>5. SumFunctionOnSet(f, S) = SumFunctionOnSet(f, P) + SumFunctionOnSet(f, R)
    <2>1. SumFunctionOnSet(f, P \cup R) = SumFunctionOnSet(f, P) + SumFunctionOnSet(f, R)
          BY <1>1, <1>2, <1>3, SumDisjoint
    <2>2. P \cup R = S
          BY <1>2
    <2>. QED  BY <2>1, <2>2, Zenon
  <1>. QED  BY <1>4, <1>5

(* Lots of the orders ahead of order i.                                    *)
LotsAhead(book, o, i) == SumFunction([j \in Ahead(book, o, i) |-> book[j].qty])

(* The number of lots ahead is a sum over the book.                        *)
LEMMA LotsAheadFacts ==
  ASSUME NEW n \in Nat, NEW book, IsBook(book, n), NEW o, NEW i
  PROVE  LET q == [j \in DOMAIN book |-> book[j].qty]
         IN  /\ LotsAhead(book, o, i) \in Nat
             /\ LotsAhead(book, o, i) = SumFunctionOnSet(q, Ahead(book, o, i))
PROOF
  <1> DEFINE q == [j \in DOMAIN book |-> book[j].qty]
             A == Ahead(book, o, i)
             g == [j \in A |-> book[j].qty]
  <1>1. A \in SUBSET DOMAIN book /\ IsFiniteSet(A)
    <2>1. A \in SUBSET DOMAIN book
          BY DEF Ahead, Makers
    <2>. QED  BY <2>1, BookFinite
  <1>2. \A j \in DOMAIN book : book[j].qty \in Nat
        BY BookFinite DEF RestingOrder
  <1>3. DOMAIN g = A /\ \A j \in A : g[j] \in Nat /\ q[j] \in Int /\ g[j] = q[j]
        BY <1>1, <1>2
  <1>4. LotsAhead(book, o, i) = SumFunctionOnSet(g, A)
        BY <1>3 DEF LotsAhead, SumFunction
  <1> HIDE DEF q, A, g
  <1>5. SumFunctionOnSet(g, A) = SumFunctionOnSet(q, A)
        BY <1>1, <1>3, SumSame
  <1>6. SumFunctionOnSet(g, A) \in Nat
        BY <1>1, <1>3, SumNat
  <1>. QED  BY <1>4, <1>5, <1>6 DEF q, A

(* A limit order as the contract makes it for a native price: the limit is *)
(* that price in lots, an ask has no quote cap, and the quote cap of a bid *)
(* pays for its quantity at the native price.                              *)
IsPriced(p, o, price) ==
  /\ o.limit = {QuoteNativeToLots(p, price)}
  /\ o.side = "Sell" => o.quote = {}
  /\ \A c \in o.quote :
       /\ c \in Nat
       /\ QuoteValue(p, BaseLotsToNative(p, o.qty), price) <= QuoteLotsToNative(p, c)

(* The quote cap never stops a limit order: it can take every lot that its *)
(* quantity leaves room for.                                               *)
LEMMA QuoteSuffices ==
  ASSUME NEW p, IsMarketParams(p), NEW n \in Nat, NEW book, IsBook(book, n),
         NEW o, o.qty \in Nat, o.side \in Sides, NEW price \in Nat, IsPriced(p, o, price),
         NEW i \in Makers(book, o), NEW l \in Nat, LotsAhead(book, o, i) + l <= o.qty
  PROVE  CanTake(p, book, o, i, l)
PROOF
  <1> DEFINE A == Ahead(book, o, i)
             q == [j \in DOMAIN book |-> book[j].qty]
             r == [j \in DOMAIN book |-> book[j].price]
             v == [j \in A |-> QuoteValueOfLots(p, book[j].qty, book[j].price)]
             taken == LotsAhead(book, o, i)
             worth(z) == QuoteValue(p, BaseLotsToNative(p, z), price)
  <1>1. taken \in Nat /\ taken = SumFunctionOnSet(q, A) /\ taken + l <= o.qty
        BY LotsAheadFacts
  <1>2. A \in SUBSET DOMAIN book /\ i \in DOMAIN book /\ IsFiniteSet(A)
    <2>1. A \in SUBSET DOMAIN book /\ i \in DOMAIN book
          BY DEF Ahead, Makers
    <2>. QED  BY <2>1, BookFinite
  <1>3. ASSUME NEW c \in o.quote
        PROVE  SumFunction(v) + QuoteValueOfLots(p, l, book[i].price) <= QuoteLotsToNative(p, c)
    <2>1. o.side = "Buy" /\ worth(o.qty) <= QuoteLotsToNative(p, c)
          BY <1>3 DEF IsPriced, Sides
    <2>2. \A j \in Makers(book, o) : book[j].price <= QuoteNativeToLots(p, price)
          BY <2>1 DEF Makers, IsPriced
    <2>3. \A j \in DOMAIN book : book[j].price \in Nat /\ book[j].qty \in Nat
          BY BookFinite DEF RestingOrder
    <2>4. \A j \in A : /\ q[j] \in Nat /\ r[j] \in Nat
                       /\ r[j] <= QuoteNativeToLots(p, price)
                       /\ v[j] = QuoteValueOfLots(p, q[j], r[j])
          BY <1>2, <2>2, <2>3 DEF Ahead
    <2>5. SumFunction(v) = SumFunctionOnSet(v, A)
          BY DEF SumFunction
    <2>6. /\ QuoteValueOfLots(p, l, book[i].price) \in Nat
          /\ QuoteValueOfLots(p, l, book[i].price) <= worth(l)
          BY <1>2, <2>2, <2>3, FillWithinLimit
    <2> HIDE DEF A, q, r, v, taken
    <2>7. /\ SumFunctionOnSet(v, A) \in Nat
          /\ SumFunctionOnSet(v, A) + worth(l) <= worth(SumFunctionOnSet(q, A) + l)
          BY <1>2, <2>4, FillsWithinLimit
    <2>8. taken + l \in Nat
          BY <1>1
    <2>9. worth(taken + l) <= worth(o.qty) /\ worth(o.qty) \in Nat /\ worth(taken + l) \in Nat
          BY <1>1, <2>8, ValueGrows, LotsFacts
    <2>10. worth(l) \in Nat /\ QuoteLotsToNative(p, c) \in Nat
          BY LotsFacts DEF IsPriced
    <2> HIDE DEF worth
    <2>. QED  BY <1>1, <2>1, <2>5, <2>6, <2>7, <2>9, <2>10
  <1>4. /\ SumFunction([j \in Ahead(book, o, i) |-> book[j].qty]) + l <= o.qty
        /\ \A c \in o.quote :
             SumFunction([j \in Ahead(book, o, i) |-> QuoteValueOfLots(p, book[j].qty, book[j].price)])
               + QuoteValueOfLots(p, l, book[i].price) <= QuoteLotsToNative(p, c)
        BY <1>1, <1>3 DEF LotsAhead
  <1>. QED  BY <1>4 DEF CanTake

(* An order is never filled beyond its quantity.                           *)
LEMMA FillsFit ==
  ASSUME NEW p, NEW n \in Nat, NEW book, IsBook(book, n), NEW o, o.qty \in Nat, o.side \in Sides
  PROVE  /\ SumFunction(Matches(p, book, o)) \in Nat
         /\ SumFunction(Matches(p, book, o)) <= o.qty
PROOF
  <1> DEFINE fills == Matches(p, book, o)
             hit   == DOMAIN fills
             q     == [j \in DOMAIN book |-> book[j].qty]
  <1>1. /\ hit \in SUBSET DOMAIN book
        /\ \A i \in hit : fills[i] \in 1 .. book[i].qty
        BY MatchesFacts
  <1>2. /\ hit \in SUBSET Makers(book, o)
        /\ \A i \in hit : fills[i] = LotsFilled(p, book, o, i)
    <2>1. CASE Rejected(p, book, o)
          BY <2>1 DEF Matches
    <2>2. CASE ~ Rejected(p, book, o)
          BY <2>2 DEF Matches, Crossed
    <2>. QED  BY <2>1, <2>2
  <1>3. SumFunction(fills) = SumFunctionOnSet(fills, hit)
        BY DEF SumFunction
  <1>4. /\ \A i \in DOMAIN book : book[i].qty \in Nat /\ q[i] \in Nat /\ q[i] = book[i].qty
        /\ \A S \in SUBSET DOMAIN book : IsFiniteSet(S)
        BY BookFinite DEF RestingOrder
  <1>5. \A i \in hit : fills[i] \in Nat /\ fills[i] \in Int /\ q[i] \in Int /\ fills[i] <= q[i]
        BY <1>1, <1>4
  <1> HIDE DEF fills, q, hit
  <1>6. SumFunctionOnSet(fills, hit) \in Nat
        BY <1>1, <1>4, <1>5, SumNat
  <1>7. CASE hit = {}
    <2>1. SumFunctionOnSet(fills, hit) = 0
          BY <1>7, SumOfEmpty
    <2>. QED  BY <1>3, <2>1 DEF fills
  <1>8. CASE hit # {}
    <2>1. PICK i \in hit : \A j \in hit : j = i \/ j \in Ahead(book, o, i)
          BY <1>2, <1>8, LastMaker
    <2> DEFINE rest == hit \ {i}
               A    == Ahead(book, o, i)
               k    == LotsFilled(p, book, o, i)
    <2>2. rest \in SUBSET A /\ A \in SUBSET DOMAIN book /\ i \in DOMAIN book
          BY <1>1, <2>1 DEF Ahead, Makers
    <2>3. k \in Nat /\ k > 0 /\ k = fills[i]
          BY <1>1, <1>2, <1>4, <2>1
    <2>4. PICK l \in 1 .. book[i].qty : k <= l /\ CanTake(p, book, o, i, l)
          BY <2>2, <2>3, LotsFilledFacts
    <2>5. LotsAhead(book, o, i) + l <= o.qty
          BY <2>4 DEF CanTake, LotsAhead
    <2>6. LotsAhead(book, o, i) \in Nat /\ LotsAhead(book, o, i) = SumFunctionOnSet(q, A)
          BY LotsAheadFacts DEF q
    <2>7. SumFunctionOnSet(fills, hit) = fills[i] + SumFunctionOnSet(fills, rest)
      <3>1. IsFiniteSet(hit) /\ \A j \in hit : fills[j] \in Int
            BY <1>1, <1>4, <1>5
      <3>. QED  BY <2>1, <3>1, SumRemove
    <2>8. IsFiniteSet(rest) /\ IsFiniteSet(A) /\ rest \in SUBSET hit
      <3>1. rest \in SUBSET DOMAIN book
            BY <2>2
      <3>. QED  BY <1>4, <2>2, <3>1
    <2>9. \A j \in A : q[j] \in Nat
          BY <1>4, <2>2
    <2>10. \A j \in rest : fills[j] \in Int /\ q[j] \in Int /\ fills[j] <= q[j] /\ fills[j] \in Nat
          BY <1>5, <2>8
    <2> HIDE DEF rest, A, k
    <2>11. SumFunctionOnSet(fills, rest) <= SumFunctionOnSet(q, rest)
          BY <2>8, <2>10, SumAtMost
    <2>12. SumFunctionOnSet(q, rest) \in Nat /\ SumFunctionOnSet(q, rest) <= SumFunctionOnSet(q, A)
          BY <2>2, <2>8, <2>9, PartOfSum
    <2>13. SumFunctionOnSet(fills, rest) \in Nat
          BY <2>8, <2>10, SumNat
    <2>. QED  BY <1>3, <1>6, <2>3, <2>4, <2>5, <2>6, <2>7, <2>11, <2>12, <2>13 DEF fills
  <1>. QED  BY <1>3, <1>6, <1>7, <1>8 DEF fills


(* A limit order that leaves a remainder to post has filled every order    *)
(* its limit price crosses.                                                *)
LEMMA MakersAllFilled ==
  ASSUME NEW p, IsMarketParams(p), NEW n \in Nat, NEW book, IsBook(book, n),
         NEW o, o.qty \in Nat, o.side \in Sides, NEW price \in Nat, IsPriced(p, o, price),
         OpenQty(p, book, o) > 0
  PROVE  \A i \in Makers(book, o) :
           i \in DOMAIN Matches(p, book, o) /\ Matches(p, book, o)[i] = book[i].qty
PROOF
  <1> DEFINE M   == Makers(book, o)
             F   == [i \in M |-> LotsFilled(p, book, o, i)]
             hit == {i \in M : LotsFilled(p, book, o, i) > 0}
             fills == Matches(p, book, o)
             q   == [i \in DOMAIN book |-> book[i].qty]
  <1>1. /\ M \in SUBSET DOMAIN book
        /\ \A i \in DOMAIN book : book[i].qty \in Nat \ {0}
        /\ \A S \in SUBSET DOMAIN book : IsFiniteSet(S)
    <2>1. M \in SUBSET DOMAIN book
          BY DEF Makers
    <2>. QED  BY <2>1, BookFinite DEF RestingOrder
  <1>2. \A i \in M : F[i] \in 0 .. book[i].qty /\ F[i] = LotsFilled(p, book, o, i)
        BY <1>1, LotsFilledType
  <1>3. ~ Rejected(p, book, o) /\ SumFunction(fills) < o.qty
    <2>1. /\ ~ Rejected(p, book, o)
          /\ OpenQty(p, book, o) = SaturatingSub(o.qty, SumFunction(fills))
          BY DEF OpenQty
    <2>2. SumFunction(fills) \in Nat
          BY FillsFit
    <2> HIDE DEF fills
    <2>. QED  BY <2>1, <2>2 DEF SaturatingSub
  <1>4. fills = [i \in hit |-> LotsFilled(p, book, o, i)]
        BY <1>3 DEF Matches, Crossed
  <1>5. /\ DOMAIN fills = hit
        /\ \A i \in hit : i \in M /\ fills[i] = F[i]
        BY <1>4
  <1>6. \A i \in M : F[i] \in Nat
        BY <1>1, <1>2
  <1>7. SumFunctionOnSet(F, M) < o.qty
    <2>1. SumFunction(fills) = SumFunctionOnSet(fills, hit)
          BY <1>5 DEF SumFunction
    <2>2. IsFiniteSet(M) /\ hit \in SUBSET M
          BY <1>1
    <2>3. \A i \in hit : fills[i] \in Int /\ F[i] = fills[i]
          BY <1>5, <1>6
    <2>4. \A i \in M \ hit : F[i] = 0
          BY <1>2, <1>6
    <2> HIDE DEF fills, hit, F, M
    <2>5. SumFunctionOnSet(fills, hit) = SumFunctionOnSet(F, M)
          BY <2>2, <2>3, <2>4, SumOfPart
    <2>. QED  BY <1>3, <2>1, <2>5
  <1>8. \A i \in M : F[i] = book[i].qty
    <2> DEFINE S == {i \in M : F[i] # book[i].qty}
    <2> SUFFICES ASSUME S # {} PROVE FALSE
        OBVIOUS
    <2>1. PICK i \in S : \A j \in S : j \notin Ahead(book, o, i)
      <3>1. S \in SUBSET Makers(book, o)
            OBVIOUS
      <3> HIDE DEF S
      <3>. QED  BY <3>1, FirstMaker
    <2> DEFINE A == Ahead(book, o, i)
               k == LotsFilled(p, book, o, i)
    <2>2. /\ i \in DOMAIN book /\ i \in M /\ i \notin A /\ A \in SUBSET M
          /\ \A j \in A : F[j] = book[j].qty
      <3>1. i \in M /\ A \in SUBSET M /\ i \notin A
            BY <2>1 DEF Ahead
      <3>2. \A j \in A : j \notin S
            BY <2>1, <3>1
      <3>. QED  BY <1>1, <3>1, <3>2
    <2>3. k = F[i] /\ k \in Nat /\ k < book[i].qty
          BY <1>1, <1>2, <2>1, <2>2
    <2>4. PICK l \in 1 .. k + 1 : ~ CanTake(p, book, o, i, l)
          BY <2>2, <2>3, LotsFilledFacts
    <2>5. LotsAhead(book, o, i) \in Nat /\ LotsAhead(book, o, i) = SumFunctionOnSet(q, A)
          BY LotsAheadFacts
    <2>6. ~ (LotsAhead(book, o, i) + l <= o.qty)
      <3>1. l \in Nat
            BY <2>3, <2>4
      <3>. QED  BY <2>2, <2>4, <3>1, QuoteSuffices
    <2>7. IsFiniteSet(M) /\ IsFiniteSet(A) /\ IsFiniteSet(A \cup {i}) /\ A \cup {i} \in SUBSET M
      <3>1. A \in SUBSET DOMAIN book /\ A \cup {i} \in SUBSET DOMAIN book
            BY <1>1, <2>2
      <3>. QED  BY <1>1, <2>2, <3>1
    <2>8. /\ \A j \in A : q[j] \in Int /\ F[j] = q[j]
          /\ \A j \in A \cup {i} : F[j] \in Int
      <3>1. \A j \in A : j \in DOMAIN book /\ q[j] = book[j].qty /\ book[j].qty \in Int
            BY <1>1, <2>2
      <3>2. \A j \in M : F[j] \in Int
            BY <1>6
      <3> HIDE DEF A, q, F, M
      <3>. QED  BY <2>2, <3>1, <3>2
    <2>9. (A \cup {i}) \ {i} = A /\ i \in A \cup {i}
          BY <2>2
    <2> HIDE DEF A, F, M, S, q, k
    <2>10. SumFunctionOnSet(F, A) = SumFunctionOnSet(q, A)
          BY <2>7, <2>8, SumSame
    <2>11. SumFunctionOnSet(F, A \cup {i}) = F[i] + SumFunctionOnSet(F, A)
      <3>1. SumFunctionOnSet(F, A \cup {i}) = F[i] + SumFunctionOnSet(F, (A \cup {i}) \ {i})
            BY <2>7, <2>8, <2>9, SumRemove
      <3>. QED  BY <2>9, <3>1
    <2>12. /\ SumFunctionOnSet(F, M) \in Nat
           /\ SumFunctionOnSet(F, A \cup {i}) <= SumFunctionOnSet(F, M)
           /\ SumFunctionOnSet(F, A \cup {i}) \in Nat
          BY <1>6, <2>7, PartOfSum
    <2>. QED  BY <1>7, <2>3, <2>4, <2>5, <2>6, <2>10, <2>11, <2>12
  <1>9. \A i \in M : i \in hit
        BY <1>1, <1>2, <1>8
  <1>. QED  BY <1>5, <1>8, <1>9


-----------------------------------------------------------------------------
(* No bid of the book is at or above one of its asks.                      *)
Uncrossed(book) ==
  \A i \in OnSide(book, "Buy"), j \in OnSide(book, "Sell") : book[i].price < book[j].price

(* Orders that keep their side and price, or leave, do not cross.          *)
LEMMA FewerUncrossed ==
  ASSUME NEW book, Uncrossed(book), NEW new, DOMAIN new \subseteq DOMAIN book,
         \A i \in DOMAIN new : new[i].side = book[i].side /\ new[i].price = book[i].price
  PROVE  Uncrossed(new)
BY DEF Uncrossed, OnSide

(* An order that is posted does not cross what is left of the book.        *)
LEMMA BookAfterUncrossed ==
  ASSUME NEW p, IsMarketParams(p), NEW n \in Nat, NEW book, IsBook(book, n), Uncrossed(book),
         NEW o, IsNewOrder(o),
         o.type \in {"Limit", "PostOnly"} => \E price \in Nat : IsPriced(p, o, price)
  PROVE  Uncrossed(BookAfter(p, book, o, n + 1))
PROOF
  <1> DEFINE fills == Matches(p, book, o)
             open  == OpenQty(p, book, o)
             new   == BookAfter(p, book, o, n + 1)
             limit == CHOOSE l \in o.limit : TRUE
             old   == DOMAIN new \ {n + 1}
  <1>1. IsBook(new, n + 1) /\ OrderJoined(new, book, o, fills, open, n + 1) /\ n + 1 \in Nat
        BY BookAfterFacts
  <1>2. /\ \A i \in DOMAIN book : book[i] \in RestingOrder
        /\ \A i \in DOMAIN new : new[i] \in RestingOrder
        /\ n + 1 \notin DOMAIN book
    <2>1. DOMAIN book \subseteq 1 .. n /\ \A i \in DOMAIN book : book[i] \in RestingOrder
          BY BookFinite
    <2> HIDE DEF new
    <2>2. \A i \in DOMAIN new : new[i] \in RestingOrder
          BY <1>1, BookFinite
    <2>. QED  BY <2>1, <2>2
  <1>3. /\ DOMAIN new = (DOMAIN book \ FullyFilled(book, fills)) \cup
                          (IF open > 0 THEN {n + 1} ELSE {})
        /\ \A i \in old : i \in DOMAIN book /\ [new[i] EXCEPT !.qty = 0] = [book[i] EXCEPT !.qty = 0]
        BY <1>1 DEF OrderJoined
  <1>4. open > 0 => new[n + 1].side = o.side /\ new[n + 1].price = limit
    <2> SUFFICES ASSUME open > 0 PROVE new[n + 1].side = o.side /\ new[n + 1].price = limit
        OBVIOUS
    <2>1. new[n + 1] = [owner |-> o.owner, side |-> o.side, price |-> limit, qty |-> open]
          BY DEF BookAfter
    <2> HIDE DEF new
    <2>. QED  BY <2>1
  <1> HIDE DEF new
  <1>5. \A i \in old : /\ i \in DOMAIN book
                       /\ new[i].side = book[i].side /\ new[i].price = book[i].price
    <2> TAKE i \in old
    <2>1. /\ i \in DOMAIN book /\ new[i] \in RestingOrder /\ book[i] \in RestingOrder
          /\ [new[i] EXCEPT !.qty = 0] = [book[i] EXCEPT !.qty = 0]
          BY <1>2, <1>3
    <2>2. \A x, y \in RestingOrder :
            [x EXCEPT !.qty = 0] = [y EXCEPT !.qty = 0] => x.side = y.side /\ x.price = y.price
          BY DEF RestingOrder
    <2>. QED  BY <2>1, <2>2
  <1>6. CASE ~ (open > 0)
    <2>1. DOMAIN new = old
          BY <1>2, <1>3, <1>6
    <2>2. DOMAIN new \subseteq DOMAIN book
          BY <1>5, <2>1
    <2>3. Uncrossed(new)
          BY <1>5, <2>1, <2>2, FewerUncrossed
    <2>. QED  BY <2>3 DEF new
  <1>7. CASE open > 0
    <2>1. o.qty \in Nat /\ o.side \in Sides /\ o.type \in {"Limit", "PostOnly"}
          BY <1>7, OpenQtyFacts DEF IsNewOrder
    <2>2. PICK price \in Nat : IsPriced(p, o, price)
          BY <2>1
    <2>3. \A i \in Makers(book, o) : i \in DOMAIN fills /\ fills[i] = book[i].qty
          BY <1>7, <2>1, <2>2, MakersAllFilled
    <2>4. o.limit = {limit} /\ limit \in Nat
      <3>1. o.limit = {QuoteNativeToLots(p, price)} /\ QuoteNativeToLots(p, price) \in Nat
            BY <2>2, LotsFacts DEF IsPriced
      <3>. QED  BY <3>1
    <2> HIDE DEF fills, open, limit
    <2>5. \A i \in old : i \notin Makers(book, o)
          BY <1>3, <2>3 DEF FullyFilled
    <2>6. \A i \in old : /\ book[i].side \in Sides /\ book[i].price \in Nat
                         /\ o.side = "Buy" /\ book[i].side = "Sell" => limit < book[i].price
                         /\ o.side = "Sell" /\ book[i].side = "Buy" => book[i].price < limit
      <3> TAKE i \in old
      <3>1. i \in DOMAIN book /\ book[i].side \in Sides /\ book[i].price \in Nat
            BY <1>2, <1>5 DEF RestingOrder
      <3>2. book[i].side # o.side => ~ IF o.side = "Buy" THEN book[i].price <= limit
                                                         ELSE book[i].price >= limit
            BY <2>4, <2>5, <3>1 DEF Makers
      <3>. QED  BY <2>1, <2>4, <3>1, <3>2 DEF Sides
    <2>7. \A i, j \in DOMAIN new : new[i].side = "Buy" /\ new[j].side = "Sell"
                                     => new[i].price < new[j].price
      <3> SUFFICES ASSUME NEW i \in DOMAIN new, NEW j \in DOMAIN new,
                          new[i].side = "Buy", new[j].side = "Sell"
                   PROVE  new[i].price < new[j].price
          OBVIOUS
      <3>1. i = n + 1 \/ i \in old
            OBVIOUS
      <3>2. j = n + 1 \/ j \in old
            OBVIOUS
      <3> HIDE DEF old
      <3>3. CASE i = n + 1
            BY <1>4, <1>5, <1>7, <2>6, <3>2, <3>3
      <3>4. CASE j = n + 1
            BY <1>4, <1>5, <1>7, <2>6, <3>1, <3>4
      <3>5. CASE i \in old /\ j \in old
        <4>1. i \in OnSide(book, "Buy") /\ j \in OnSide(book, "Sell")
              BY <1>5, <3>5 DEF OnSide
        <4>. QED  BY <1>5, <3>5, <4>1 DEF Uncrossed
      <3>. QED  BY <3>1, <3>2, <3>3, <3>4, <3>5
    <2>8. Uncrossed(new)
          BY <2>7 DEF Uncrossed, OnSide
    <2>. QED  BY <2>8 DEF new
  <1>. QED  BY <1>6, <1>7

-----------------------------------------------------------------------------
(* What GetMaxBidDebit gives is a natural.                                 *)
LEMMA MaxBidDebitType ==
  ASSUME NEW m \in Markets, NEW price \in Prices, NEW quantity \in Quantities,
         NEW max_spend \in Optional(MaxSpends)
  PROVE  GetMaxBidDebit(MarketParams[m], price, quantity, max_spend) \in Nat
PROOF
  <1>1. price \in Nat /\ quantity \in Nat
        BY InputAssumption
  <1>2. CASE max_spend = {}
        BY <1>1, <1>2, ParamsFacts, LotsFacts DEF GetMaxBidDebit
  <1>3. CASE max_spend # {}
    <2>1. PICK x \in MaxSpends : max_spend = {x}
          BY <1>3 DEF Optional
    <2>2. (CHOOSE y \in max_spend : TRUE) = x
          BY <2>1
    <2>. QED  BY <1>3, <2>1, <2>2, InputAssumption DEF GetMaxBidDebit
  <1>. QED  BY <1>2, <1>3

(* A number of lots that a budget affords at a native price costs no more  *)
(* than the budget.                                                        *)
LEMMA AffordableCost ==
  ASSUME NEW p, IsMarketParams(p), NEW lots \in Nat, NEW price \in Nat \ {0}, NEW x \in Nat,
         x <= AffordableLots(p, lots, price)
  PROVE  QuoteValue(p, BaseLotsToNative(p, x), price) <= QuoteLotsToNative(p, lots)
PROOF
  <1> DEFINE b == p.base_lot
             d == p.base_denomination
             budget == QuoteLotsToNative(p, lots)
             most == (budget * d) \div price
  <1>1. b \in Nat \ {0} /\ d \in Nat \ {0} /\ budget \in Nat
        BY LotsFacts DEF IsMarketParams
  <1>2. /\ QuoteValue(p, BaseLotsToNative(p, x), price) = ((x * b) * price) \div d
        /\ AffordableLots(p, lots, price) = most \div b
        BY DEF QuoteValue, BaseLotsToNative, AffordableLots
  <1> HIDE DEF b, d, budget
  <1>3. budget * d \in Nat
        BY <1>1, TimesNat
  <1>4. most \in Nat /\ price * most <= budget * d
        BY <1>3, DivNat
  <1> HIDE DEF most
  <1>5. most \div b \in Nat /\ b * (most \div b) <= most
        BY <1>1, <1>4, DivNat
  <1>6. x * b \in Nat /\ x * b <= most
    <2> DEFINE k == most \div b
    <2>1. x <= k
          BY <1>2
    <2> HIDE DEF k
    <2>2. x * b \in Nat /\ x * b <= k * b
          BY <1>1, <1>5, <2>1, TimesNat DEF k
    <2>3. k * b = b * k /\ k * b \in Nat
          BY <1>1, <1>5, TimesNat DEF k
    <2>. QED  BY <1>4, <1>5, <2>2, <2>3 DEF k
  <1>7. (x * b) * price \in Nat /\ (x * b) * price <= budget * d
    <2>1. (x * b) * price \in Nat /\ (x * b) * price <= most * price
          BY <1>4, <1>6, TimesNat
    <2>2. most * price = price * most /\ most * price \in Nat
          BY <1>4, TimesNat
    <2>. QED  BY <1>3, <1>4, <2>1, <2>2
  <1>8. (x * b) * price <= d * budget
    <2>1. budget * d = d * budget
          BY <1>1
    <2>. QED  BY <1>7, <2>1
  <1>9. ((x * b) * price) \div d <= budget
        BY <1>1, <1>7, <1>8, DivBound
  <1>. QED  BY <1>2, <1>9 DEF budget

(* Both kinds of limit orders are priced as MakersAllFilled wants them.    *)
LEMMA LimitBuyPriced ==
  ASSUME NEW a \in Traders, NEW m \in Markets, NEW type \in TypesTried,
         NEW price \in Prices, NEW quantity \in Quantities,
         NEW max_spend \in Optional(MaxSpends)
  PROVE  LET p == MarketParams[m]
             o == LimitBuyOrder(a, m, type, price, quantity, max_spend)
             spend == WithholdTakerFee(p.taker_rate, GetMaxBidDebit(p, price, quantity, max_spend))
         IN  /\ IsPriced(p, o, price)
             /\ spend \in Nat
             /\ \A c \in o.quote : QuoteLotsToNative(p, c) <= spend
             /\ o.quote # {}
PROOF
  <1> DEFINE p == MarketParams[m]
             o == LimitBuyOrder(a, m, type, price, quantity, max_spend)
             max == GetMaxBidDebit(p, price, quantity, max_spend)
             spend == WithholdTakerFee(p.taker_rate, max)
             lots == QuoteNativeToLots(p, spend)
             affordable == AffordableLots(p, lots, price)
  <1>1. price \in Nat \ {0} /\ max \in Nat
        BY InputAssumption, MaxBidDebitType
  <1>2. /\ IsMarketParams(p) /\ p.taker_rate \in 0 .. FeeToBpsDivisor
        /\ p.quote_lot \in Nat \ {0}
        BY ParamsFacts DEF IsMarketParams
  <1>3. /\ IsNewOrder(o) /\ o.limit = {QuoteNativeToLots(p, price)} /\ o.side = "Buy"
        BY LimitBuyOrderFacts
  <1>4. o.quote = {lots} /\ o.qty <= affordable /\ o.qty \in Nat
    <2>1. o.quote = {lots}
          BY DEF LimitBuyOrder
    <2>2. o.qty = IF BaseNativeToLots(p, quantity) <= affordable
                    THEN BaseNativeToLots(p, quantity) ELSE affordable
          BY DEF LimitBuyOrder
    <2>3. o.qty \in Nat
          BY <1>3 DEF IsNewOrder
    <2> HIDE DEF o, affordable
    <2>. QED  BY <2>1, <2>2, <2>3
  <1> HIDE DEF o, p, max
  <1>5. spend \in Nat
        BY <1>1, <1>2, FeeBound DEF WithholdTakerFee, SaturatingSub
  <1> HIDE DEF spend
  <1>6. lots \in Nat
        BY <1>2, <1>5, LotsFacts
  <1>7. QuoteLotsToNative(p, lots) <= spend
    <2> DEFINE k == spend \div p.quote_lot
    <2>1. k \in Nat /\ p.quote_lot * k <= spend
          BY <1>2, <1>5, DivNat
    <2> HIDE DEF k
    <2>2. lots <= k
          BY <2>1, AsU64Smaller DEF QuoteNativeToLots, k
    <2>3. lots * p.quote_lot \in Nat /\ lots * p.quote_lot <= k * p.quote_lot
          BY <1>2, <1>6, <2>1, <2>2, TimesNat
    <2>4. k * p.quote_lot = p.quote_lot * k /\ p.quote_lot * k \in Nat
          BY <1>2, <2>1, TimesNat
    <2>. QED  BY <1>5, <2>1, <2>3, <2>4 DEF QuoteLotsToNative
  <1> HIDE DEF lots
  <1>8. QuoteValue(p, BaseLotsToNative(p, o.qty), price) <= QuoteLotsToNative(p, lots)
        BY <1>1, <1>2, <1>4, <1>6, AffordableCost
  <1>9. IsPriced(p, o, price)
        BY <1>3, <1>4, <1>6, <1>8 DEF IsPriced
  <1>. QED  BY <1>4, <1>5, <1>7, <1>9 DEF p, o, spend, max

(* An ask has no quote cap.                                                *)
LEMMA LimitSellPriced ==
  ASSUME NEW a, NEW m \in Markets, NEW type, NEW price, NEW quantity
  PROVE  IsPriced(MarketParams[m], LimitSellOrder(a, m, type, price, quantity), price)
BY DEF LimitSellOrder, IsPriced


-----------------------------------------------------------------------------
(* An order o that the contract may make was placed in the book of m, and  *)
(* no other book changed.                                                  *)
BookTakes(m, o) ==
  /\ IsNewOrder(o)
  /\ o.type \in {"Limit", "PostOnly"} => \E price \in Nat : IsPriced(MarketParams[m], o, price)
  /\ markets'[m].book = BookAfter(MarketParams[m], markets[m].book, o,
                                  prev_order_sequence_number + 1)
  /\ \A k \in Markets \ {m} : markets'[k].book = markets[k].book

(* ExecuteOrder puts the order in one book.                                *)
LEMMA ExecuteOrderBook ==
  ASSUME TypeOK, NEW m \in Markets, NEW o, NEW referrer, NEW taker,
         ExecuteOrder(m, o, referrer, taker)
  PROVE  /\ markets'[m].book = BookAfter(MarketParams[m], markets[m].book, o,
                                         prev_order_sequence_number + 1)
         /\ \A k \in Markets \ {m} : markets'[k].book = markets[k].book
PROOF
  <1>1. markets = [k \in Markets |-> markets[k]] /\ IsMarket(markets[m], prev_order_sequence_number)
        BY DEF TypeOK
  <1>2. PICK fees : markets' = [markets EXCEPT
          ![m].book = BookAfter(MarketParams[m], markets[m].book, o, NextSequence),
          ![m].fees_accrued = fees]
        BY DEF ExecuteOrder
  <1>3. DOMAIN markets = Markets
        BY <1>1
  <1>4. markets[m] \in [state : MarketStates, book : {markets[m].book}, fees_accrued : Nat,
                        minimum_bid_bps : BidWindows, maximum_ask_bps : AskWindows]
        BY <1>1 DEF IsMarket
  <1>. QED  BY <1>2, <1>3, <1>4 DEF NextSequence

(* Every way of placing an order does.                                     *)
LEMMA NewOrderBook ==
  ASSUME TypeOK, NEW m \in Markets, NewOrder(m)
  PROVE  \E o : BookTakes(m, o)
PROOF
  <1>1. CASE NewLimitBuy(m)
    <2>1. PICK a \in Traders, type \in TypesTried, price \in Prices,
               quantity \in Quantities, max_spend \in Optional(MaxSpends),
               referrer \in Optional(Referrers) :
            PlaceLimitBuy(a, m, type, price, quantity, max_spend, referrer)
          BY <1>1 DEF NewLimitBuy, LimitBuyBy
    <2> DEFINE o == LimitBuyOrder(a, m, type, price, quantity, max_spend)
    <2>2. \E taker : ExecuteOrder(m, o, referrer, taker)
          BY <2>1 DEF PlaceLimitBuy
    <2>3. IsNewOrder(o) /\ price \in Nat
          BY LimitBuyOrderFacts, InputAssumption
    <2>4. IsPriced(MarketParams[m], o, price)
          BY LimitBuyPriced
    <2> HIDE DEF o
    <2>5. BookTakes(m, o)
          BY <2>2, <2>3, <2>4, ExecuteOrderBook DEF BookTakes
    <2>. QED  BY <2>5
  <1>2. CASE NewLimitSell(m)
    <2>1. PICK a \in Traders, type \in TypesTried, price \in Prices,
               quantity \in Quantities, referrer \in Optional(Referrers) :
            PlaceLimitSell(a, m, type, price, quantity, referrer)
          BY <1>2 DEF NewLimitSell, LimitSellBy
    <2> DEFINE o == LimitSellOrder(a, m, type, price, quantity)
    <2>2. \E taker : ExecuteOrder(m, o, referrer, taker)
          BY <2>1 DEF PlaceLimitSell
    <2>3. IsNewOrder(o) /\ price \in Nat
          BY LimitSellOrderFacts, InputAssumption
    <2>4. IsPriced(MarketParams[m], o, price)
          BY LimitSellPriced
    <2> HIDE DEF o
    <2>5. BookTakes(m, o)
          BY <2>2, <2>3, <2>4, ExecuteOrderBook DEF BookTakes
    <2>. QED  BY <2>5
  <1>3. CASE NewMarketOrder(m)
    <2>1. PICK a \in Traders, side \in Sides, quantity \in Quantities,
               max_spend \in Optional(MaxSpends), referrer \in Optional(Referrers) :
            PlaceMarketOrder(a, m, side, quantity, max_spend, referrer)
          BY <1>3 DEF NewMarketOrder, MarketOrderBy
    <2> DEFINE o == MarketOrder(a, m, side, quantity, max_spend)
    <2>2. \E taker : ExecuteOrder(m, o, referrer, taker)
          BY <2>1 DEF PlaceMarketOrder
    <2>3. IsNewOrder(o) /\ o.type = "Market"
          BY MarketOrderFacts
    <2> HIDE DEF o
    <2>4. BookTakes(m, o)
          BY <2>2, <2>3, ExecuteOrderBook DEF BookTakes
    <2>. QED  BY <2>4
  <1>. QED  BY <1>1, <1>2, <1>3 DEF NewOrder

(* Every step puts one order in a book, cancels orders or flips a switch.  *)
LEMMA BookStep ==
  ASSUME TypeOK, Next
  PROVE  \/ \E m \in Markets : \E o : BookTakes(m, o)
         \/ SomeOrdersCancelled
         \/ OnlySwitched
PROOF
  <1>1. CASE Switch
    <2>1. PICK state \in ContractStatesTried : SetContractState(state)
          BY <1>1 DEF Switch
    <2>. QED  BY <2>1 DEF SetContractState, OnlySwitched
  <1>2. ASSUME NEW m \in Markets, NewOrder(m) PROVE \E o : BookTakes(m, o)
        BY <1>2, NewOrderBook
  <1>3. ASSUME NEW m \in Markets, Cancel(m) PROVE SomeOrdersCancelled
        BY <1>3, InternalCancelOrderFacts, InternalCancelAllOrdersFacts
        DEF Cancel, CancelOrder, CancelAllOrders
  <1>4. ASSUME NEW m \in Markets, Admin(m) PROVE SomeOrdersCancelled \/ OnlySwitched
        BY <1>4, AdminFacts
  <1>. QED  BY <1>1, <1>2, <1>3, <1>4 DEF Next

(* A bid never rests at or above an ask, for every lot size, price, fee    *)
(* rate, quantity and number of orders: placing an order posts only what   *)
(* no order of the other side could still meet.                            *)
THEOREM BookNeverCrosses == Spec => []BookNotCrossed
PROOF
  <1>1. Init => BookNotCrossed
        BY DEF Init, BookNotCrossed, OnSide, EmptyBook
  <1>2. ASSUME TypeOK, BookNotCrossed, Next PROVE BookNotCrossed'
    <2> DEFINE n == prev_order_sequence_number
    <2>1. /\ n \in Nat
          /\ \A m \in Markets : IsBook(markets[m].book, n) /\ Uncrossed(markets[m].book)
          BY <1>2 DEF TypeOK, IsMarket, IsBook, BookNotCrossed, Uncrossed
    <2>2. SUFFICES ASSUME NEW k \in Markets PROVE Uncrossed(markets'[k].book)
          BY DEF BookNotCrossed, Uncrossed, OnSide
    <2>3. ASSUME NEW m \in Markets, NEW o, BookTakes(m, o)
          PROVE  Uncrossed(markets'[k].book)
      <3>1. CASE k = m
        <4>1. markets'[k].book = BookAfter(MarketParams[k], markets[k].book, o, n + 1)
              BY <2>3, <3>1 DEF BookTakes
        <4>2. /\ IsNewOrder(o) /\ IsMarketParams(MarketParams[k])
              /\ o.type \in {"Limit", "PostOnly"} =>
                   \E price \in Nat : IsPriced(MarketParams[k], o, price)
              BY <2>3, <3>1, ParamsFacts DEF BookTakes
        <4> HIDE DEF n
        <4>3. Uncrossed(BookAfter(MarketParams[k], markets[k].book, o, n + 1))
              BY <2>1, <4>2, BookAfterUncrossed
        <4>. QED  BY <4>1, <4>3
      <3>2. CASE k # m
            BY <2>1, <2>3, <3>2 DEF BookTakes
      <3>. QED  BY <3>1, <3>2
    <2>4. CASE SomeOrdersCancelled
      <3>0. PICK m \in Markets : \E ids : OrdersCancelled(m, ids)
            BY <2>4 DEF SomeOrdersCancelled
      <3>1. PICK ids : OrdersCancelled(m, ids)
            BY <3>0
      <3>2. CASE k = m
        <4>1. markets'[k].book = RemoveOrders(markets[k].book, ids)
              BY <3>1, <3>2 DEF OrdersCancelled
        <4>2. Uncrossed(RemoveOrders(markets[k].book, ids))
              BY <2>1 DEF RemoveOrders, Uncrossed, OnSide
        <4>. QED  BY <4>1, <4>2
      <3>3. CASE k # m
            BY <2>1, <3>1, <3>3 DEF OrdersCancelled
      <3>. QED  BY <3>2, <3>3
    <2>5. CASE OnlySwitched
          BY <2>1, <2>5 DEF OnlySwitched
    <2>. QED  BY <1>2, <2>3, <2>4, <2>5, BookStep
  <1>3. BookNotCrossed /\ UNCHANGED vars => BookNotCrossed'
        BY DEF BookNotCrossed, vars
  <1>4. TypeOK /\ BookNotCrossed /\ [Next]_vars => BookNotCrossed'
        BY <1>2, <1>3
  <1>. QED  BY <1>1, <1>4, TypeCorrect, PTL DEF Spec


-----------------------------------------------------------------------------
(* What a bid pays and what it locks are together no more than its whole   *)
(* quantity is worth at its native price.                                  *)
LEMMA BidCost ==
  ASSUME TypeOK, NEW m \in Markets, NEW o, o.qty \in Nat, o.side = "Buy",
         NEW price \in Nat, IsPriced(MarketParams[m], o, price)
  PROVE  LET p     == MarketParams[m]
             fills == Matches(p, markets[m].book, o)
             lock  == QuoteValue(p, BaseLotsToNative(p, OpenQty(p, markets[m].book, o)), price)
         IN  /\ QuoteTraded(m, fills) \in Nat /\ lock \in Nat
             /\ QuoteTraded(m, fills) + lock <= QuoteValue(p, BaseLotsToNative(p, o.qty), price)
PROOF
  <1> DEFINE n     == prev_order_sequence_number
             p     == MarketParams[m]
             book  == markets[m].book
             fills == Matches(p, book, o)
             hit   == DOMAIN fills
             open  == OpenQty(p, book, o)
             r     == [i \in hit |-> book[i].price]
             v     == [i \in hit |-> QuotePaid(m, fills, i)]
             lock  == QuoteValue(p, BaseLotsToNative(p, open), price)
             whole == QuoteValue(p, BaseLotsToNative(p, o.qty), price)
  <1>1. n \in Nat /\ IsBook(book, n) /\ IsMarketParams(p) /\ o.side \in Sides
        BY ParamsFacts DEF TypeOK, IsMarket, IsBook, Sides
  <1>2. QuoteTraded(m, fills) \in Nat /\ open \in Nat
        BY OrderAmounts
  <1>3. /\ SumFunction(fills) \in Nat /\ SumFunction(fills) <= o.qty
        /\ SumFunction(fills) = SumFunctionOnSet(fills, hit)
    <2>1. SumFunction(fills) = SumFunctionOnSet(fills, hit)
          BY DEF SumFunction
    <2> HIDE DEF n, p, book
    <2>. QED  BY <1>1, <2>1, FillsFit
  <1>4. QuoteTraded(m, fills) = SumFunctionOnSet(v, hit)
        BY DEF QuoteTraded, SumFunction
  <1>5. SumFunction(fills) + open <= o.qty /\ SumFunction(fills) + open \in Nat
    <2>1. open = SaturatingSub(o.qty, SumFunction(fills)) \/ open = 0
          BY DEF OpenQty
    <2> HIDE DEF open, fills
    <2>. QED  BY <1>2, <1>3, <2>1 DEF SaturatingSub
  <1>6. /\ hit \in SUBSET Makers(book, o)
        /\ hit \in SUBSET DOMAIN book
        /\ \A i \in hit : fills[i] \in 1 .. book[i].qty
    <2>1. hit \in SUBSET Makers(book, o)
      <3>1. CASE Rejected(p, book, o)
            BY <3>1 DEF Matches
      <3>2. CASE ~ Rejected(p, book, o)
            BY <3>2 DEF Matches, Crossed
      <3>. QED  BY <3>1, <3>2
    <2> HIDE DEF n, p, book
    <2>2. hit \in SUBSET DOMAIN book /\ \A i \in hit : fills[i] \in 1 .. book[i].qty
          BY <1>1, MatchesFacts
    <2>. QED  BY <2>1, <2>2
  <1>7. /\ \A i \in DOMAIN book : book[i].price \in Nat /\ book[i].qty \in Nat
        /\ IsFiniteSet(hit)
    <2> HIDE DEF n, book, hit
    <2>. QED  BY <1>1, <1>6, BookFinite DEF RestingOrder
  <1>8. \A i \in Makers(book, o) : book[i].price <= QuoteNativeToLots(p, price)
        BY DEF Makers, IsPriced
  <1>9. \A i \in hit : /\ fills[i] \in Nat /\ r[i] \in Nat
                       /\ r[i] <= QuoteNativeToLots(p, price)
                       /\ v[i] = QuoteValueOfLots(p, fills[i], r[i])
    <2> TAKE i \in hit
    <2>1. v[i] = QuoteValueOfLots(p, fills[i], r[i]) /\ r[i] = book[i].price
          BY DEF QuotePaid
    <2>2. i \in DOMAIN book /\ i \in Makers(book, o) /\ fills[i] \in 1 .. book[i].qty
          BY <1>6
    <2> HIDE DEF v, r, fills, p, book
    <2>. QED  BY <1>7, <1>8, <2>1, <2>2
  <1> HIDE DEF n, p, book, fills, hit, open, r, v
  <1>10. SumFunctionOnSet(v, hit) + lock
           <= QuoteValue(p, BaseLotsToNative(p, SumFunctionOnSet(fills, hit) + open), price)
        BY <1>1, <1>2, <1>7, <1>9, FillsWithinLimit
  <1>11. QuoteValue(p, BaseLotsToNative(p, SumFunction(fills) + open), price) <= whole
        BY <1>1, <1>5, ValueGrows
  <1>12. /\ lock \in Nat /\ whole \in Nat
         /\ QuoteValue(p, BaseLotsToNative(p, SumFunction(fills) + open), price) \in Nat
    <2>1. /\ BaseLotsToNative(p, open) \in Nat /\ BaseLotsToNative(p, o.qty) \in Nat
          /\ BaseLotsToNative(p, SumFunction(fills) + open) \in Nat
          BY <1>1, <1>2, <1>5, LotsFacts
    <2>. QED  BY <1>1, <2>1, LotsFacts
  <1> HIDE DEF lock, whole
  <1>13. QuoteTraded(m, fills) + lock <= whole
        BY <1>2, <1>3, <1>4, <1>10, <1>11, <1>12
  <1>. QED  BY <1>2, <1>12, <1>13 DEF n, p, book, fills, open, lock, whole

(* No bid overspends, whatever the lot sizes, the book, the prices of the  *)
(* makers and the fee rate: the assertion "bid bug: overspent" and its     *)
(* panic are unreachable.                                                  *)
THEOREM BidsNeverOverspend == Spec => []BidNeverOverspends
PROOF
  <1>1. TypeOK => BidNeverOverspends
    <2> SUFFICES ASSUME TypeOK, NEW a \in Traders, NEW m \in Markets, NEW type \in TypesTried,
                        NEW price \in Prices, NEW quantity \in Quantities,
                        NEW max_spend \in Optional(MaxSpends)
                 PROVE  LimitBuyDebit(m, LimitBuyOrder(a, m, type, price, quantity, max_spend), price)
                          <= GetMaxBidDebit(MarketParams[m], price, quantity, max_spend)
        BY DEF BidNeverOverspends
    <2> DEFINE p      == MarketParams[m]
               o      == LimitBuyOrder(a, m, type, price, quantity, max_spend)
               most   == GetMaxBidDebit(p, price, quantity, max_spend)
               spend  == WithholdTakerFee(p.taker_rate, most)
               traded == QuoteTraded(m, Matches(p, markets[m].book, o))
               lock   == QuoteValue(p, BaseLotsToNative(p, OpenQty(p, markets[m].book, o)), price)
               whole  == QuoteValue(p, BaseLotsToNative(p, o.qty), price)
               rate   == p.taker_rate
    <2>1. /\ price \in Nat /\ most \in Nat /\ rate \in 0 .. FeeToBpsDivisor
          BY InputAssumption, MaxBidDebitType, ParamsFacts
    <2>2. o.qty \in Nat /\ o.side = "Buy"
          BY LimitBuyOrderFacts DEF IsNewOrder
    <2>3. /\ IsPriced(p, o, price) /\ spend \in Nat
          /\ \A c \in o.quote : QuoteLotsToNative(p, c) <= spend
          /\ o.quote # {}
          BY LimitBuyPriced
    <2>4. LimitBuyDebit(m, o, price) = lock + traded + TakerFee(rate, traded)
          BY DEF LimitBuyDebit
    <2> HIDE DEF o
    <2>5. traded \in Nat /\ lock \in Nat /\ traded + lock <= whole
          BY <2>1, <2>2, <2>3, BidCost
    <2>6. whole \in Nat /\ whole <= spend
      <3>1. PICK c \in o.quote : TRUE
            BY <2>3
      <3>2. c \in Nat /\ whole <= QuoteLotsToNative(p, c) /\ QuoteLotsToNative(p, c) <= spend
            BY <2>3 DEF IsPriced
      <3>3. QuoteLotsToNative(p, c) \in Nat /\ whole \in Nat
        <4>1. IsMarketParams(p)
              BY ParamsFacts
        <4>2. BaseLotsToNative(p, o.qty) \in Nat
              BY <2>2, <4>1, LotsFacts
        <4>. QED  BY <2>1, <3>2, <4>1, <4>2, LotsFacts
      <3> HIDE DEF whole, spend, p
      <3>. QED  BY <2>3, <3>2, <3>3
    <2> HIDE DEF p, most, traded, lock, whole, rate
    <2>7. /\ (traded + lock) \in Nat /\ traded + lock <= WithholdTakerFee(rate, most)
          /\ traded <= traded + lock
      <3> HIDE DEF spend
      <3>1. traded + lock <= spend
            BY <2>3, <2>5, <2>6
      <3>. QED  BY <2>5, <3>1 DEF spend, rate
    <2>8. (traded + lock) + TakerFee(rate, traded + lock) <= most
          BY <2>1, <2>7, WithheldCoversFee
    <2>9. TakerFee(rate, traded) <= TakerFee(rate, traded + lock)
          BY <2>1, <2>5, <2>7, FeeGrows
    <2>10. TakerFee(rate, traded) \in Nat /\ TakerFee(rate, traded + lock) \in Nat
          BY <2>1, <2>5, <2>7, FeeBound
    <2>11. lock + traded + TakerFee(rate, traded) <= most
          BY <2>1, <2>5, <2>8, <2>9, <2>10
    <2>. QED  BY <2>4, <2>11 DEF most, p, rate, traded, lock, o
  <1>. QED  BY <1>1, TypeCorrect, PTL

=============================================================================
