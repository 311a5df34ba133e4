---------------------------- MODULE LedgerProofs ----------------------------
(***************************************************************************)
(* Custody implements Ledger.  What an account can spend is made of its    *)
(* wallet, its account and the receipts in flight for it; what it has      *)
(* locked, of its orders in the books of all markets.  Each of these parts *)
(* is given as an operator of the state it is computed from, so that a     *)
(* lemma about it can be used before and after a step.                     *)
(***************************************************************************)
EXTENDS CustodyProofs

-----------------------------------------------------------------------------
(* What an account can spend.                                              *)

(* An amount that is b's if it is a's.                                     *)
For(a, b, amount) == IF b = a THEN amount ELSE 0

(* What is in flight for account b.                                        *)
FlowTo(B, b, t) == Flow(B, [r \in Receipt |-> For(r.account, b, HeldFor(r, t))])

SpendableOf(ws, accs, B, b, t) == ws[b][t] + WorthOf(accs, b, t) + FlowTo(B, b, t)

LEMMA WeightFor ==
  ASSUME NEW b, NEW t
  PROVE  \A r \in Receipt :
           /\ [x \in Receipt |-> For(x.account, b, HeldFor(x, t))][r]
                = For(r.account, b, HeldFor(r, t))
           /\ [x \in Receipt |-> For(x.account, b, HeldFor(x, t))][r] \in Nat
           /\ For(r.account, b, HeldFor(r, t)) \in Nat
BY HeldForType DEF For

(* Receipts added, executed and replaced.                                  *)
LEMMA FlowToAdd ==
  ASSUME NEW B, IsReceiptBag(B), NEW x \in Receipt, NEW b, NEW t
  PROVE  /\ FlowTo(B, b, t) \in Nat
         /\ FlowTo(Bag!BagAdd(B, x), b, t) = FlowTo(B, b, t) + For(x.account, b, HeldFor(x, t))
PROOF
  <1> DEFINE w == [r \in Receipt |-> For(r.account, b, HeldFor(r, t))]
  <1>1. (\A r \in Receipt : w[r] \in Nat) /\ w[x] = For(x.account, b, HeldFor(x, t))
        BY WeightFor
  <1>2. \A C : FlowTo(C, b, t) = Flow(C, w)
        BY DEF FlowTo
  <1> HIDE DEF w
  <1>. QED  BY <1>1, <1>2, FlowAdd

LEMMA FlowToRemove ==
  ASSUME NEW B, IsReceiptBag(B), NEW x \in BagToSet(B), NEW b, NEW t
  PROVE  /\ FlowTo(Bag!BagRemove(B, x), b, t) \in Nat
         /\ FlowTo(B, b, t)
              = FlowTo(Bag!BagRemove(B, x), b, t) + For(x.account, b, HeldFor(x, t))
PROOF
  <1> DEFINE w == [r \in Receipt |-> For(r.account, b, HeldFor(r, t))]
  <1>1. x \in Receipt
        BY FlowRemove
  <1>2. (\A r \in Receipt : w[r] \in Nat) /\ w[x] = For(x.account, b, HeldFor(x, t))
        BY <1>1, WeightFor
  <1>3. \A C : FlowTo(C, b, t) = Flow(C, w)
        BY DEF FlowTo
  <1> HIDE DEF w
  <1>. QED  BY <1>2, <1>3, FlowRemove

LEMMA FlowToReplace ==
  ASSUME NEW B, IsReceiptBag(B), NEW x \in BagToSet(B), NEW y \in Receipt, NEW b, NEW t
  PROVE  LET new == Bag!BagAdd(Bag!BagRemove(B, x), y)
         IN  /\ FlowTo(new, b, t) \in Nat /\ FlowTo(B, b, t) \in Nat
             /\ FlowTo(new, b, t) + For(x.account, b, HeldFor(x, t))
                  = FlowTo(B, b, t) + For(y.account, b, HeldFor(y, t))
PROOF
  <1> DEFINE C == Bag!BagRemove(B, x)
             N == Bag!BagAdd(C, y)
  <1>1. x \in Receipt /\ IsReceiptBag(C)
        BY FlowRemove
  <1>2. FlowTo(C, b, t) \in Nat
        /\ FlowTo(B, b, t) = FlowTo(C, b, t) + For(x.account, b, HeldFor(x, t))
        BY FlowToRemove
  <1> HIDE DEF C
  <1>3. FlowTo(N, b, t) = FlowTo(C, b, t) + For(y.account, b, HeldFor(y, t))
        BY <1>1, FlowToAdd
  <1>4. For(x.account, b, HeldFor(x, t)) \in Nat /\ For(y.account, b, HeldFor(y, t)) \in Nat
        BY <1>1, WeightFor
  <1> HIDE DEF N
  <1>5. /\ FlowTo(N, b, t) \in Nat /\ FlowTo(B, b, t) \in Nat
        /\ FlowTo(N, b, t) + For(x.account, b, HeldFor(x, t))
             = FlowTo(B, b, t) + For(y.account, b, HeldFor(y, t))
        BY <1>2, <1>3, <1>4
  <1>. QED  BY <1>5 DEF N, C

(* The receipts that wait for b are what is in flight for it.              *)
LEMMA InFlightIs ==
  ASSUME NEW B, IsReceiptBag(B), NEW b, NEW t
  PROVE  SumFunction([r \in {r \in {r \in BagToSet(B) : r.kind = "callback" => ~ r.ok} :
                               r.token = t /\ r.account = b} |-> B[r] * r.amount])
           = FlowTo(B, b, t)
PROOF
  <1> DEFINE S == BagToSet(B)
             P == {r \in {r \in S : r.kind = "callback" => ~ r.ok} : r.token = t /\ r.account = b}
             w == [r \in Receipt |-> For(r.account, b, HeldFor(r, t))]
             f == [r \in P |-> B[r] * r.amount]
             g == [r \in S |-> B[r] * w[r]]
  <1>1. IsFiniteSet(S) /\ S \subseteq Receipt /\ P \in SUBSET S /\ \A r \in S : B[r] \in Nat
        BY DEF IsReceiptBag, IsABag, BagToSet
  <1>2. \A r \in S : r.amount \in Nat /\ w[r] = IF r \in P THEN r.amount ELSE 0
        BY <1>1 DEF HeldFor, For, Receipt
  <1>3. \A n, k \in Nat : n * k \in Nat /\ n * 0 = 0
        OBVIOUS
  <1>4. /\ \A r \in P : f[r] \in Nat /\ g[r] = f[r]
        /\ \A r \in S \ P : g[r] = 0
    <2>1. \A r \in P : r \in S /\ w[r] = r.amount /\ r.amount \in Nat
          BY <1>1, <1>2
    <2>2. \A r \in S \ P : w[r] = 0
          BY <1>2
    <2> HIDE DEF P, S, w
    <2>. QED  BY <1>1, <1>3, <2>1, <2>2
  <1>5. SumFunction(f) = SumFunctionOnSet(f, P) /\ FlowTo(B, b, t) = SumFunctionOnSet(g, S)
        BY DEF FlowTo, Flow, SumFunction
  <1> HIDE DEF f, g, S, P, w
  <1>6. SumFunctionOnSet(f, P) = SumFunctionOnSet(g, S)
        BY <1>1, <1>4, SumOfPart
  <1>. QED  BY <1>5, <1>6 DEF P, S, f

(* Spendable, before a step and after it.                                  *)
LEMMA SpendableNow ==
  ASSUME IsReceiptBag(receipts), NEW b, NEW t
  PROVE  Spendable(b, t) = SpendableOf(wallets, accounts, receipts, b, t)
PROOF
  <1>1. InFlight({r \in Pending : r.token = t /\ r.account = b}) = FlowTo(receipts, b, t)
        BY InFlightIs DEF InFlight, Pending
  <1>2. (IF b \in DOMAIN accounts
           THEN Balance(accounts[b], t) + IF t = Near THEN accounts[b].storage ELSE 0 ELSE 0)
          = WorthOf(accounts, b, t)
        BY DEF WorthOf, In
  <1>. QED  BY <1>1, <1>2 DEF Spendable, SpendableOf

LEMMA SpendableNext ==
  ASSUME IsReceiptBag(receipts'), NEW b, NEW t
  PROVE  Spendable(b, t)' = SpendableOf(wallets', accounts', receipts', b, t)
PROOF
  <1>1. InFlight({r \in Pending : r.token = t /\ r.account = b})' = FlowTo(receipts', b, t)
        BY InFlightIs DEF InFlight, Pending
  <1>2. (IF b \in DOMAIN accounts'
           THEN Balance(accounts'[b], t) + IF t = Near THEN accounts'[b].storage ELSE 0 ELSE 0)
          = WorthOf(accounts', b, t)
        BY DEF WorthOf, In
  <1>. QED  BY <1>1, <1>2 DEF Spendable, SpendableOf

-----------------------------------------------------------------------------
(* What an account has locked, and what it adds up to.                     *)

(* What b's orders in a book lock, and what its orders in all books do.    *)
OwnLocks(p, book, b, t) ==
  SumFunctionOnSet(Locks(p, book, t), OwnedBy(book, DOMAIN book, b))

LockedFor(states, b, t) ==
  SumFunctionOnSet([m \in Markets |-> OwnLocks(MarketParams[m], states[m].book, b, t)], Markets)

(* What the ledger shows as treasury.                                      *)
Treasury(t) == SumFunction([m \in Markets |-> FeesHeld(m, t)])

TreasuryOf(states, t) ==
  SumFunctionOnSet([m \in Markets |-> In(MarketParams[m].quote, t, states[m].fees_accrued)], Markets)

(* Markets with well-formed books.                                         *)
AreStates(states) ==
  \A m \in Markets : /\ \E n \in Nat : IsBook(states[m].book, n)
                     /\ states[m].fees_accrued \in Nat

LEMMA StatesNow ==
  ASSUME TypeOK
  PROVE  AreStates(markets)
PROOF
  <1>1. \A m \in Markets : /\ IsBook(markets[m].book, prev_order_sequence_number)
                           /\ prev_order_sequence_number \in Nat
                           /\ markets[m].fees_accrued \in Nat
        BY DEF TypeOK, IsMarket, IsBook
  <1>. QED  BY <1>1 DEF AreStates

LEMMA StatesNext ==
  ASSUME TypeOK'
  PROVE  AreStates(markets')
PROOF
  <1>1. \A m \in Markets : /\ IsBook(markets'[m].book, prev_order_sequence_number')
                           /\ prev_order_sequence_number' \in Nat
                           /\ markets'[m].fees_accrued \in Nat
        BY DEF TypeOK, IsMarket, IsBook
  <1>. QED  BY <1>1 DEF AreStates

(* The refunds of b's orders are what they lock.                           *)
LEMMA OwnLocksIs ==
  ASSUME NEW p, IsMarketParams(p), NEW n \in Nat, NEW book, IsBook(book, n), NEW b, NEW t
  PROVE  /\ OwnLocks(p, book, b, t) \in Nat
         /\ SumFunction([i \in {i \in DOMAIN book :
                                  book[i].owner = b /\ RefundToken(p, book[i]) = t} |->
                           GetRefundAmount(p, book[i])])
              = OwnLocks(p, book, b, t)
PROOF
  <1> DEFINE own  == OwnedBy(book, DOMAIN book, b)
             mine == {i \in DOMAIN book : book[i].owner = b /\ RefundToken(p, book[i]) = t}
             f == [i \in mine |-> GetRefundAmount(p, book[i])]
             g == Locks(p, book, t)
  <1>1. /\ \A i \in DOMAIN book :
             g[i] \in Nat /\ g[i] = In(RefundToken(p, book[i]), t, Worth(p, book[i], book[i].qty))
        /\ own \in SUBSET DOMAIN book /\ mine \in SUBSET own /\ IsFiniteSet(own)
    <2>1. \A i \in DOMAIN book : g[i] \in Nat
          BY LockedSum
    <2>2. IsFiniteSet(own)
          BY BookFinite DEF OwnedBy
    <2>. QED  BY <2>1, <2>2 DEF Locks, OwnedBy
  <1>2. \A i \in mine : f[i] \in Int /\ g[i] = f[i]
    <2> TAKE i \in mine
    <2>1. i \in DOMAIN book /\ RefundToken(p, book[i]) = t
          OBVIOUS
    <2>2. f[i] = Worth(p, book[i], book[i].qty)
          BY DEF GetRefundAmount, Worth
    <2>. QED  BY <1>1, <2>1, <2>2 DEF In
  <1>3. \A i \in own \ mine : g[i] = 0
        BY <1>1 DEF In, OwnedBy
  <1>4. SumFunction(f) = SumFunctionOnSet(f, mine) /\ OwnLocks(p, book, b, t) = SumFunctionOnSet(g, own)
        BY DEF OwnLocks, SumFunction
  <1>5. \A i \in own : g[i] \in Nat
        BY <1>1
  <1> HIDE DEF f, g, mine, own
  <1>6. SumFunctionOnSet(f, mine) = SumFunctionOnSet(g, own)
        BY <1>1, <1>2, <1>3, SumOfPart
  <1>7. SumFunctionOnSet(g, own) \in Nat
        BY <1>1, <1>5, SumNat
  <1>. QED  BY <1>4, <1>6, <1>7 DEF f, mine

LEMMA LockedForType ==
  ASSUME NEW states, AreStates(states), NEW b, NEW t
  PROVE  /\ \A m \in Markets : OwnLocks(MarketParams[m], states[m].book, b, t) \in Nat
         /\ LockedFor(states, b, t) \in Nat
PROOF
  <1>1. \A m \in Markets : OwnLocks(MarketParams[m], states[m].book, b, t) \in Nat
        BY OwnLocksIs, ParamsFacts DEF AreStates
  <1> DEFINE f == [m \in Markets |-> OwnLocks(MarketParams[m], states[m].book, b, t)]
  <1>2. \A m \in Markets : f[m] \in Nat
        BY <1>1
  <1> HIDE DEF f
  <1>3. SumFunctionOnSet(f, Markets) \in Nat
        BY <1>2, FinitenessAssumption, SumNat
  <1>. QED  BY <1>1, <1>3 DEF LockedFor, f

(* Locked and the treasury, before a step and after it.                    *)
LEMMA LockedNow ==
  ASSUME TypeOK, NEW b, NEW t
  PROVE  Locked(b, t) = LockedFor(markets, b, t) /\ Treasury(t) = TreasuryOf(markets, t)
PROOF
  <1>1. \A m \in Markets : LockedBy(b, m, t) = OwnLocks(MarketParams[m], markets[m].book, b, t)
        BY StatesNow, OwnLocksIs, ParamsFacts DEF AreStates, LockedBy
  <1>2. [m \in Markets |-> LockedBy(b, m, t)]
          = [m \in Markets |-> OwnLocks(MarketParams[m], markets[m].book, b, t)]
        BY <1>1
  <1>3. [m \in Markets |-> FeesHeld(m, t)]
          = [m \in Markets |-> In(MarketParams[m].quote, t, markets[m].fees_accrued)]
        BY DEF FeesHeld, In
  <1>. QED  BY <1>2, <1>3 DEF Locked, LockedFor, Treasury, TreasuryOf, SumFunction

LEMMA LockedNext ==
  ASSUME TypeOK', NEW b, NEW t
  PROVE  Locked(b, t)' = LockedFor(markets', b, t) /\ Treasury(t)' = TreasuryOf(markets', t)
PROOF
  <1>1. \A m \in Markets : LockedBy(b, m, t)' = OwnLocks(MarketParams[m], markets'[m].book, b, t)
        BY StatesNext, OwnLocksIs, ParamsFacts DEF AreStates, LockedBy
  <1>2. [m \in Markets |-> LockedBy(b, m, t)']
          = [m \in Markets |-> OwnLocks(MarketParams[m], markets'[m].book, b, t)]
        BY <1>1
  <1>3. [m \in Markets |-> FeesHeld(m, t)']
          = [m \in Markets |-> In(MarketParams[m].quote, t, markets'[m].fees_accrued)]
        BY DEF FeesHeld, In
  <1>. QED  BY <1>2, <1>3 DEF Locked, LockedFor, Treasury, TreasuryOf, SumFunction

(* Every order is somebody's.                                              *)
LEMMA LocksByOwner ==
  ASSUME NEW p, IsMarketParams(p), NEW n \in Nat, NEW book, IsBook(book, n), NEW t
  PROVE  SumFunctionOnSet([b \in Accounts |-> OwnLocks(p, book, b, t)], Accounts)
           = LockedOf(p, book, t)
PROOF
  <1> DEFINE f == Locks(p, book, t)
             S == DOMAIN book
             w == [i \in DOMAIN book |-> book[i].owner]
             C == [b \in Accounts |-> OwnedBy(book, DOMAIN book, b)]
             g == [b \in Accounts |-> OwnLocks(p, book, b, t)]
  <1>1. IsFiniteSet(S) /\ \A i \in S : w[i] \in Accounts
        BY BookFinite DEF RestingOrder
  <1>2. (\A i \in S : f[i] \in Nat) /\ LockedOf(p, book, t) = SumFunctionOnSet(f, S)
        BY LockedSum
  <1>3. \A b \in Accounts : C[b] \in SUBSET S /\ \A i \in S : i \in C[b] <=> w[i] = b
        BY DEF OwnedBy
  <1>4. \A b \in Accounts : g[b] = SumFunctionOnSet(f, C[b])
        BY DEF OwnLocks
  <1> HIDE DEF f, S, w, C, g
  <1>5. \A i \in S : f[i] \in Int
        BY <1>2
  <1>6. SumFunctionOnSet(g, Accounts) = SumFunctionOnSet(f, S)
        BY <1>1, <1>3, <1>4, <1>5, FinitenessAssumption, SumByClass
  <1>. QED  BY <1>2, <1>6 DEF g

(* What markets owe is what the accounts have locked, and the treasury.    *)
LEMMA LockedByAll ==
  ASSUME NEW states, AreStates(states), NEW t
  PROVE  /\ TreasuryOf(states, t) \in Nat
         /\ DueIn(states, t)
              = SumFunctionOnSet([b \in Accounts |-> LockedFor(states, b, t)], Accounts)
                  + TreasuryOf(states, t)
PROOF
  <1> DEFINE g == [b \in Accounts |->
                     [m \in Markets |-> OwnLocks(MarketParams[m], states[m].book, b, t)]]
             r == [b \in Accounts |-> LockedFor(states, b, t)]
             k == [m \in Markets |->
                     [b \in Accounts |-> OwnLocks(MarketParams[m], states[m].book, b, t)]]
             c == [m \in Markets |-> LockedOf(MarketParams[m], states[m].book, t)]
             h == [m \in Markets |-> In(MarketParams[m].quote, t, states[m].fees_accrued)]
             d == [m \in Markets |-> DueOf(m, states[m], t)]
  <1>1. \A b \in Accounts, m \in Markets : g[b][m] \in Int
    <2>1. \A b \in Accounts : \A m \in Markets :
            OwnLocks(MarketParams[m], states[m].book, b, t) \in Nat
          BY LockedForType
    <2>. QED  BY <2>1
  <1>2. \A b \in Accounts : r[b] = SumFunctionOnSet(g[b], Markets)
        BY DEF LockedFor
  <1>3. /\ \A b \in Accounts, m \in Markets : k[m][b] = g[b][m]
        /\ \A m \in Markets : c[m] = SumFunctionOnSet(k[m], Accounts)
        BY LocksByOwner, ParamsFacts DEF AreStates
  <1>4. \A m \in Markets : /\ c[m] \in Nat /\ h[m] \in Nat /\ d[m] = c[m] + h[m]
    <2>1. \A m \in Markets : LockedOf(MarketParams[m], states[m].book, t) \in Nat
          BY LockedSum, ParamsFacts DEF AreStates
    <2>. QED  BY <2>1 DEF AreStates, In, DueOf
  <1>5. DueIn(states, t) = SumFunctionOnSet(d, Markets) /\ TreasuryOf(states, t) = SumFunctionOnSet(h, Markets)
        BY DEF DueIn, TreasuryOf
  <1> HIDE DEF g, r, k, c, h, d
  <1>6. SumFunctionOnSet(r, Accounts) = SumFunctionOnSet(c, Markets)
    <2>1. SumFunctionOnSet([b \in Accounts |-> SumFunctionOnSet(g[b], Markets)], Accounts)
            = SumFunctionOnSet([m \in Markets |-> SumFunctionOnSet(k[m], Accounts)], Markets)
          BY <1>1, <1>3, FinitenessAssumption, SumSwap
    <2>2. /\ r = [b \in Accounts |-> SumFunctionOnSet(g[b], Markets)]
          /\ c = [m \in Markets |-> SumFunctionOnSet(k[m], Accounts)]
          BY <1>2, <1>3 DEF r, c
    <2>. QED  BY <2>1, <2>2
  <1>7. SumFunctionOnSet(d, Markets) = SumFunctionOnSet(c, Markets) + SumFunctionOnSet(h, Markets)
        BY <1>4, FinitenessAssumption, SumPlus
  <1>8. SumFunctionOnSet(h, Markets) \in Nat
        BY <1>4, FinitenessAssumption, SumNat
  <1>. QED  BY <1>5, <1>6, <1>7, <1>8 DEF r

LEMMA FlowToType ==
  ASSUME NEW B, IsReceiptBag(B), NEW b, NEW t
  PROVE  FlowTo(B, b, t) \in Nat
PROOF
  <1> DEFINE w == [r \in Receipt |-> For(r.account, b, HeldFor(r, t))]
             S == BagToSet(B)
             f == [r \in S |-> B[r] * w[r]]
  <1>1. IsFiniteSet(S) /\ S \subseteq Receipt /\ \A r \in S : B[r] \in Nat
        BY DEF IsReceiptBag, IsABag, BagToSet
  <1>2. \A r \in Receipt : w[r] \in Nat
        BY WeightFor
  <1>3. FlowTo(B, b, t) = SumFunctionOnSet(f, S)
        BY DEF FlowTo, Flow, SumFunction
  <1>4. \A n, k \in Nat : n * k \in Nat
        OBVIOUS
  <1> HIDE DEF w, S
  <1>5. \A r \in S : f[r] \in Nat
        BY <1>1, <1>2, <1>4
  <1> HIDE DEF f
  <1>. QED  BY <1>1, <1>3, <1>5, SumNat

(* All that a ledger shows of a token.                                     *)
WholeOf(ws, accs, states, B, t) ==
  SumFunctionOnSet([b \in Accounts |-> SpendableOf(ws, accs, B, b, t) + LockedFor(states, b, t)],
                   Accounts)
    + TreasuryOf(states, t)

LEMMA SpendableType ==
  ASSUME NEW ws \in [Accounts -> [Tokens -> Nat]], NEW accs, AreAccounts(accs),
         NEW B, IsReceiptBag(B), NEW b \in Accounts, NEW t \in Tokens
  PROVE  /\ ws[b][t] \in Nat /\ WorthOf(accs, b, t) \in Nat /\ FlowTo(B, b, t) \in Nat
         /\ SpendableOf(ws, accs, B, b, t) \in Nat
PROOF
  <1>1. ws[b][t] \in Nat /\ WorthOf(accs, b, t) \in Nat /\ FlowTo(B, b, t) \in Nat
        BY WorthType, FlowToType
  <1>. QED  BY <1>1 DEF SpendableOf

(* It is what the exchange owes to accounts and markets, and what accounts *)
(* have outside of it.                                                     *)
LEMMA WholeIs ==
  ASSUME NEW ws \in [Accounts -> [Tokens -> Nat]], NEW B, IsReceiptBag(B), NEW t \in Tokens
  PROVE  \E outside \in Nat : \A accs, states :
           AreAccounts(accs) /\ AreStates(states)
             => WholeOf(ws, accs, states, B, t) = outside + TotalOf(accs, t) + DueIn(states, t)
PROOF
  <1> DEFINE x == [b \in Accounts |-> ws[b][t] + FlowTo(B, b, t)]
  <1>1. \A b \in Accounts : x[b] \in Nat /\ x[b] = ws[b][t] + FlowTo(B, b, t)
        BY FlowToType
  <1> HIDE DEF x
  <1>2. SumFunctionOnSet(x, Accounts) \in Nat
        BY <1>1, FinitenessAssumption, SumNat
  <1>3. ASSUME NEW accs, NEW states, AreAccounts(accs), AreStates(states)
        PROVE  WholeOf(ws, accs, states, B, t)
                 = SumFunctionOnSet(x, Accounts) + TotalOf(accs, t) + DueIn(states, t)
    <2> DEFINE y == [b \in Accounts |-> WorthOf(accs, b, t)]
               z == [b \in Accounts |-> LockedFor(states, b, t)]
               v == [b \in Accounts |-> x[b] + y[b]]
               u == [b \in Accounts |-> SpendableOf(ws, accs, B, b, t) + LockedFor(states, b, t)]
    <2>1. \A b \in Accounts :
            /\ x[b] \in Nat /\ y[b] \in Nat /\ z[b] \in Nat /\ v[b] \in Nat
            /\ v[b] = x[b] + y[b] /\ u[b] = v[b] + z[b]
      <3> TAKE b \in Accounts
      <3>1. /\ ws[b][t] \in Nat /\ WorthOf(accs, b, t) \in Nat /\ FlowTo(B, b, t) \in Nat
            /\ LockedFor(states, b, t) \in Nat
            BY <1>3, SpendableType, LockedForType
      <3>2. SpendableOf(ws, accs, B, b, t) = ws[b][t] + WorthOf(accs, b, t) + FlowTo(B, b, t)
            BY DEF SpendableOf
      <3>. QED  BY <1>1, <3>1, <3>2
    <2>2. /\ TotalOf(accs, t) = SumFunctionOnSet(y, Accounts)
          /\ WholeOf(ws, accs, states, B, t) = SumFunctionOnSet(u, Accounts) + TreasuryOf(states, t)
          BY DEF TotalOf, WholeOf
    <2>3. /\ DueIn(states, t) = SumFunctionOnSet(z, Accounts) + TreasuryOf(states, t)
          /\ TreasuryOf(states, t) \in Nat
          BY <1>3, LockedByAll
    <2> HIDE DEF y, z, v, u
    <2>4. SumFunctionOnSet(v, Accounts) = SumFunctionOnSet(x, Accounts) + SumFunctionOnSet(y, Accounts)
          BY <2>1, FinitenessAssumption, SumPlus
    <2>5. SumFunctionOnSet(u, Accounts) = SumFunctionOnSet(v, Accounts) + SumFunctionOnSet(z, Accounts)
          BY <2>1, FinitenessAssumption, SumPlus
    <2>6. SumFunctionOnSet(y, Accounts) \in Nat /\ SumFunctionOnSet(z, Accounts) \in Nat
          BY <2>1, FinitenessAssumption, SumNat
    <2>. QED  BY <1>2, <2>2, <2>3, <2>4, <2>5, <2>6
  <1>. QED  BY <1>2, <1>3

-----------------------------------------------------------------------------
(* Steps of the ledger, told by what the exchange shows.                   *)

LockedKept   == \A b \in Accounts, t \in Tokens : Locked(b, t)' = Locked(b, t)
TreasuryKept == \A t \in Tokens : Treasury(t)' = Treasury(t)
MembersKept  == DOMAIN accounts' = DOMAIN accounts

SpendableKept == \A b \in Accounts, t \in Tokens : Spendable(b, t)' = Spendable(b, t)

LEMMA ShownKept ==
  /\ SpendableKept => [b \in Accounts |-> [t \in Tokens |-> Spendable(b, t)]]'
                        = [b \in Accounts |-> [t \in Tokens |-> Spendable(b, t)]]
  /\ LockedKept => [b \in Accounts |-> [t \in Tokens |-> Locked(b, t)]]'
                     = [b \in Accounts |-> [t \in Tokens |-> Locked(b, t)]]
  /\ TreasuryKept => [t \in Tokens |-> SumFunction([m \in Markets |-> FeesHeld(m, t)])]'
                       = [t \in Tokens |-> SumFunction([m \in Markets |-> FeesHeld(m, t)])]
BY DEF SpendableKept, LockedKept, TreasuryKept, Treasury

(* A step that changes nothing a ledger shows.                             *)
LEMMA LedgerStutter ==
  ASSUME MembersKept, SpendableKept, LockedKept, TreasuryKept
  PROVE  UNCHANGED Promises!ledgerVars
BY ShownKept DEF Promises!ledgerVars, MembersKept

(* Cancelled orders.                                                       *)
LEMMA LedgerRelease ==
  ASSUME MembersKept, TreasuryKept,
         \A b \in Accounts, t \in Tokens :
           /\ Locked(b, t)' <= Locked(b, t)
           /\ Spendable(b, t)' + Locked(b, t)' = Spendable(b, t) + Locked(b, t)
  PROVE  Promises!Release
BY ShownKept DEF Promises!Release, MembersKept

(* An account that leaves.                                                 *)
LEMMA LedgerLeave ==
  ASSUME SpendableKept, LockedKept, TreasuryKept, NEW a \in Accounts,
         DOMAIN accounts' = DOMAIN accounts \ {a}, \A t \in Tokens : Locked(a, t) = 0
  PROVE  Promises!Leave(a)
BY ShownKept DEF Promises!Leave, Promises!Nothing

(* What a gives to b.                                                      *)
Gives(a, b, token, amount) ==
  \A c \in Accounts, t \in Tokens :
    Spendable(c, t)' + For(a, c, In(token, t, amount)) = Spendable(c, t) + For(b, c, In(token, t, amount))

LEMMA LedgerGive ==
  ASSUME LockedKept, TreasuryKept, NEW a \in Accounts, NEW b \in Accounts, NEW token \in Tokens,
         NEW amount \in Nat, Gives(a, b, token, amount),
         \A c \in Accounts, t \in Tokens : Spendable(c, t) \in Nat /\ Spendable(c, t)' \in Nat
  PROVE  Promises!Give(a, b, token)
PROOF
  <1> DEFINE x(c, t) == Spendable(c, t)
             y(c, t) == Spendable(c, t)'
             given == x(a, token) - y(a, token)
             free  == [c \in Accounts |-> [t \in Tokens |-> x(c, t)]]
  <1>1. \A c \in Accounts, t \in Tokens :
          /\ x(c, t) \in Nat /\ y(c, t) \in Nat
          /\ y(c, t) + For(a, c, In(token, t, amount)) = x(c, t) + For(b, c, In(token, t, amount))
        BY DEF Gives
  <1> HIDE DEF x, y
  <1>2. given = (IF a = b THEN 0 ELSE amount) /\ x(a, token) >= y(a, token)
        BY <1>1 DEF For, In
  <1>3. free \in [Accounts -> [Tokens -> Int]] /\ \A c \in Accounts, t \in Tokens : free[c][t] = x(c, t)
        BY <1>1
  <1>4. [c \in Accounts |-> [t \in Tokens |-> y(c, t)]]
          = [free EXCEPT ![a][token] = @ - given, ![b][token] = @ + given]
    <2> DEFINE new == [free EXCEPT ![a][token] = @ - given, ![b][token] = @ + given]
    <2> HIDE DEF given, free
    <2>1. new = [c \in Accounts |-> [t \in Tokens |-> new[c][t]]]
          BY <1>3
    <2>2. ASSUME NEW c \in Accounts, NEW t \in Tokens
          PROVE  new[c][t] = IF t # token THEN free[c][t]
                             ELSE IF c = b THEN free[b][token] + given
                             ELSE IF c = a THEN free[a][token] - given
                             ELSE free[c][token]
      <3>1. CASE t # token
            BY <1>3, <3>1
      <3>2. CASE t = token /\ c = b
            BY <1>3, <3>2
      <3>3. CASE t = token /\ c # b /\ c = a
            BY <1>3, <3>3
      <3>4. CASE t = token /\ c # b /\ c # a
            BY <1>3, <3>4
      <3>. QED  BY <3>1, <3>2, <3>3, <3>4
    <2> HIDE DEF new
    <2>3. ASSUME NEW c \in Accounts, NEW t \in Tokens
          PROVE  new[c][t] = y(c, t)
      <3>1. /\ x(c, t) \in Nat /\ y(c, t) \in Nat
            /\ y(c, t) + For(a, c, In(token, t, amount)) = x(c, t) + For(b, c, In(token, t, amount))
            BY <1>1
      <3>2. new[c][t] = IF t # token THEN x(c, t)
                        ELSE IF c = b THEN x(b, token) + given
                        ELSE IF c = a THEN x(a, token) - given
                        ELSE x(c, token)
            BY <1>3, <2>2
      <3>3. CASE a = b
            BY <1>2, <3>1, <3>2, <3>3 DEF For, In
      <3>4. CASE a # b
            BY <1>2, <3>1, <3>2, <3>4 DEF For, In
      <3>. QED  BY <3>3, <3>4
    <2>4. [c \in Accounts |-> [t \in Tokens |-> new[c][t]]] = [c \in Accounts |-> [t \in Tokens |-> y(c, t)]]
          BY <2>3
    <2>. QED  BY <2>1, <2>4 DEF new
  <1>. QED  BY <1>2, <1>4, ShownKept DEF Promises!Give, x, y

(* The ledger sums as the exchange does.                                   *)
LEMMA LedgerSum ==
  ASSUME NEW f
  PROVE  Promises!SumFunction(f) = SumFunction(f)
BY DEF SumFunction, SumFunctionOnSet, FoldFunctionOnSet, MapThenFoldSet, Promises!SumFunction,
       Promises!SumFunctionOnSet, Promises!FoldFunctionOnSet, Promises!MapThenFoldSet

(* An order of member a.                                                   *)
LEMMA LedgerTrade ==
  ASSUME MembersKept, NEW a \in DOMAIN accounts, DOMAIN accounts \subseteq Accounts,
         \A b \in Accounts \ {a} :
           /\ \A t \in Tokens : Spendable(b, t)' >= Spendable(b, t) /\ Locked(b, t)' <= Locked(b, t)
           /\ \/ \A t \in Tokens : Spendable(b, t)' = Spendable(b, t)
              \/ \E t \in Tokens : Locked(b, t)' # Locked(b, t)
              \/ b \in Referrers,
         \A t \in Tokens : /\ Treasury(t)' >= Treasury(t)
                           /\ SumFunction([b \in Accounts |-> Spendable(b, t) + Locked(b, t)])'
                                + Treasury(t)'
                                = SumFunction([b \in Accounts |-> Spendable(b, t) + Locked(b, t)])
                                    + Treasury(t)
  PROVE  Promises!Trade(a)
PROOF
  <1> DEFINE free   == [b \in Accounts |-> [t \in Tokens |-> Spendable(b, t)]]
             locked == [b \in Accounts |-> [t \in Tokens |-> Locked(b, t)]]
             fees   == [t \in Tokens |-> SumFunction([m \in Markets |-> FeesHeld(m, t)])]
  <1>1. /\ \A b \in Accounts, t \in Tokens : free[b][t] = Spendable(b, t) /\ locked[b][t] = Locked(b, t)
        /\ \A b \in Accounts, t \in Tokens : free'[b][t] = Spendable(b, t)' /\ locked'[b][t] = Locked(b, t)'
        OBVIOUS
  <1>2. \A t \in Tokens : fees[t] = Treasury(t) /\ fees'[t] = Treasury(t)'
        BY DEF Treasury
  <1>3. \A b \in Accounts \ {a} : \A t \in Tokens :
          /\ free'[b][t] >= free[b][t] /\ locked'[b][t] <= locked[b][t]
          /\ free'[b] # free[b] => locked'[b] # locked[b] \/ b \in Referrers
    <2> TAKE b \in Accounts \ {a}
    <2>1. (\A t \in Tokens : Spendable(b, t)' = Spendable(b, t)) => free'[b] = free[b]
          OBVIOUS
    <2>2. (\E t \in Tokens : Locked(b, t)' # Locked(b, t)) => locked'[b] # locked[b]
          BY <1>1
    <2> HIDE DEF free, locked
    <2>. QED  BY <1>1, <2>1, <2>2
  <1>4. ASSUME NEW t \in Tokens
        PROVE  fees'[t] >= fees[t] /\ Promises!Total(t)' = Promises!Total(t)
    <2>1. [b \in Accounts |-> free[b][t] + locked[b][t]]
            = [b \in Accounts |-> Spendable(b, t) + Locked(b, t)]
          OBVIOUS
    <2>2. [b \in Accounts |-> free[b][t] + locked[b][t]]'
            = [b \in Accounts |-> Spendable(b, t) + Locked(b, t)]'
          OBVIOUS
    <2>3. Promises!Total(t)
            = SumFunction([b \in Accounts |-> Spendable(b, t) + Locked(b, t)]) + Treasury(t)
      <3>1. Promises!Total(t) = SumFunction([b \in Accounts |-> free[b][t] + locked[b][t]]) + fees[t]
            BY LedgerSum DEF Promises!Total
      <3> HIDE DEF free, locked, fees
      <3>. QED  BY <1>2, <2>1, <3>1
    <2>4. Promises!Total(t)'
            = SumFunction([b \in Accounts |-> Spendable(b, t) + Locked(b, t)])' + Treasury(t)'
      <3>1. Promises!Total(t)'
              = SumFunction([b \in Accounts |-> free[b][t] + locked[b][t]])' + fees'[t]
            BY LedgerSum DEF Promises!Total
      <3>2. SumFunction([b \in Accounts |-> free[b][t] + locked[b][t]])'
              = SumFunction([b \in Accounts |-> Spendable(b, t) + Locked(b, t)])'
            BY <2>2
      <3> HIDE DEF free, locked, fees
      <3>. QED  BY <1>2, <3>1, <3>2
    <2>. QED  BY <1>2, <2>3, <2>4
  <1>. QED  BY <1>3, <1>4 DEF Promises!Trade, MembersKept

-----------------------------------------------------------------------------
(* Tokens on the move.                                                     *)

(* An amount that may be b's is a natural.                                 *)
LEMMA ForType ==
  ASSUME NEW a, NEW b, NEW token, NEW t, NEW amount \in Nat
  PROVE  In(token, t, amount) \in Nat /\ For(a, b, In(token, t, amount)) \in Nat
BY DEF For, In

(* What a ledger shows of an account, part by part.                        *)
LEMMA ShownFacts ==
  ASSUME CustodyInv, CustodyInv', NEW b \in Accounts, NEW t \in Tokens
  PROVE  /\ wallets[b][t] \in Nat /\ WorthOf(accounts, b, t) \in Nat /\ FlowTo(receipts, b, t) \in Nat
         /\ wallets'[b][t] \in Nat /\ WorthOf(accounts', b, t) \in Nat /\ FlowTo(receipts', b, t) \in Nat
         /\ Spendable(b, t)
              = wallets[b][t] + WorthOf(accounts, b, t) + FlowTo(receipts, b, t)
         /\ Spendable(b, t)'
              = wallets'[b][t] + WorthOf(accounts', b, t) + FlowTo(receipts', b, t)
         /\ Spendable(b, t) \in Nat /\ Spendable(b, t)' \in Nat
PROOF
  <1>1. /\ wallets \in [Accounts -> [Tokens -> Nat]] /\ AreAccounts(accounts) /\ IsReceiptBag(receipts)
        BY DEF CustodyInv, CustodyTypeOK, TypeOK, AreAccounts
  <1>2. /\ wallets' \in [Accounts -> [Tokens -> Nat]] /\ AreAccounts(accounts') /\ IsReceiptBag(receipts')
    <2>1. CustodyTypeOK' /\ IsReceiptBag(receipts')
          BY DEF CustodyInv, IsReceiptBag
    <2>. QED  BY <2>1 DEF CustodyTypeOK, TypeOK, AreAccounts
  <1>3. /\ wallets[b][t] \in Nat /\ WorthOf(accounts, b, t) \in Nat /\ FlowTo(receipts, b, t) \in Nat
        BY <1>1, SpendableType
  <1>4. /\ wallets'[b][t] \in Nat /\ WorthOf(accounts', b, t) \in Nat /\ FlowTo(receipts', b, t) \in Nat
        BY <1>2, SpendableType
  <1>5. Spendable(b, t) = wallets[b][t] + WorthOf(accounts, b, t) + FlowTo(receipts, b, t)
        BY <1>1, SpendableNow DEF SpendableOf
  <1>6. Spendable(b, t)' = wallets'[b][t] + WorthOf(accounts', b, t) + FlowTo(receipts', b, t)
        BY <1>2, SpendableNext DEF SpendableOf
  <1>. QED  BY <1>3, <1>4, <1>5, <1>6

(* While books stay as they are, so does what is locked.                   *)
LEMMA BooksStay ==
  ASSUME CustodyInv, CustodyInv', markets' = markets
  PROVE  LockedKept /\ TreasuryKept
PROOF
  <1>1. TypeOK /\ TypeOK'
        BY DEF CustodyInv, CustodyTypeOK
  <1>. QED  BY <1>1, LockedNow, LockedNext DEF LockedKept, TreasuryKept

(* Tokens that leave a wallet, and tokens that arrive in one.              *)
LEMMA WalletMoves ==
  ASSUME CustodyInv, NEW a \in Accounts, NEW token \in Tokens, NEW amount \in Nat,
         NEW b \in Accounts, NEW t \in Tokens
  PROVE  /\ TakeIn(a, token, amount) =>
              wallets[b][t] = wallets'[b][t] + For(a, b, In(token, t, amount))
         /\ PayOut(a, token, amount) =>
              wallets'[b][t] = wallets[b][t] + For(a, b, In(token, t, amount))
PROOF
  <1>1. wallets \in [Accounts -> [Tokens -> Nat]]
        BY DEF CustodyInv, CustodyTypeOK
  <1>2. wallets[b][t] \in Nat /\ wallets[a][token] \in Nat
        BY <1>1
  <1>3. \A x \in Int : [wallets EXCEPT ![a][token] = x][b][t]
                         = IF b = a /\ t = token THEN x ELSE wallets[b][t]
        BY <1>1
  <1>4. ASSUME TakeIn(a, token, amount)
        PROVE  wallets[b][t] = wallets'[b][t] + For(a, b, In(token, t, amount))
    <2>1. wallets' = [wallets EXCEPT ![a][token] = wallets[a][token] - amount]
          BY <1>4 DEF TakeIn
    <2>2. wallets[a][token] - amount \in Int
          BY <1>2
    <2>3. wallets'[b][t] = IF b = a /\ t = token THEN wallets[a][token] - amount ELSE wallets[b][t]
          BY <1>3, <2>1, <2>2
    <2>. QED  BY <1>2, <2>3 DEF For, In
  <1>5. ASSUME PayOut(a, token, amount)
        PROVE  wallets'[b][t] = wallets[b][t] + For(a, b, In(token, t, amount))
    <2>1. wallets' = [wallets EXCEPT ![a][token] = wallets[a][token] + amount]
          BY <1>5 DEF PayOut
    <2>2. wallets[a][token] + amount \in Int
          BY <1>2
    <2>3. wallets'[b][t] = IF b = a /\ t = token THEN wallets[a][token] + amount ELSE wallets[b][t]
          BY <1>3, <2>1, <2>2
    <2>. QED  BY <1>2, <2>3 DEF For, In
  <1>. QED  BY <1>4, <1>5

(* Nobody's worth changes but that of the one account ...                  *)
LEMMA OthersWorth ==
  ASSUME NEW a, OnlyAccount(a), NEW b, b # a, NEW t
  PROVE  WorthOf(accounts', b, t) = WorthOf(accounts, b, t)
BY DEF OnlyAccount, WorthOf

(* ... which gains what it is credited ...                                 *)
LEMMA CreditedWorth ==
  ASSUME CustodyInv, NEW a, NEW token \in Tokens, NEW amount \in Nat, CanCredit(a, token, amount),
         accounts' = [accounts EXCEPT ![a] = Credited(a, token, amount)],
         UNCHANGED <<contract_state, markets, prev_order_sequence_number>>
  PROVE  \A b, t : WorthOf(accounts', b, t) = WorthOf(accounts, b, t) + For(a, b, In(token, t, amount))
PROOF
  <1>1. /\ OnlyAccount(a)
        /\ \A t : WorthOf(accounts', a, t) = WorthOf(accounts, a, t) + In(token, t, amount)
        BY AccountCredited
  <1>2. \A b, t : WorthOf(accounts, b, t) \in Nat
    <2>1. AreAccounts(accounts)
          BY DEF CustodyInv, CustodyTypeOK, TypeOK, AreAccounts
    <2>. QED  BY <2>1, WorthType
  <1>3. ASSUME NEW b, NEW t
        PROVE  WorthOf(accounts', b, t) = WorthOf(accounts, b, t) + For(a, b, In(token, t, amount))
    <2>1. CASE b = a
          BY <1>1, <2>1 DEF For
    <2>2. CASE b # a
      <3>1. WorthOf(accounts', b, t) = WorthOf(accounts, b, t)
            BY <1>1, <2>2 DEF OnlyAccount, WorthOf
      <3>2. WorthOf(accounts, b, t) \in Nat
            BY <1>2
      <3>. QED  BY <2>2, <3>1, <3>2 DEF For
    <2>. QED  BY <2>1, <2>2
  <1>. QED  BY <1>3

(* ... or what has to be accounted for.                                    *)
LEMMA AccountedWorth ==
  ASSUME CustodyInv, NEW a, OnlyAccount(a), AllAccounted(a), NEW token, NEW gain \in Int,
         NEW b, NEW t \in Tokens,
         FlowOf(receipts, t) + held'[t] = FlowOf(receipts', t) + held[t] + In(token, t, gain)
  PROVE  WorthOf(accounts', b, t) = WorthOf(accounts, b, t) + For(a, b, In(token, t, gain))
PROOF
  <1>1. WellMoved
        BY DEF AllAccounted
  <1>2. AreAccounts(accounts)
        BY DEF CustodyInv, CustodyTypeOK, TypeOK, AreAccounts
  <1>3. WorthOf(accounts, b, t) \in Nat
        BY <1>2, WorthType
  <1>4. CASE b = a
    <2>1. WorthOf(accounts', a, t) + FlowOf(receipts', t) + held[t]
            = WorthOf(accounts, a, t) + FlowOf(receipts, t) + held'[t]
          BY DEF AllAccounted
    <2>2. In(token, t, gain) \in Int
          BY DEF In
    <2>. QED  BY <1>1, <1>4, <2>1, <2>2, DebtChange DEF For
  <1>5. CASE b # a
        BY <1>3, <1>5, OthersWorth DEF For
  <1>. QED  BY <1>4, <1>5

(* NEAR that is paid out is in flight for whom it is paid to.              *)
LEMMA PayFlowTo ==
  ASSUME CustodyInv, NEW a \in Accounts, NEW amount \in Nat, NEW b, NEW t
  PROVE  FlowTo(Pay(a, amount), b, t) = FlowTo(receipts, b, t) + For(a, b, In(Near, t, amount))
PROOF
  <1>1. IsReceiptBag(receipts) /\ Near \in Tokens
        BY CustodyAssumption DEF CustodyInv
  <1>2. FlowTo(receipts, b, t) \in Nat
        BY <1>1, FlowToType
  <1>3. CASE amount = 0
    <2>1. Pay(a, amount) = receipts
          BY <1>3 DEF Pay
    <2>. QED  BY <1>2, <1>3, <2>1 DEF For, In
  <1>4. CASE amount # 0
    <2> DEFINE r == MakeReceipt("pay", a, Near, amount, TRUE)
    <2>1. r \in Receipt
      <3>1. "pay" \in {"transfer", "callback", "notify", "return", "pay"} /\ amount \in Nat \ {0}
            BY <1>4
      <3>. QED  BY <1>1, <3>1, MadeReceipt
    <2>2. r.account = a /\ HeldFor(r, t) = In(Near, t, amount)
          BY DEF MakeReceipt, HeldFor, In
    <2>3. Pay(a, amount) = Bag!BagAdd(receipts, r)
          BY <1>4 DEF Pay
    <2> HIDE DEF r
    <2>. QED  BY <1>1, <2>1, <2>2, <2>3, FlowToAdd
  <1>. QED  BY <1>3, <1>4

(* A step that moves tokens shows nothing of what it moves.                *)
LEMMA Unseen ==
  ASSUME CustodyInv, CustodyInv', markets' = markets, MembersKept, SpendableKept
  PROVE  UNCHANGED Promises!ledgerVars
BY BooksStay, LedgerStutter

(* deposit_near                                                            *)
LEMMA DepositUnseen ==
  ASSUME CustodyInv, CustodyInv', NEW a \in Accounts, NEW amount \in Nat, DepositNear(a, amount)
  PROVE  UNCHANGED Promises!ledgerVars
PROOF
  <1>1. /\ CanCredit(a, Near, amount) /\ TakeIn(a, Near, amount)
        /\ accounts' = [accounts EXCEPT ![a] = Credited(a, Near, amount)]
        /\ UNCHANGED <<contract_state, markets, prev_order_sequence_number, owner_id, receipts>>
        BY DEF DepositNear
  <1>2. /\ Near \in Tokens
        /\ \A b, t : WorthOf(accounts', b, t) = WorthOf(accounts, b, t) + For(a, b, In(Near, t, amount))
    <2>1. Near \in Tokens
          BY CustodyAssumption
    <2>. QED  BY <1>1, <2>1, CreditedWorth, Zenon
  <1>3. ASSUME NEW b \in Accounts, NEW t \in Tokens
        PROVE  Spendable(b, t)' = Spendable(b, t)
    <2>1. WorthOf(accounts', b, t) = WorthOf(accounts, b, t) + For(a, b, In(Near, t, amount))
          BY <1>2
    <2>2. wallets[b][t] = wallets'[b][t] + For(a, b, In(Near, t, amount))
          BY <1>1, <1>2, WalletMoves
    <2>3. For(a, b, In(Near, t, amount)) \in Nat /\ FlowTo(receipts', b, t) = FlowTo(receipts, b, t)
          BY <1>1, ForType
    <2>. QED  BY <2>1, <2>2, <2>3, ShownFacts
  <1>4. DOMAIN accounts' = DOMAIN accounts
        BY <1>1
  <1>. QED  BY <1>1, <1>3, <1>4, Unseen DEF SpendableKept, MembersKept

(* ft_transfer_call                                                        *)
LEMMA SendingUnseen ==
  ASSUME CustodyInv, CustodyInv', NEW a \in Accounts, NEW token \in Tokens, NEW amount \in Nat \ {0},
         NEW msg \in Messages, FtTransferCall(a, token, amount, msg)
  PROVE  UNCHANGED Promises!ledgerVars
PROOF
  <1> DEFINE r == [MakeReceipt("notify", a, token, amount, TRUE) EXCEPT !.msg = msg]
  <1>1. /\ TakeIn(a, token, amount) /\ receipts' = Bag!BagAdd(receipts, r)
        /\ accounts' = accounts /\ markets' = markets /\ IsReceiptBag(receipts)
        BY DEF FtTransferCall, vars, CustodyInv
  <1>2. r \in Receipt /\ r.account = a /\ \A t : HeldFor(r, t) = In(token, t, amount)
    <2>1. /\ r \in Receipt /\ r.kind = "notify" /\ r.token = token /\ r.amount = amount
          /\ r.account = a
          BY DEF MakeReceipt, Receipt
    <2> HIDE DEF r
    <2>. QED  BY <2>1 DEF HeldFor, In
  <1> HIDE DEF r
  <1>3. ASSUME NEW b \in Accounts, NEW t \in Tokens
        PROVE  Spendable(b, t)' = Spendable(b, t)
    <2>1. FlowTo(receipts', b, t) = FlowTo(receipts, b, t) + For(a, b, In(token, t, amount))
          BY <1>1, <1>2, FlowToAdd
    <2>2. wallets[b][t] = wallets'[b][t] + For(a, b, In(token, t, amount))
          BY <1>1, WalletMoves
    <2>3. /\ For(a, b, In(token, t, amount)) \in Nat
          /\ WorthOf(accounts', b, t) = WorthOf(accounts, b, t)
          BY <1>1, ForType
    <2>. QED  BY <2>1, <2>2, <2>3, ShownFacts
  <1>. QED  BY <1>1, <1>3, Unseen DEF SpendableKept, MembersKept

(* withdraw_near and withdraw_ft                                           *)
LEMMA WithdrawalUnseen ==
  ASSUME CustodyInv, CustodyInv', NEW a \in Accounts, NEW token \in Tokens, NEW amount \in Nat \ {0},
         InternalWithdraw(a, token, amount)
  PROVE  UNCHANGED Promises!ledgerVars
PROOF
  <1> DEFINE r == MakeReceipt("transfer", a, token, amount, TRUE)
  <1>1. /\ DOMAIN accounts' = DOMAIN accounts
        /\ receipts' = Bag!BagAdd(receipts, r)
        /\ markets' = markets /\ wallets' = wallets /\ held' = held
        /\ IsReceiptBag(receipts) /\ \A t \in Tokens : held[t] \in Nat
        BY DEF InternalWithdraw, CustodyInv, CustodyTypeOK
  <1>2. r \in Receipt /\ r.account = a /\ \A t : HeldFor(r, t) = In(token, t, amount)
    <2>1. "transfer" \in {"transfer", "callback", "notify", "return", "pay"}
          OBVIOUS
    <2>2. r \in Receipt
          BY <2>1, MadeReceipt
    <2>3. r.account = a /\ \A t : HeldFor(r, t) = In(token, t, amount)
          BY DEF MakeReceipt, HeldFor, In
    <2>. QED  BY <2>2, <2>3
  <1> HIDE DEF r
  <1>3. OnlyAccount(a) /\ AllAccounted(a)
        BY InvWhenWithdrawn
  <1>4. ASSUME NEW b \in Accounts, NEW t \in Tokens
        PROVE  Spendable(b, t)' = Spendable(b, t)
    <2>1. FlowTo(receipts', b, t) = FlowTo(receipts, b, t) + For(a, b, In(token, t, amount))
          BY <1>1, <1>2, FlowToAdd
    <2>2. /\ FlowOf(receipts', t) = FlowOf(receipts, t) + In(token, t, amount)
          /\ FlowOf(receipts, t) \in Nat
          BY <1>1, <1>2, FlowOfAdd, FlowIs
    <2>3. WorthOf(accounts', b, t) = WorthOf(accounts, b, t) + For(a, b, In(token, t, - amount))
      <3>1. FlowOf(receipts, t) + held'[t] = FlowOf(receipts', t) + held[t] + In(token, t, - amount)
        <4>1. held'[t] = held[t] /\ held[t] \in Nat
              BY <1>1
        <4>. QED  BY <2>2, <4>1 DEF In
      <3>2. - amount \in Int
            OBVIOUS
      <3>. QED  BY <1>3, <3>1, <3>2, AccountedWorth
    <2>4. For(a, b, In(token, t, - amount)) = 0 - For(a, b, In(token, t, amount))
          BY DEF For, In
    <2>5. For(a, b, In(token, t, amount)) \in Nat /\ wallets'[b][t] = wallets[b][t]
          BY <1>1, ForType
    <2>. QED  BY <2>1, <2>3, <2>4, <2>5, ShownFacts
  <1>. QED  BY <1>1, <1>4, Unseen DEF SpendableKept, MembersKept

(* set_owner, and steps that do nothing                                    *)
LEMMA HandoverUnseen ==
  ASSUME CustodyInv, CustodyInv', UNCHANGED <<vars, wallets, held, receipts>>
  PROVE  UNCHANGED Promises!ledgerVars
PROOF
  <1>1. /\ accounts' = accounts /\ markets' = markets /\ wallets' = wallets /\ receipts' = receipts
        BY DEF vars
  <1>2. SpendableKept
        BY <1>1, ShownFacts DEF SpendableKept
  <1>. QED  BY <1>1, <1>2, Unseen DEF MembersKept

(* storage_withdraw                                                        *)
LEMMA StorageWithdrawalUnseen ==
  ASSUME CustodyInv, CustodyInv', NEW a \in Accounts, NEW amount \in StorageWithdrawals,
         StorageWithdraw(a, amount)
  PROVE  UNCHANGED Promises!ledgerVars
PROOF
  <1>1. /\ DOMAIN accounts' = DOMAIN accounts
        /\ markets' = markets /\ wallets' = wallets /\ held' = held
        /\ \A t \in Tokens : held[t] \in Nat
        BY DEF StorageWithdraw, CustodyInv, CustodyTypeOK
  <1>2. /\ OnlyAccount(a) /\ AllAccounted(a)
        /\ \E paid \in Nat : receipts' = Pay(a, paid)
        BY InvWhenStorageWithdrawn
  <1>3. PICK paid \in Nat : receipts' = Pay(a, paid)
        BY <1>2
  <1>4. ASSUME NEW b \in Accounts, NEW t \in Tokens
        PROVE  Spendable(b, t)' = Spendable(b, t)
    <2>1. FlowTo(receipts', b, t) = FlowTo(receipts, b, t) + For(a, b, In(Near, t, paid))
          BY <1>3, PayFlowTo
    <2>2. /\ FlowOf(receipts', t) = FlowOf(receipts, t) + In(Near, t, paid)
          /\ FlowOf(receipts, t) \in Nat
          BY <1>3, PayFacts
    <2>3. WorthOf(accounts', b, t) = WorthOf(accounts, b, t) + For(a, b, In(Near, t, - paid))
      <3>1. FlowOf(receipts, t) + held'[t] = FlowOf(receipts', t) + held[t] + In(Near, t, - paid)
        <4>1. held'[t] = held[t] /\ held[t] \in Nat
              BY <1>1
        <4>. QED  BY <2>2, <4>1 DEF In
      <3>2. - paid \in Int
            OBVIOUS
      <3>. QED  BY <1>2, <3>1, <3>2, AccountedWorth
    <2>4. For(a, b, In(Near, t, - paid)) = 0 - For(a, b, In(Near, t, paid))
          BY DEF For, In
    <2>5. For(a, b, In(Near, t, paid)) \in Nat /\ wallets'[b][t] = wallets[b][t]
          BY <1>1, ForType
    <2>. QED  BY <2>1, <2>3, <2>4, <2>5, ShownFacts
  <1>. QED  BY <1>1, <1>4, Unseen DEF SpendableKept, MembersKept

(* An empty account has nothing locked.                                    *)
LEMMA NothingLocked ==
  ASSUME CustodyInv, NEW a \in DOMAIN accounts, IsEmpty(accounts[a]), NEW t
  PROVE  Locked(a, t) = 0
PROOF
  <1>1. TypeOK /\ BooksMatchAccounts
        BY DEF CustodyInv, CustodyTypeOK
  <1> DEFINE f == [m \in Markets |-> OwnLocks(MarketParams[m], markets[m].book, a, t)]
  <1>2. ASSUME NEW m \in Markets PROVE f[m] = 0
    <2>1. accounts[a].open[m] = {}
          BY DEF IsEmpty, MarketsWithOrders
    <2>2. OwnedBy(markets[m].book, DOMAIN markets[m].book, a) = {}
          BY <1>1, <2>1 DEF BooksMatchAccounts, OwnedBy
    <2>3. IsFiniteSet({})
          BY FS_EmptySet
    <2>4. \A g : SumFunctionOnSet(g, {}) = 0
          BY <2>3, SumOfZeros
    <2>. QED  BY <2>2, <2>4 DEF OwnLocks
  <1>3. Locked(a, t) = SumFunctionOnSet(f, Markets)
        BY <1>1, LockedNow DEF LockedFor
  <1> HIDE DEF f
  <1>. QED  BY <1>2, <1>3, FinitenessAssumption, SumOfZeros

(* storage_unregister                                                      *)
LEMMA UnregisterLeaves ==
  ASSUME CustodyInv, CustodyInv', NEW a \in Accounts, StorageUnregister(a)
  PROVE  Promises!Leave(a)
PROOF
  <1>1. /\ DOMAIN accounts' = DOMAIN accounts \ {a} /\ a \in DOMAIN accounts
        /\ IsEmpty(accounts[a]) /\ receipts' = Pay(a, accounts[a].storage)
        /\ markets' = markets /\ wallets' = wallets /\ held' = held
        /\ \A t \in Tokens : held[t] \in Nat
        BY DEF StorageUnregister, CustodyInv, CustodyTypeOK
  <1>2. PICK paid \in Nat : receipts' = Pay(a, paid)
    <2>1. IsAccount(accounts[a])
          BY <1>1 DEF CustodyInv, CustodyTypeOK, TypeOK
    <2>. QED  BY <1>1, <2>1 DEF IsAccount
  <1>3. OnlyAccount(a) /\ AllAccounted(a)
        BY InvWhenUnregistered
  <1>4. ASSUME NEW b \in Accounts, NEW t \in Tokens
        PROVE  Spendable(b, t)' = Spendable(b, t)
    <2>1. FlowTo(receipts', b, t) = FlowTo(receipts, b, t) + For(a, b, In(Near, t, paid))
          BY <1>2, PayFlowTo
    <2>2. /\ FlowOf(receipts', t) = FlowOf(receipts, t) + In(Near, t, paid)
          /\ FlowOf(receipts, t) \in Nat
          BY <1>2, PayFacts
    <2>3. WorthOf(accounts', b, t) = WorthOf(accounts, b, t) + For(a, b, In(Near, t, - paid))
      <3>1. FlowOf(receipts, t) + held'[t] = FlowOf(receipts', t) + held[t] + In(Near, t, - paid)
        <4>1. held'[t] = held[t] /\ held[t] \in Nat
              BY <1>1
        <4>. QED  BY <2>2, <4>1 DEF In
      <3>2. - paid \in Int
            OBVIOUS
      <3>. QED  BY <1>3, <3>1, <3>2, AccountedWorth
    <2>4. For(a, b, In(Near, t, - paid)) = 0 - For(a, b, In(Near, t, paid))
          BY DEF For, In
    <2>5. For(a, b, In(Near, t, paid)) \in Nat /\ wallets'[b][t] = wallets[b][t]
          BY <1>1, ForType
    <2>. QED  BY <2>1, <2>3, <2>4, <2>5, ShownFacts
  <1>5. SpendableKept /\ LockedKept /\ TreasuryKept
        BY <1>1, <1>4, BooksStay DEF SpendableKept
  <1>6. \A t \in Tokens : Locked(a, t) = 0
        BY <1>1, NothingLocked
  <1>. QED  BY <1>1, <1>5, <1>6, LedgerLeave

(* storage_deposit                                                         *)
LEMMA StorageDepositGives ==
  ASSUME CustodyInv, CustodyInv', NEW payer \in Accounts, NEW a \in Accounts,
         NEW registration_only \in BOOLEAN, NEW amount \in Nat,
         StorageDeposit(payer, a, registration_only, amount)
  PROVE  Promises!PayStorage(payer, a)
PROOF
  <1>1. /\ DOMAIN accounts' = DOMAIN accounts \cup {a} /\ TakeIn(payer, Near, amount)
        /\ markets' = markets
        BY DEF StorageDeposit
  <1>2. /\ OnlyAccount(a) /\ AllAccounted(a)
        /\ \E kept \in Nat : amount - kept \in Nat /\ receipts' = Pay(payer, amount - kept)
        BY InvWhenStorageDeposited
  <1>3. PICK kept \in Nat : amount - kept \in Nat /\ receipts' = Pay(payer, amount - kept)
        BY <1>2
  <1>4. CustodyTypeOK /\ Near \in Tokens
        BY CustodyAssumption DEF CustodyInv
  <1>5. ASSUME NEW c \in Accounts, NEW t \in Tokens
        PROVE  Spendable(c, t)' + For(payer, c, In(Near, t, kept))
                 = Spendable(c, t) + For(a, c, In(Near, t, kept))
    <2>1. FlowTo(receipts', c, t)
            = FlowTo(receipts, c, t) + For(payer, c, In(Near, t, amount - kept))
          BY <1>3, PayFlowTo
    <2>2. WorthOf(accounts', c, t) = WorthOf(accounts, c, t) + For(a, c, In(Near, t, kept))
      <3>1. /\ FlowOf(receipts', t) = FlowOf(receipts, t) + In(Near, t, amount - kept)
            /\ FlowOf(receipts, t) \in Nat
            BY <1>3, PayFacts
      <3>2. held'[t] = held[t] + In(Near, t, amount) /\ held[t] \in Nat
            BY <1>1, <1>4, HeldMoves
      <3>3. FlowOf(receipts, t) + held'[t] = FlowOf(receipts', t) + held[t] + In(Near, t, kept)
            BY <3>1, <3>2 DEF In
      <3>4. kept \in Int
            OBVIOUS
      <3>. QED  BY <1>2, <3>3, <3>4, AccountedWorth
    <2>3. wallets[c][t] = wallets'[c][t] + For(payer, c, In(Near, t, amount))
          BY <1>1, <1>4, WalletMoves
    <2>4. /\ For(payer, c, In(Near, t, amount))
               = For(payer, c, In(Near, t, amount - kept)) + For(payer, c, In(Near, t, kept))
          /\ For(payer, c, In(Near, t, amount)) \in Nat /\ For(payer, c, In(Near, t, kept)) \in Nat
          /\ For(payer, c, In(Near, t, amount - kept)) \in Nat
          /\ For(a, c, In(Near, t, kept)) \in Nat
      <3>1. kept \in Nat /\ amount - kept \in Nat /\ amount = (amount - kept) + kept
            BY <1>3
      <3>. QED  BY <3>1 DEF For, In
    <2>. QED  BY <2>1, <2>2, <2>3, <2>4, ShownFacts
  <1>6. LockedKept /\ TreasuryKept
        BY <1>1, BooksStay
  <1>7. \A c \in Accounts, t \in Tokens : Spendable(c, t) \in Nat /\ Spendable(c, t)' \in Nat
        BY ShownFacts
  <1>8. Promises!Give(payer, a, Near)
        BY <1>4, <1>5, <1>6, <1>7, LedgerGive DEF Gives
  <1>. QED  BY <1>1, <1>8 DEF Promises!PayStorage

(* ft_on_transfer                                                          *)
LEMMA NotifyUnseen ==
  ASSUME CustodyInv, CustodyInv', NEW r \in Due("notify"), FtOnTransfer(r)
  PROVE  UNCHANGED Promises!ledgerVars
PROOF
  <1> DEFINE a == r.account
             back == MakeReceipt("return", r.account, r.token, r.amount, TRUE)
             accepted == contract_state = "Active" /\ CanCredit(r.account, r.token, r.amount)
  <1>1. /\ r \in BagToSet(receipts) /\ r.kind = "notify"
        /\ r \in Receipt /\ r.account \in Accounts /\ r.token \in Tokens
        /\ r.amount \in Nat \ {0} /\ IsReceiptBag(receipts)
        BY ReceiptFacts DEF Due
  <1>2. /\ accounts' = IF accepted
                         THEN [accounts EXCEPT ![a] = Credited(a, r.token, r.amount)]
                         ELSE accounts
        /\ receipts' = IF accepted THEN Bag!BagRemove(receipts, r)
                                   ELSE Bag!BagAdd(Bag!BagRemove(receipts, r), back)
        /\ UNCHANGED <<contract_state, markets, prev_order_sequence_number, owner_id, wallets, held>>
        BY DEF FtOnTransfer, SendBack
  <1>3. /\ back \in Receipt /\ back.account = a
        /\ \A t : HeldFor(r, t) = In(r.token, t, r.amount) /\ HeldFor(back, t) = In(r.token, t, r.amount)
    <2>1. "return" \in {"transfer", "callback", "notify", "return", "pay"}
          OBVIOUS
    <2>2. back \in Receipt
          BY <1>1, <2>1, MadeReceipt
    <2>3. back.account = a /\ \A t : HeldFor(back, t) = In(r.token, t, r.amount)
          BY DEF MakeReceipt, HeldFor, In
    <2>4. \A t : HeldFor(r, t) = In(r.token, t, r.amount)
          BY <1>1 DEF HeldFor, In
    <2>. QED  BY <2>2, <2>3, <2>4
  <1>4. DOMAIN accounts' = DOMAIN accounts
        BY <1>2
  <1>5. CASE accepted
    <2>1. \A b, t : WorthOf(accounts', b, t) = WorthOf(accounts, b, t) + For(a, b, In(r.token, t, r.amount))
          BY <1>1, <1>2, <1>5, CreditedWorth
    <2>2. receipts' = Bag!BagRemove(receipts, r)
          BY <1>2, <1>5
    <2>3. ASSUME NEW b \in Accounts, NEW t \in Tokens
          PROVE  Spendable(b, t)' = Spendable(b, t)
      <3>1. FlowTo(receipts, b, t) = FlowTo(receipts', b, t) + For(a, b, In(r.token, t, r.amount))
            BY <1>1, <1>3, <2>2, FlowToRemove
      <3>2. For(a, b, In(r.token, t, r.amount)) \in Nat
            BY <1>1, ForType
      <3>3. wallets'[b][t] = wallets[b][t]
            BY <1>2
      <3>4. WorthOf(accounts', b, t) = WorthOf(accounts, b, t) + For(a, b, In(r.token, t, r.amount))
            BY <2>1
      <3>. QED  BY <3>1, <3>2, <3>3, <3>4, ShownFacts
    <2>. QED  BY <1>2, <1>4, <2>3, Unseen DEF SpendableKept, MembersKept
  <1>6. CASE ~ accepted
    <2>1. accounts' = accounts /\ receipts' = Bag!BagAdd(Bag!BagRemove(receipts, r), back)
          BY <1>2, <1>6
    <2> HIDE DEF back
    <2>2. ASSUME NEW b \in Accounts, NEW t \in Tokens
          PROVE  Spendable(b, t)' = Spendable(b, t)
      <3>1. FlowTo(receipts', b, t) + For(r.account, b, HeldFor(r, t))
              = FlowTo(receipts, b, t) + For(back.account, b, HeldFor(back, t))
            BY <1>1, <1>3, <2>1, FlowToReplace
      <3>2. /\ For(r.account, b, HeldFor(r, t)) = For(back.account, b, HeldFor(back, t))
            /\ For(r.account, b, HeldFor(r, t)) \in Nat
        <4>1. For(a, b, In(r.token, t, r.amount)) \in Nat
              BY <1>1, ForType
        <4>. QED  BY <1>3, <4>1
      <3>3. wallets'[b][t] = wallets[b][t] /\ WorthOf(accounts', b, t) = WorthOf(accounts, b, t)
            BY <1>2, <2>1
      <3>. QED  BY <3>1, <3>2, <3>3, ShownFacts
    <2>. QED  BY <1>2, <1>4, <2>2, Unseen DEF SpendableKept, MembersKept
  <1>. QED  BY <1>5, <1>6

(* ft_resolve_transfer, and plain transfers of NEAR                        *)
LEMMA DeliveryUnseen ==
  ASSUME CustodyInv, CustodyInv', NEW r \in Due("return") \cup Due("pay"), Deliver(r)
  PROVE  UNCHANGED Promises!ledgerVars
PROOF
  <1>1. /\ r \in BagToSet(receipts) /\ r.kind # "callback"
        /\ r \in Receipt /\ r.account \in Accounts /\ r.token \in Tokens
        /\ r.amount \in Nat \ {0} /\ IsReceiptBag(receipts)
        BY ReceiptFacts DEF Due
  <1>2. /\ PayOut(r.account, r.token, r.amount) /\ receipts' = Bag!BagRemove(receipts, r)
        /\ accounts' = accounts /\ markets' = markets
        BY DEF Deliver, vars
  <1>3. ASSUME NEW b \in Accounts, NEW t \in Tokens
        PROVE  Spendable(b, t)' = Spendable(b, t)
    <2>1. FlowTo(receipts, b, t) = FlowTo(receipts', b, t) + For(r.account, b, HeldFor(r, t))
          BY <1>1, <1>2, FlowToRemove
    <2>2. wallets'[b][t] = wallets[b][t] + For(r.account, b, In(r.token, t, r.amount))
          BY <1>1, <1>2, WalletMoves
    <2>3. HeldFor(r, t) = In(r.token, t, r.amount)
          BY <1>1 DEF HeldFor, In
    <2>4. /\ For(r.account, b, In(r.token, t, r.amount)) \in Nat
          /\ WorthOf(accounts', b, t) = WorthOf(accounts, b, t)
          BY <1>1, <1>2, ForType
    <2>. QED  BY <2>1, <2>2, <2>3, <2>4, ShownFacts
  <1>. QED  BY <1>2, <1>3, Unseen DEF SpendableKept, MembersKept

(* A transfer that succeeds, and one that fails                            *)
LEMMA TransferUnseen ==
  ASSUME CustodyInv, CustodyInv', NEW r \in Due("transfer"), TransferSucceeds(r) \/ TransferFails(r)
  PROVE  UNCHANGED Promises!ledgerVars
PROOF
  <1> DEFINE sent   == [r EXCEPT !.kind = "callback", !.ok = TRUE]
             failed == [r EXCEPT !.kind = "callback", !.ok = FALSE]
  <1>1. /\ r \in BagToSet(receipts) /\ r.kind # "callback"
        /\ r \in Receipt /\ r.account \in Accounts /\ r.token \in Tokens
        /\ r.amount \in Nat \ {0} /\ IsReceiptBag(receipts)
        BY ReceiptFacts DEF Due
  <1>2. accounts' = accounts /\ markets' = markets
        BY DEF TransferSucceeds, TransferFails, vars
  <1>3. /\ sent \in Receipt /\ failed \in Receipt
        /\ sent.account = r.account /\ failed.account = r.account
        /\ \A t : /\ HeldFor(r, t) = In(r.token, t, r.amount)
                  /\ HeldFor(sent, t) = 0 /\ HeldFor(failed, t) = In(r.token, t, r.amount)
    <2>1. /\ sent \in Receipt /\ sent.kind = "callback" /\ sent.ok = TRUE
          /\ failed \in Receipt /\ failed.kind = "callback" /\ failed.ok = FALSE
          /\ failed.token = r.token /\ failed.amount = r.amount
          /\ sent.account = r.account /\ failed.account = r.account
          BY <1>1 DEF Receipt
    <2> HIDE DEF sent, failed
    <2>2. \A t : HeldFor(r, t) = In(r.token, t, r.amount)
          BY <1>1 DEF HeldFor, In
    <2>3. \A t : HeldFor(sent, t) = 0 /\ HeldFor(failed, t) = In(r.token, t, r.amount)
          BY <2>1 DEF HeldFor, In
    <2>. QED  BY <2>1, <2>2, <2>3
  <1>4. CASE TransferSucceeds(r)
    <2>1. /\ PayOut(r.account, r.token, r.amount)
          /\ receipts' = Bag!BagAdd(Bag!BagRemove(receipts, r), sent)
          BY <1>4 DEF TransferSucceeds
    <2> HIDE DEF sent, failed
    <2>2. ASSUME NEW b \in Accounts, NEW t \in Tokens
          PROVE  Spendable(b, t)' = Spendable(b, t)
      <3>1. FlowTo(receipts', b, t) + For(r.account, b, HeldFor(r, t))
              = FlowTo(receipts, b, t) + For(sent.account, b, HeldFor(sent, t))
            BY <1>1, <1>3, <2>1, FlowToReplace
      <3>2. wallets'[b][t] = wallets[b][t] + For(r.account, b, In(r.token, t, r.amount))
            BY <1>1, <2>1, WalletMoves
      <3>3. For(sent.account, b, HeldFor(sent, t)) = 0
            BY <1>3 DEF For
      <3>4. /\ For(r.account, b, HeldFor(r, t)) = For(r.account, b, In(r.token, t, r.amount))
            /\ For(r.account, b, In(r.token, t, r.amount)) \in Nat
            /\ WorthOf(accounts', b, t) = WorthOf(accounts, b, t)
            BY <1>1, <1>2, <1>3, ForType
      <3>. QED  BY <3>1, <3>2, <3>3, <3>4, ShownFacts
    <2>. QED  BY <1>2, <2>2, Unseen DEF SpendableKept, MembersKept
  <1>5. CASE TransferFails(r)
    <2>1. /\ wallets' = wallets
          /\ receipts' = Bag!BagAdd(Bag!BagRemove(receipts, r), failed)
          BY <1>5 DEF TransferFails
    <2> HIDE DEF sent, failed
    <2>2. ASSUME NEW b \in Accounts, NEW t \in Tokens
          PROVE  Spendable(b, t)' = Spendable(b, t)
      <3>1. FlowTo(receipts', b, t) + For(r.account, b, HeldFor(r, t))
              = FlowTo(receipts, b, t) + For(failed.account, b, HeldFor(failed, t))
            BY <1>1, <1>3, <2>1, FlowToReplace
      <3>2. /\ For(r.account, b, HeldFor(r, t)) = For(failed.account, b, HeldFor(failed, t))
            /\ For(r.account, b, HeldFor(r, t)) \in Nat
        <4>1. For(r.account, b, In(r.token, t, r.amount)) \in Nat
              BY <1>1, ForType
        <4>. QED  BY <1>3, <4>1
      <3>3. wallets'[b][t] = wallets[b][t] /\ WorthOf(accounts', b, t) = WorthOf(accounts, b, t)
            BY <1>2, <2>1
      <3>. QED  BY <3>1, <3>2, <3>3, ShownFacts
    <2>. QED  BY <1>2, <2>2, Unseen DEF SpendableKept, MembersKept
  <1>. QED  BY <1>4, <1>5

(* exchange_callback_post_withdraw: what a failed transfer was for goes    *)
(* back to the sender, or from a sender that has left to the owner.        *)
LEMMA CallbackShown ==
  ASSUME CustodyInv, CustodyInv', NEW r \in Due("callback"), ExchangeCallbackPostWithdraw(r),
         IsRefundDue(r) => CanCredit(RefundTarget(r), r.token, r.amount)
  PROVE  UNCHANGED Promises!ledgerVars \/ Promises!Forfeit(r.account, RefundTarget(r), r.token)
PROOF
  <1> DEFINE a == r.account
             target == RefundTarget(r)
  <1>1. /\ r \in BagToSet(receipts) /\ r.kind = "callback"
        /\ r \in Receipt /\ r.account \in Accounts /\ r.token \in Tokens
        /\ r.amount \in Nat \ {0} /\ r.ok \in BOOLEAN /\ IsReceiptBag(receipts)
        BY ReceiptFacts DEF Due
  <1>2. /\ receipts' = Bag!BagRemove(receipts, r)
        /\ accounts' = IF IsRefundDue(r) THEN [accounts EXCEPT ![target] = Credited(target, r.token, r.amount)]
                       ELSE accounts
        /\ UNCHANGED <<contract_state, markets, prev_order_sequence_number, owner_id, wallets, held>>
        BY DEF ExchangeCallbackPostWithdraw
  <1>3. DOMAIN accounts' = DOMAIN accounts /\ markets' = markets
        BY <1>2
  <1>4. CASE ~ IsRefundDue(r)
    <2>1. accounts' = accounts
          BY <1>2, <1>4
    <2>2. ASSUME NEW b \in Accounts, NEW t \in Tokens
          PROVE  Spendable(b, t)' = Spendable(b, t)
      <3>1. FlowTo(receipts, b, t) = FlowTo(receipts', b, t) + For(r.account, b, HeldFor(r, t))
            BY <1>1, <1>2, FlowToRemove
      <3>2. For(r.account, b, HeldFor(r, t)) = 0
            BY <1>1, <1>4 DEF HeldFor, IsRefundDue, For
      <3>3. wallets'[b][t] = wallets[b][t] /\ WorthOf(accounts', b, t) = WorthOf(accounts, b, t)
            BY <1>2, <2>1
      <3>. QED  BY <3>1, <3>2, <3>3, ShownFacts
    <2>. QED  BY <1>3, <2>2, Unseen DEF SpendableKept, MembersKept
  <1>5. CASE IsRefundDue(r)
    <2>1. /\ CanCredit(target, r.token, r.amount) /\ target \in DOMAIN accounts
          /\ accounts' = [accounts EXCEPT ![target] = Credited(target, r.token, r.amount)]
          BY <1>2, <1>5 DEF CanCredit
    <2>2. DOMAIN accounts \subseteq Accounts
          BY DEF CustodyInv, CustodyTypeOK, TypeOK
    <2>3. a # target => a \notin DOMAIN accounts
          BY DEF RefundTarget
    <2> HIDE DEF target
    <2>4. \A b, t : WorthOf(accounts', b, t)
                      = WorthOf(accounts, b, t) + For(target, b, In(r.token, t, r.amount))
      <3>1. r.token \in Tokens /\ r.amount \in Nat
            BY <1>1
      <3>2. UNCHANGED <<contract_state, markets, prev_order_sequence_number>>
            BY <1>2
      <3>. QED  BY <2>1, <3>1, <3>2, CreditedWorth, Zenon
    <2>5. ASSUME NEW b \in Accounts, NEW t \in Tokens
          PROVE  Spendable(b, t)' + For(a, b, In(r.token, t, r.amount))
                   = Spendable(b, t) + For(target, b, In(r.token, t, r.amount))
      <3>1. FlowTo(receipts, b, t) = FlowTo(receipts', b, t) + For(a, b, In(r.token, t, r.amount))
        <4>1. HeldFor(r, t) = In(r.token, t, r.amount)
              BY <1>5 DEF HeldFor, In, IsRefundDue
        <4>. QED  BY <1>1, <1>2, <4>1, FlowToRemove
      <3>2. For(a, b, In(r.token, t, r.amount)) \in Nat /\ For(target, b, In(r.token, t, r.amount)) \in Nat
            BY <1>1, ForType
      <3>3. wallets'[b][t] = wallets[b][t]
            BY <1>2
      <3>4. WorthOf(accounts', b, t) = WorthOf(accounts, b, t) + For(target, b, In(r.token, t, r.amount))
            BY <2>4
      <3>. QED  BY <3>1, <3>2, <3>3, <3>4, ShownFacts
    <2>6. CASE a = target
      <3>1. ASSUME NEW b \in Accounts, NEW t \in Tokens
            PROVE  Spendable(b, t)' = Spendable(b, t)
        <4>1. For(a, b, In(r.token, t, r.amount)) \in Nat
              BY <1>1, ForType
        <4>2. Spendable(b, t) \in Nat /\ Spendable(b, t)' \in Nat
              BY ShownFacts
        <4>3. Spendable(b, t)' + For(a, b, In(r.token, t, r.amount))
                = Spendable(b, t) + For(a, b, In(r.token, t, r.amount))
              BY <2>5, <2>6
        <4>. QED  BY <4>1, <4>2, <4>3
      <3>. QED  BY <1>3, <3>1, Unseen DEF SpendableKept, MembersKept
    <2>7. CASE a # target
      <3>1. LockedKept /\ TreasuryKept
            BY <1>3, BooksStay
      <3>2. \A c \in Accounts, t \in Tokens : Spendable(c, t) \in Nat /\ Spendable(c, t)' \in Nat
            BY ShownFacts
      <3>3. Promises!Give(a, target, r.token)
        <4>1. Gives(a, target, r.token, r.amount)
              BY <2>5 DEF Gives
        <4>. QED  BY <1>1, <2>1, <2>2, <3>1, <3>2, <4>1, LedgerGive
      <3>. QED  BY <1>3, <2>1, <2>3, <2>7, <3>3 DEF Promises!Forfeit, target
    <2>. QED  BY <2>6, <2>7
  <1>. QED  BY <1>4, <1>5

-----------------------------------------------------------------------------
(* Trading.                                                                *)

(* While no tokens move, what an account can spend changes by its balance. *)
LEMMA TradingShown ==
  ASSUME CustodyInv, CustodyInv', SameStorage, UNCHANGED custodyVars, NEW b \in Accounts, NEW t \in Tokens
  PROVE  /\ Spendable(b, t) \in Nat /\ Spendable(b, t)' \in Nat
         /\ b \in DOMAIN accounts =>
              /\ Balance(accounts[b], t) \in Nat /\ Balance(accounts'[b], t) \in Nat
              /\ Spendable(b, t)' + Balance(accounts[b], t) = Spendable(b, t) + Balance(accounts'[b], t)
         /\ b \notin DOMAIN accounts => Spendable(b, t)' = Spendable(b, t)
PROOF
  <1>1. /\ wallets[b][t] \in Nat /\ WorthOf(accounts, b, t) \in Nat /\ FlowTo(receipts, b, t) \in Nat
        /\ WorthOf(accounts', b, t) \in Nat
        /\ Spendable(b, t) = wallets[b][t] + WorthOf(accounts, b, t) + FlowTo(receipts, b, t)
        /\ Spendable(b, t)' = wallets[b][t] + WorthOf(accounts', b, t) + FlowTo(receipts, b, t)
        /\ Spendable(b, t) \in Nat /\ Spendable(b, t)' \in Nat
    <2>1. wallets' = wallets /\ receipts' = receipts
          BY DEF custodyVars
    <2>. QED  BY <2>1, ShownFacts
  <1>2. ASSUME b \in DOMAIN accounts
        PROVE  /\ Balance(accounts[b], t) \in Nat /\ Balance(accounts'[b], t) \in Nat
               /\ WorthOf(accounts', b, t) + Balance(accounts[b], t)
                    = WorthOf(accounts, b, t) + Balance(accounts'[b], t)
    <2>1. IsAccount(accounts[b]) /\ IsAccount(accounts'[b]) /\ b \in DOMAIN accounts'
          BY <1>2 DEF CustodyInv, CustodyTypeOK, TypeOK, SameStorage
    <2>2. Balance(accounts[b], t) \in Nat /\ Balance(accounts'[b], t) \in Nat
          BY <2>1, BalanceType
    <2>3. accounts[b].storage \in Nat /\ accounts'[b].storage = accounts[b].storage
          BY <1>2, <2>1 DEF SameStorage, IsAccount
    <2>4. /\ WorthOf(accounts, b, t) = Balance(accounts[b], t) + In(Near, t, accounts[b].storage)
          /\ WorthOf(accounts', b, t) = Balance(accounts'[b], t) + In(Near, t, accounts'[b].storage)
          BY <1>2, <2>1 DEF WorthOf
    <2>. QED  BY <2>2, <2>3, <2>4 DEF In
  <1>3. ASSUME b \notin DOMAIN accounts
        PROVE  WorthOf(accounts', b, t) = WorthOf(accounts, b, t)
        BY <1>3 DEF WorthOf, SameStorage
  <1>4. ASSUME b \in DOMAIN accounts
        PROVE  Spendable(b, t)' + Balance(accounts[b], t) = Spendable(b, t) + Balance(accounts'[b], t)
        BY <1>1, <1>2, <1>4
  <1>. QED  BY <1>1, <1>2, <1>3, <1>4

(* What changes in one market changes what is locked and taken in all.     *)
LEMMA OneMarketChanges ==
  ASSUME AreStates(markets), AreStates(markets'), NEW m \in Markets,
         \A k \in Markets \ {m} : markets'[k] = markets[k], NEW b, NEW t
  PROVE  /\ LockedFor(markets', b, t) + OwnLocks(MarketParams[m], markets[m].book, b, t)
              = LockedFor(markets, b, t) + OwnLocks(MarketParams[m], markets'[m].book, b, t)
         /\ TreasuryOf(markets', t) + In(MarketParams[m].quote, t, markets[m].fees_accrued)
              = TreasuryOf(markets, t) + In(MarketParams[m].quote, t, markets'[m].fees_accrued)
         /\ TreasuryOf(markets, t) \in Nat /\ TreasuryOf(markets', t) \in Nat
PROOF
  <1> DEFINE f == [k \in Markets |-> OwnLocks(MarketParams[k], markets[k].book, b, t)]
             g == [k \in Markets |-> OwnLocks(MarketParams[k], markets'[k].book, b, t)]
             x == [k \in Markets |-> In(MarketParams[k].quote, t, markets[k].fees_accrued)]
             y == [k \in Markets |-> In(MarketParams[k].quote, t, markets'[k].fees_accrued)]
  <1>1. /\ \A k \in Markets : f[k] \in Nat
        /\ \A k \in Markets : g[k] \in Nat
    <2>1. /\ \A k \in Markets : OwnLocks(MarketParams[k], markets[k].book, b, t) \in Nat
          /\ \A k \in Markets : OwnLocks(MarketParams[k], markets'[k].book, b, t) \in Nat
          BY LockedForType
    <2>. QED  BY <2>1
  <1>2. /\ \A k \in Markets : x[k] \in Nat
        /\ \A k \in Markets : y[k] \in Nat
        BY DEF AreStates, In
  <1>3. \A k \in Markets \ {m} : g[k] = f[k] /\ y[k] = x[k]
        OBVIOUS
  <1>4. /\ f[m] = OwnLocks(MarketParams[m], markets[m].book, b, t)
        /\ g[m] = OwnLocks(MarketParams[m], markets'[m].book, b, t)
        /\ x[m] = In(MarketParams[m].quote, t, markets[m].fees_accrued)
        /\ y[m] = In(MarketParams[m].quote, t, markets'[m].fees_accrued)
        OBVIOUS
  <1>5. /\ LockedFor(markets, b, t) = SumFunctionOnSet(f, Markets)
        /\ LockedFor(markets', b, t) = SumFunctionOnSet(g, Markets)
        /\ TreasuryOf(markets, t) = SumFunctionOnSet(x, Markets)
        /\ TreasuryOf(markets', t) = SumFunctionOnSet(y, Markets)
        BY DEF LockedFor, TreasuryOf
  <1> HIDE DEF f, g, x, y
  <1>6. SumFunctionOnSet(g, Markets) = SumFunctionOnSet(f, Markets) + g[m] - f[m]
    <2>1. \A k \in Markets : f[k] \in Int /\ g[k] \in Int
          BY <1>1
    <2>. QED  BY <1>3, <2>1, FinitenessAssumption, SumChange
  <1>7. SumFunctionOnSet(y, Markets) = SumFunctionOnSet(x, Markets) + y[m] - x[m]
    <2>1. \A k \in Markets : x[k] \in Int /\ y[k] \in Int
          BY <1>2
    <2>. QED  BY <1>3, <2>1, FinitenessAssumption, SumChange
  <1>8. /\ SumFunctionOnSet(f, Markets) \in Nat /\ SumFunctionOnSet(g, Markets) \in Nat
        /\ SumFunctionOnSet(x, Markets) \in Nat /\ SumFunctionOnSet(y, Markets) \in Nat
        BY <1>1, <1>2, FinitenessAssumption, SumNat
  <1>9. f[m] \in Nat /\ g[m] \in Nat /\ x[m] \in Nat /\ y[m] \in Nat
        BY <1>1, <1>2
  <1>10. /\ SumFunctionOnSet(g, Markets) + f[m] = SumFunctionOnSet(f, Markets) + g[m]
         /\ SumFunctionOnSet(y, Markets) + x[m] = SumFunctionOnSet(x, Markets) + y[m]
        BY <1>6, <1>7, <1>8, <1>9
  <1>. QED  BY <1>4, <1>5, <1>8, <1>10

(* The owner's switches show nothing.                                      *)
LEMMA SwitchUnseen ==
  ASSUME CustodyInv, CustodyInv', UNCHANGED custodyVars, Switches
  PROVE  UNCHANGED Promises!ledgerVars
PROOF
  <1>1. SameStorage /\ MembersKept
        BY DEF Switches, SameStorage, MembersKept
  <1>2. SpendableKept
    <2> SUFFICES ASSUME NEW b \in Accounts, NEW t \in Tokens PROVE Spendable(b, t)' = Spendable(b, t)
        BY DEF SpendableKept
    <2>1. accounts' = accounts
          BY DEF Switches
    <2>. QED  BY <1>1, <2>1, TradingShown
  <1>3. TypeOK /\ TypeOK'
        BY DEF CustodyInv, CustodyTypeOK
  <1>4. ASSUME NEW b, NEW t
        PROVE  LockedFor(markets', b, t) = LockedFor(markets, b, t)
               /\ TreasuryOf(markets', t) = TreasuryOf(markets, t)
    <2>1. /\ [k \in Markets |-> OwnLocks(MarketParams[k], markets'[k].book, b, t)]
               = [k \in Markets |-> OwnLocks(MarketParams[k], markets[k].book, b, t)]
          /\ [k \in Markets |-> In(MarketParams[k].quote, t, markets'[k].fees_accrued)]
               = [k \in Markets |-> In(MarketParams[k].quote, t, markets[k].fees_accrued)]
          BY DEF Switches
    <2>. QED  BY <2>1 DEF LockedFor, TreasuryOf
  <1>5. LockedKept /\ TreasuryKept
        BY <1>3, <1>4, LockedNow, LockedNext DEF LockedKept, TreasuryKept
  <1>. QED  BY <1>1, <1>2, <1>5, LedgerStutter

(* What cancelled orders lock, their owners no longer have locked.         *)
LEMMA CancelledLocks ==
  ASSUME NEW p, IsMarketParams(p), NEW n \in Nat, NEW book, IsBook(book, n),
         NEW ids \in SUBSET DOMAIN book, NEW b, NEW t
  PROVE  LET back == SumFunctionOnSet(Locks(p, book, t), OwnedBy(book, ids, b))
         IN  /\ back \in Nat
             /\ OwnLocks(p, RemoveOrders(book, ids), b, t) \in Nat
             /\ OwnLocks(p, RemoveOrders(book, ids), b, t) + back = OwnLocks(p, book, b, t)
PROOF
  <1> DEFINE after == RemoveOrders(book, ids)
             rest  == DOMAIN book \ ids
             locks == Locks(p, book, t)
             left  == Locks(p, after, t)
             gone  == OwnedBy(book, ids, b)
             kept  == OwnedBy(book, rest, b)
             own   == OwnedBy(book, DOMAIN book, b)
  <1>1. IsBook(after, n) /\ DOMAIN after = rest /\ \A i \in rest : after[i] = book[i]
        BY RemoveOrdersFacts
  <1>2. \A i \in DOMAIN book : locks[i] \in Nat
        BY LockedSum
  <1>3. OwnedBy(after, rest, b) = kept
        BY <1>1 DEF OwnedBy
  <1>4. /\ own = gone \cup kept /\ gone \cap kept = {}
        /\ gone \in SUBSET DOMAIN book /\ kept \in SUBSET DOMAIN book /\ kept \subseteq rest
        BY DEF OwnedBy
  <1>5. \A i \in rest : left[i] = locks[i]
    <2> TAKE i \in rest
    <2>1. i \in DOMAIN book /\ i \in DOMAIN after /\ after[i] = book[i]
          BY <1>1
    <2>2. left[i] = In(RefundToken(p, book[i]), t, Worth(p, book[i], book[i].qty))
          BY <2>1 DEF Locks
    <2>3. locks[i] = In(RefundToken(p, book[i]), t, Worth(p, book[i], book[i].qty))
          BY <2>1 DEF Locks
    <2>. QED  BY <2>2, <2>3
  <1>6. /\ OwnLocks(p, after, b, t) = SumFunctionOnSet(left, kept)
        /\ OwnLocks(p, book, b, t) = SumFunctionOnSet(locks, own)
        BY <1>1, <1>3 DEF OwnLocks
  <1>7. IsFiniteSet(gone) /\ IsFiniteSet(kept)
        BY <1>4, BookFinite
  <1> HIDE DEF after, rest, locks, left, gone, kept, own
  <1>8. /\ \A i \in gone \cup kept : locks[i] \in Nat /\ locks[i] \in Int
        /\ \A i \in kept : locks[i] \in Int /\ left[i] = locks[i]
        BY <1>2, <1>4, <1>5
  <1>9. SumFunctionOnSet(left, kept) = SumFunctionOnSet(locks, kept)
        BY <1>7, <1>8, SumSame
  <1>10. SumFunctionOnSet(locks, own) = SumFunctionOnSet(locks, gone) + SumFunctionOnSet(locks, kept)
        BY <1>4, <1>7, <1>8, SumDisjoint
  <1>11. SumFunctionOnSet(locks, gone) \in Nat /\ SumFunctionOnSet(locks, kept) \in Nat
        BY <1>7, <1>8, SumNat
  <1>12. /\ SumFunctionOnSet(locks, gone) \in Nat
         /\ OwnLocks(p, after, b, t) \in Nat
         /\ OwnLocks(p, after, b, t) + SumFunctionOnSet(locks, gone) = OwnLocks(p, book, b, t)
        BY <1>6, <1>9, <1>10, <1>11
  <1>. QED  BY <1>12 DEF after, locks, gone

(* cancel_order, cancel_all_orders and the owner's cancels                 *)
LEMMA CancelsRelease ==
  ASSUME CustodyInv, CustodyInv', SameStorage, UNCHANGED custodyVars,
         NEW m \in Markets, NEW ids, NEW refunded, Cancels(m, ids, refunded)
  PROVE  Promises!Release
PROOF
  <1> DEFINE p    == MarketParams[m]
             book == markets[m].book
             n    == prev_order_sequence_number
             back(b, t) == SumFunctionOnSet(Locks(p, book, t), OwnedBy(book, ids, b))
  <1>1. TypeOK /\ TypeOK' /\ AreStates(markets) /\ AreStates(markets')
        BY StatesNow, StatesNext DEF CustodyInv, CustodyTypeOK
  <1>2. IsMarketParams(p) /\ n \in Nat /\ IsBook(book, n)
        BY <1>1, ParamsFacts DEF TypeOK, IsMarket, IsBook
  <1>3. /\ ids \in SUBSET DOMAIN book
        /\ \A i \in ids : book[i].owner \in DOMAIN accounts
        /\ accounts' = refunded
        /\ \A b \in DOMAIN accounts : \A t :
             Balance(refunded[b], t) = Balance(accounts[b], t) + back(b, t)
        BY DEF Cancels, CommitCancels
  <1>4. /\ markets'[m].book = RemoveOrders(book, ids)
        /\ markets'[m].fees_accrued = markets[m].fees_accrued
        /\ \A k \in Markets \ {m} : markets'[k] = markets[k]
    <2> DEFINE after == RemoveOrders(book, ids)
    <2>1. /\ m \in DOMAIN markets
          /\ markets[m] \in [state : MarketStates, book : {markets[m].book}, fees_accrued : Nat,
                             minimum_bid_bps : BidWindows, maximum_ask_bps : AskWindows]
          BY <1>1 DEF TypeOK, IsMarket
    <2>2. markets' = [markets EXCEPT ![m].book = after]
          BY DEF Cancels, CommitCancels
    <2> HIDE DEF after
    <2>3. \A k \in Markets \ {m} : markets'[k] = markets[k]
          BY <1>1, <2>2 DEF TypeOK
    <2>4. markets'[m].book = after /\ markets'[m].fees_accrued = markets[m].fees_accrued
          BY <2>1, <2>2
    <2>. QED  BY <2>3, <2>4 DEF after
  <1> HIDE DEF p, book, n, back
  <1>5. MembersKept
        BY DEF SameStorage, MembersKept
  <1>6. ASSUME NEW b \in Accounts, NEW t \in Tokens
        PROVE  /\ Locked(b, t)' <= Locked(b, t)
               /\ Spendable(b, t)' + Locked(b, t)' = Spendable(b, t) + Locked(b, t)
               /\ Treasury(t)' = Treasury(t)
    <2>1. /\ back(b, t) \in Nat
          /\ OwnLocks(p, markets'[m].book, b, t) \in Nat
          /\ OwnLocks(p, markets'[m].book, b, t) + back(b, t) = OwnLocks(p, book, b, t)
          BY <1>2, <1>3, <1>4, CancelledLocks DEF back
    <2>2. /\ LockedFor(markets', b, t) + OwnLocks(p, book, b, t)
               = LockedFor(markets, b, t) + OwnLocks(p, markets'[m].book, b, t)
          /\ TreasuryOf(markets', t) + In(p.quote, t, markets[m].fees_accrued)
               = TreasuryOf(markets, t) + In(p.quote, t, markets[m].fees_accrued)
          /\ TreasuryOf(markets, t) \in Nat /\ TreasuryOf(markets', t) \in Nat
          BY <1>1, <1>4, OneMarketChanges DEF p, book
    <2>3. LockedFor(markets', b, t) \in Nat /\ LockedFor(markets, b, t) \in Nat
          BY <1>1, LockedForType
    <2>4. /\ Locked(b, t) = LockedFor(markets, b, t) /\ Locked(b, t)' = LockedFor(markets', b, t)
          /\ Treasury(t) = TreasuryOf(markets, t) /\ Treasury(t)' = TreasuryOf(markets', t)
          BY <1>1, LockedNow, LockedNext
    <2>5. In(p.quote, t, markets[m].fees_accrued) \in Nat
          BY <1>1 DEF AreStates, In
    <2>6. Spendable(b, t)' = Spendable(b, t) + back(b, t)
      <3>1. CASE b \in DOMAIN accounts
        <4>1. Balance(accounts'[b], t) = Balance(accounts[b], t) + back(b, t)
              BY <1>3, <3>1
        <4>2. /\ Spendable(b, t) \in Nat /\ Spendable(b, t)' \in Nat
              /\ Balance(accounts[b], t) \in Nat /\ Balance(accounts'[b], t) \in Nat
              /\ Spendable(b, t)' + Balance(accounts[b], t) = Spendable(b, t) + Balance(accounts'[b], t)
              BY <3>1, TradingShown
        <4>. QED  BY <2>1, <4>1, <4>2
      <3>2. CASE b \notin DOMAIN accounts
        <4>1. OwnedBy(book, ids, b) = {}
              BY <1>3, <3>2 DEF OwnedBy
        <4>2. back(b, t) = 0
              BY <4>1, SumOfEmpty DEF back
        <4>3. Spendable(b, t) \in Nat /\ Spendable(b, t)' = Spendable(b, t)
              BY <3>2, TradingShown
        <4>. QED  BY <4>2, <4>3
      <3>. QED  BY <3>1, <3>2
    <2>7. Spendable(b, t) \in Nat
          BY TradingShown
    <2>8. OwnLocks(p, book, b, t) \in Nat
          BY <2>1
    <2>. QED  BY <2>1, <2>2, <2>3, <2>4, <2>5, <2>6, <2>7, <2>8
  <1>7. TreasuryKept
    <2>1. Accounts # {}
          BY DEF CustodyInv, CustodyTypeOK
    <2>. QED  BY <1>6, <2>1 DEF TreasuryKept
  <1>. QED  BY <1>5, <1>6, <1>7, LedgerRelease

(* An order takes out of the locks of others what it fills, which is worth *)
(* something, and nothing else.                                            *)
LEMMA FilledLocks ==
  ASSUME NEW p, IsMarketParams(p), NEW n \in Nat, NEW book, IsBook(book, n), EvenBids(p, book),
         NEW o, IsNewOrder(o), NEW b, b # o.owner
  PROVE  LET new == BookAfter(p, book, o, n + 1)
         IN  /\ \A t : OwnLocks(p, new, b, t) <= OwnLocks(p, book, b, t)
             /\ \A i \in OwnFills(book, Matches(p, book, o), b) :
                  LET t == RefundToken(p, book[i])
                  IN  OwnLocks(p, new, b, t) < OwnLocks(p, book, b, t)
PROOF
  <1> DEFINE fills == Matches(p, book, o)
             open  == OpenQty(p, book, o)
             full  == FullyFilled(book, fills)
             new   == BookAfter(p, book, o, n + 1)
             old   == OwnedBy(book, DOMAIN book, b)
             kept  == OwnedBy(new, DOMAIN new, b)
  <1>1. /\ n + 1 \notin DOMAIN book /\ IsFiniteSet(old) /\ old \in SUBSET DOMAIN book
        /\ \A i \in DOMAIN book : book[i] \in RestingOrder
    <2>1. old \in SUBSET DOMAIN book
          BY DEF OwnedBy
    <2>. QED  BY <2>1, BookFinite
  <1>2. /\ DOMAIN fills \subseteq DOMAIN book
        /\ \A i \in DOMAIN fills : fills[i] \in 1 .. book[i].qty
        BY MatchesFacts
  <1>3. IsBook(new, n + 1) /\ n + 1 \in Nat
        BY BookAfterFacts
  <1>4. /\ DOMAIN new = (DOMAIN book \ full) \cup (IF open > 0 THEN {n + 1} ELSE {})
        /\ n + 1 \in DOMAIN new => new[n + 1].owner = o.owner
        /\ \A i \in DOMAIN book \ full :
             new[i] = IF i \in DOMAIN fills THEN [book[i] EXCEPT !.qty = @ - fills[i]] ELSE book[i]
        BY <1>1 DEF BookAfter
  <1>5. full = {i \in DOMAIN fills : fills[i] = book[i].qty}
        BY DEF FullyFilled
  <1> HIDE DEF fills, open, full, new
  <1>6. \A i \in DOMAIN book \ full :
          /\ new[i].owner = book[i].owner /\ new[i].side = book[i].side /\ new[i].price = book[i].price
          /\ new[i].qty = IF i \in DOMAIN fills THEN book[i].qty - fills[i] ELSE book[i].qty
    <2> TAKE i \in DOMAIN book \ full
    <2>1. book[i] \in RestingOrder
          BY <1>1
    <2>2. CASE i \in DOMAIN fills
      <3>1. new[i] = [book[i] EXCEPT !.qty = @ - fills[i]]
            BY <1>4, <2>2
      <3>2. /\ new[i].owner = book[i].owner /\ new[i].side = book[i].side /\ new[i].price = book[i].price
            /\ new[i].qty = book[i].qty - fills[i]
            BY <2>1, <3>1 DEF RestingOrder
      <3>. QED  BY <2>2, <3>2
    <2>3. CASE i \notin DOMAIN fills
          BY <1>4, <2>3
    <2>. QED  BY <2>2, <2>3
  <1>7. kept \in SUBSET old /\ \A i \in old : i \in kept <=> i \notin full
    <2>1. n + 1 \notin kept
          BY <1>4 DEF OwnedBy
    <2>2. \A i \in DOMAIN new \ {n + 1} : i \in DOMAIN book \ full
          BY <1>4
    <2>3. \A i \in DOMAIN book \ full : i \in DOMAIN new /\ i # n + 1
          BY <1>1, <1>4
    <2> HIDE DEF kept, old
    <2>4. \A i : i \in kept <=> i \in DOMAIN new /\ new[i].owner = b
          BY DEF kept, OwnedBy
    <2>5. \A i : i \in old <=> i \in DOMAIN book /\ book[i].owner = b
          BY DEF old, OwnedBy
    <2>. QED  BY <1>6, <2>1, <2>2, <2>3, <2>4, <2>5
  <1>8. ASSUME NEW t
        PROVE  /\ OwnLocks(p, new, b, t) <= OwnLocks(p, book, b, t)
               /\ \A i \in old \cap DOMAIN fills :
                    RefundToken(p, book[i]) = t => OwnLocks(p, new, b, t) < OwnLocks(p, book, b, t)
    <2> DEFINE f == Locks(p, book, t)
               g == Locks(p, new, t)
               h == [i \in old |-> IF i \in kept THEN g[i] ELSE 0]
    <2>1. \A i \in old : f[i] \in Nat /\ f[i] = In(RefundToken(p, book[i]), t, Worth(p, book[i], book[i].qty))
      <3>1. \A i \in DOMAIN book : f[i] \in Nat
            BY LockedSum
      <3>. QED  BY <1>1, <3>1 DEF Locks
    <2>2. \A i \in kept : g[i] \in Nat /\ g[i] = In(RefundToken(p, new[i]), t, Worth(p, new[i], new[i].qty))
      <3>1. \A i \in DOMAIN new : g[i] \in Nat
            BY <1>3, LockedSum
      <3>2. kept \subseteq DOMAIN new
            BY DEF OwnedBy
      <3>. QED  BY <3>1, <3>2 DEF Locks
    <2>3. /\ OwnLocks(p, new, b, t) = SumFunctionOnSet(g, kept)
          /\ OwnLocks(p, book, b, t) = SumFunctionOnSet(f, old)
          BY DEF OwnLocks
    <2>4. /\ \A i \in kept : h[i] = g[i]
          /\ \A i \in old \ kept : h[i] = 0
          /\ \A i \in old : h[i] \in Nat
          BY <1>7, <2>2
    <2> HIDE DEF f, g, h, old, kept
    <2>5. SumFunctionOnSet(g, kept) = SumFunctionOnSet(h, old)
          BY <1>1, <1>7, <2>2, <2>4, SumOfPart
    <2>6. ASSUME NEW i \in old
          PROVE  /\ h[i] <= f[i]
                 /\ i \in DOMAIN fills /\ RefundToken(p, book[i]) = t => h[i] < f[i]
      <3> DEFINE r == book[i]
                 x == fills[i]
                 rest == r.qty - x
      <3>1. /\ r.price \in Nat /\ r.qty \in Nat \ {0} /\ i \in DOMAIN book
            /\ r.side = "Buy" => IsEven(p, r.price)
            BY <1>1 DEF RestingOrder, EvenBids, OnSide
      <3>2. CASE i \notin DOMAIN fills
        <4>1. i \notin full
              BY <1>5, <3>2
        <4>2. h[i] = g[i] /\ g[i] = In(RefundToken(p, new[i]), t, Worth(p, new[i], new[i].qty))
              BY <1>7, <2>2, <2>4, <4>1
        <4>3. g[i] = f[i]
              BY <1>6, <2>1, <3>1, <3>2, <4>1, <4>2 DEF RefundToken, Worth
        <4>. QED  BY <2>1, <3>2, <4>2, <4>3
      <3>3. CASE i \in DOMAIN fills
        <4>1. x \in Nat \ {0} /\ rest \in Nat /\ rest + x = r.qty
              BY <1>2, <3>1, <3>3
        <4>2. /\ Worth(p, r, rest) \in Nat /\ Worth(p, r, x) \in Nat
              /\ Worth(p, r, rest) + Worth(p, r, x) = Worth(p, r, r.qty)
          <5>1. Worth(p, r, rest) \in Nat /\ Worth(p, r, x) \in Nat
                BY <3>1, <4>1, WorthFacts
          <5>2. Worth(p, r, rest) + Worth(p, r, x) = Worth(p, r, rest + x)
                BY <3>1, <4>1, EvenWorth
          <5>. QED  BY <4>1, <5>1, <5>2
        <4>3. Worth(p, r, x) # 0
          <5>1. \A j, k \in Nat \ {0} : j * k # 0
                OBVIOUS
          <5>2. CASE r.side = "Buy"
            <6>1. PICK w \in Nat \ {0} : \A z \in Nat : QuoteValueOfLots(p, z, r.price) = z * w
                  BY <3>1, <5>2, EvenLots
            <6>2. Worth(p, r, x) = x * w
                  BY <4>1, <5>2, <6>1 DEF Worth
            <6>. QED  BY <4>1, <5>1, <6>1, <6>2
          <5>3. CASE r.side # "Buy"
            <6>1. Worth(p, r, x) = x * p.base_lot /\ p.base_lot \in Nat \ {0}
                  BY <5>3 DEF Worth, BaseLotsToNative, IsMarketParams
            <6>. QED  BY <4>1, <5>1, <6>1
          <5>. QED  BY <5>2, <5>3
        <4>4. f[i] = In(RefundToken(p, r), t, Worth(p, r, r.qty))
              BY <2>1
        <4>5. h[i] = 0 \/ h[i] = In(RefundToken(p, r), t, Worth(p, r, rest))
          <5>1. CASE i \in full
                BY <1>7, <2>4, <5>1
          <5>2. CASE i \notin full
            <6>1. h[i] = g[i] /\ g[i] = In(RefundToken(p, new[i]), t, Worth(p, new[i], new[i].qty))
                  BY <1>7, <2>2, <2>4, <5>2
            <6>2. /\ RefundToken(p, new[i]) = RefundToken(p, r)
                  /\ Worth(p, new[i], new[i].qty) = Worth(p, r, rest)
                  BY <1>6, <3>1, <3>3, <5>2 DEF RefundToken, Worth
            <6>. QED  BY <6>1, <6>2
          <5>. QED  BY <5>1, <5>2
        <4> HIDE DEF r, x, rest
        <4>. QED  BY <4>2, <4>3, <4>4, <4>5 DEF In, r
      <3>. QED  BY <3>2, <3>3
    <2>7. \A i \in old : f[i] \in Int /\ h[i] \in Int /\ f[i] \in Nat /\ h[i] \in Nat
          BY <2>1, <2>4
    <2>8. SumFunctionOnSet(h, old) <= SumFunctionOnSet(f, old)
          BY <1>1, <2>6, <2>7, SumAtMost
    <2>9. ASSUME NEW i \in old \cap DOMAIN fills, RefundToken(p, book[i]) = t
          PROVE  SumFunctionOnSet(h, old) < SumFunctionOnSet(f, old)
      <3>1. /\ SumFunctionOnSet(h, old) = h[i] + SumFunctionOnSet(h, old \ {i})
            /\ SumFunctionOnSet(f, old) = f[i] + SumFunctionOnSet(f, old \ {i})
            BY <1>1, <2>7, SumRemove
      <3>2. IsFiniteSet(old \ {i})
            BY <1>1, SubsetFacts
      <3>3. SumFunctionOnSet(h, old \ {i}) <= SumFunctionOnSet(f, old \ {i})
            BY <2>6, <2>7, <3>2, SumAtMost
      <3>4. SumFunctionOnSet(h, old \ {i}) \in Nat /\ SumFunctionOnSet(f, old \ {i}) \in Nat
            BY <2>7, <3>2, SumNat
      <3>5. h[i] < f[i] /\ h[i] \in Nat /\ f[i] \in Nat
            BY <2>6, <2>7, <2>9
      <3>. QED  BY <3>1, <3>3, <3>4, <3>5
    <2>. QED  BY <2>3, <2>5, <2>8, <2>9
  <1>9. \A i \in OwnFills(book, fills, b) : i \in old \cap DOMAIN fills
        BY <1>2 DEF OwnFills, OwnedBy
  <1> HIDE DEF old
  <1>10. \A i \in OwnFills(book, fills, b) :
           OwnLocks(p, new, b, RefundToken(p, book[i])) < OwnLocks(p, book, b, RefundToken(p, book[i]))
         BY <1>8, <1>9
  <1>. QED  BY <1>8, <1>10 DEF new, fills

(* Who is not hit and not named as referrer is left as it was.             *)
LEMMA BystanderKept ==
  ASSUME TypeOK, NEW m \in Markets, NEW a, NEW referrer, NEW o, NEW taker,
         Places(m, a, o, referrer, taker), NEW b \in DOMAIN accounts \ {a}, b \notin referrer,
         OwnFills(markets[m].book, Matches(MarketParams[m], markets[m].book, o), b) = {}
  PROVE  \A t : Balance(accounts'[b], t) = Balance(accounts[b], t)
PROOF
  <1> DEFINE p      == MarketParams[m]
             book   == markets[m].book
             fills  == Matches(p, book, o)
             rest   == TakerFee(p.taker_rate, QuoteTraded(m, fills)) - TotalMakerRebate(m, fills)
             settled == SettleMakerFills(m, fills, o.side)
             ref    == SettleReferrer(settled, p.quote, referrer, rest)
  <1>1. /\ o.owner = a
        /\ accounts' = [ref.accounts EXCEPT ![o.owner] = taker]
        BY DEF Places, ExecuteOrder
  <1>2. DOMAIN settled = DOMAIN accounts
        /\ settled[b] = MakerAccount(m, fills, o.side, b, DOMAIN fills)
        BY DEF SettleMakerFills
  <1>3. AreFills(fills, book)
        BY MatchesAreFills
  <1> HIDE DEF settled, fills, rest, p
  <1>4. b \in DOMAIN ref.accounts /\ ref.accounts[b] = settled[b]
        BY <1>2 DEF SettleReferrer
  <1> HIDE DEF ref
  <1>5. accounts'[b] = settled[b]
        BY <1>1, <1>4
  <1>6. ASSUME NEW t
        PROVE  Balance(settled[b], t) = Balance(accounts[b], t)
    <2> DEFINE own == {i \in DOMAIN fills : markets[m].book[i].owner = b}
               credits == Credits(m, fills, o.side, t)
    <2>1. own = {}
          BY DEF OwnFills, fills, p
    <2>2. Balance(settled[b], t) = Balance(accounts[b], t) + SumFunctionOnSet(credits, own)
          BY <1>2, <1>3, MakerBalance
    <2>3. Balance(accounts[b], t) \in Nat
          BY BalanceType DEF TypeOK
    <2> HIDE DEF own, credits
    <2>4. SumFunctionOnSet(credits, own) = 0
          BY <2>1, SumOfEmpty
    <2>. QED  BY <2>2, <2>3, <2>4
  <1>. QED  BY <1>5, <1>6

(* Fees only grow.                                                         *)
LEMMA FeesGrow ==
  ASSUME TypeOK, NEW m \in Markets, NEW o, IsNewOrder(o), o.owner \in DOMAIN accounts,
         NEW referrer, NEW taker, ExecuteOrder(m, o, referrer, taker)
  PROVE  /\ markets'[m].fees_accrued >= markets[m].fees_accrued
         /\ \A k \in Markets \ {m} : markets'[k] = markets[k]
PROOF
  <1> DEFINE p      == MarketParams[m]
             fills  == Matches(p, markets[m].book, o)
             fee    == TakerFee(p.taker_rate, QuoteTraded(m, fills))
             rebate == TotalMakerRebate(m, fills)
             paid   == SettleReferrer(SettleMakerFills(m, fills, o.side), p.quote, referrer, fee - rebate).paid
             new    == BookAfter(p, markets[m].book, o, NextSequence)
  <1>1. /\ fee >= rebate /\ fee >= paid + rebate
        /\ markets' = [markets EXCEPT ![m].book = new, ![m].fees_accrued = @ + fee - rebate - paid]
        BY DEF ExecuteOrder
  <1>2. fee \in Nat /\ rebate \in Nat
    <2>1. QuoteTraded(m, fills) \in Nat /\ rebate \in Nat
          BY MatchesAreFills, FillAmounts
    <2>2. p.taker_rate \in 0 .. FeeToBpsDivisor
          BY ParamsFacts
    <2>. QED  BY <2>1, <2>2, FeeBound
  <1>3. paid \in Nat
    <2>1. fee - rebate \in Nat
          BY <1>1, <1>2
    <2> HIDE DEF fee, rebate, fills, p
    <2>. QED  BY <2>1 DEF SettleReferrer, ReferrerRebate
  <1>4. /\ markets = [k \in Markets |-> markets[k]] /\ markets[m].fees_accrued \in Nat
        /\ markets[m] \in [state : MarketStates, book : {markets[m].book}, fees_accrued : Nat,
                           minimum_bid_bps : BidWindows, maximum_ask_bps : AskWindows]
        BY DEF TypeOK, IsMarket
  <1> HIDE DEF fee, rebate, paid, new
  <1>5. \A k \in Markets \ {m} : markets'[k] = markets[k]
        BY <1>1, <1>4
  <1>6. markets'[m] = [markets[m] EXCEPT !.book = new, !.fees_accrued = @ + fee - rebate - paid]
        BY <1>1, <1>4
  <1>7. markets'[m].fees_accrued = markets[m].fees_accrued + fee - rebate - paid
        BY <1>4, <1>6
  <1>. QED  BY <1>1, <1>2, <1>3, <1>4, <1>5, <1>7

(* While no tokens move, all that a ledger shows changes by what is owed.  *)
LEMMA WholeKept ==
  ASSUME CustodyInv, CustodyInv', SameStorage, UNCHANGED custodyVars, NEW t \in Tokens, Owed(t)' = Owed(t)
  PROVE  SumFunction([b \in Accounts |-> Spendable(b, t) + Locked(b, t)])' + Treasury(t)'
           = SumFunction([b \in Accounts |-> Spendable(b, t) + Locked(b, t)]) + Treasury(t)
PROOF
  <1>1. TypeOK /\ TypeOK' /\ AreStates(markets) /\ AreStates(markets')
        BY StatesNow, StatesNext DEF CustodyInv, CustodyTypeOK
  <1>2. AreAccounts(accounts) /\ AreAccounts(accounts')
        BY <1>1 DEF AreAccounts, TypeOK
  <1>3. wallets' = wallets /\ receipts' = receipts
        BY DEF custodyVars
  <1>4. wallets \in [Accounts -> [Tokens -> Nat]] /\ IsReceiptBag(receipts)
        BY DEF CustodyInv, CustodyTypeOK
  <1>5. SumFunction([b \in Accounts |-> Spendable(b, t) + Locked(b, t)]) + Treasury(t)
          = WholeOf(wallets, accounts, markets, receipts, t)
    <2>1. \A b \in Accounts : Spendable(b, t) + Locked(b, t)
                                = SpendableOf(wallets, accounts, receipts, b, t) + LockedFor(markets, b, t)
          BY <1>1, <1>4, SpendableNow, LockedNow
    <2>2. [b \in Accounts |-> Spendable(b, t) + Locked(b, t)]
            = [b \in Accounts |-> SpendableOf(wallets, accounts, receipts, b, t) + LockedFor(markets, b, t)]
          BY <2>1
    <2>3. Treasury(t) = TreasuryOf(markets, t)
          BY <1>1, LockedNow
    <2>. QED  BY <2>2, <2>3 DEF WholeOf, SumFunction
  <1>6. SumFunction([b \in Accounts |-> Spendable(b, t) + Locked(b, t)])' + Treasury(t)'
          = WholeOf(wallets, accounts', markets', receipts, t)
    <2>0. IsReceiptBag(receipts')
          BY <1>3, <1>4
    <2>1. \A b \in Accounts : Spendable(b, t)' + Locked(b, t)'
                                = SpendableOf(wallets, accounts', receipts, b, t) + LockedFor(markets', b, t)
          BY <1>1, <1>3, <2>0, SpendableNext, LockedNext
    <2>2. [b \in Accounts |-> Spendable(b, t) + Locked(b, t)]'
            = [b \in Accounts |-> SpendableOf(wallets, accounts', receipts, b, t) + LockedFor(markets', b, t)]
          BY <2>1
    <2>3. Treasury(t)' = TreasuryOf(markets', t)
          BY <1>1, LockedNext
    <2>. QED  BY <2>2, <2>3 DEF WholeOf, SumFunction
  <1>7. PICK outside \in Nat : \A accs, states :
          AreAccounts(accs) /\ AreStates(states)
            => WholeOf(wallets, accs, states, receipts, t) = outside + TotalOf(accs, t) + DueIn(states, t)
        BY <1>4, WholeIs
  <1>8. /\ HeldBy(accounts, t) \in Nat /\ StorageIn(accounts, t) \in Nat
        /\ TotalOf(accounts, t) = HeldBy(accounts, t) + StorageIn(accounts, t)
        /\ HeldBy(accounts', t) \in Nat /\ StorageIn(accounts', t) \in Nat
        /\ TotalOf(accounts', t) = HeldBy(accounts', t) + StorageIn(accounts', t)
        BY <1>2, TotalIs
  <1>9. /\ Owed(t) = HeldBy(accounts, t) + DueIn(markets, t)
        /\ Owed(t)' = HeldBy(accounts', t) + DueIn(markets', t)
        BY OwedNow DEF OwedOf, DueIn
  <1>10. StorageIn(accounts', t) = StorageIn(accounts, t)
    <2>1. /\ DOMAIN accounts' = DOMAIN accounts
          /\ \A a \in DOMAIN accounts : accounts'[a].storage = accounts[a].storage
          BY DEF SameStorage
    <2>2. [a \in DOMAIN accounts' |-> accounts'[a].storage] = [a \in DOMAIN accounts |-> accounts[a].storage]
          BY <2>1
    <2>. QED  BY <2>2 DEF StorageIn
  <1>11. DueIn(markets, t) \in Nat /\ DueIn(markets', t) \in Nat
    <2>1. ASSUME NEW states, AreStates(states) PROVE DueIn(states, t) \in Nat
      <3> DEFINE f == [k \in Markets |-> DueOf(k, states[k], t)]
      <3>1. \A k \in Markets : f[k] \in Nat
        <4>1. \A k \in Markets : LockedOf(MarketParams[k], states[k].book, t) \in Nat
              BY <2>1, LockedSum, ParamsFacts DEF AreStates
        <4>. QED  BY <2>1, <4>1 DEF AreStates, In, DueOf
      <3>2. DueIn(states, t) = SumFunctionOnSet(f, Markets)
            BY DEF DueIn
      <3> HIDE DEF f
      <3>. QED  BY <3>1, <3>2, FinitenessAssumption, SumNat
    <2>. QED  BY <1>1, <2>1
  <1>12. /\ WholeOf(wallets, accounts, markets, receipts, t) = outside + TotalOf(accounts, t) + DueIn(markets, t)
         /\ WholeOf(wallets, accounts', markets', receipts, t)
              = outside + TotalOf(accounts', t) + DueIn(markets', t)
         BY <1>1, <1>2, <1>7
  <1>13. WholeOf(wallets, accounts', markets', receipts, t) = WholeOf(wallets, accounts, markets, receipts, t)
         BY <1>8, <1>9, <1>10, <1>11, <1>12
  <1>. QED  BY <1>5, <1>6, <1>13

(* An order is a trade.                                                    *)
LEMMA PlacesTrades ==
  ASSUME CustodyInv, CustodyInv', SameStorage, UNCHANGED custodyVars,
         AlignedBids, NoSelfReferral, AllEven, NEW m \in Markets, NEW a \in Traders,
         NEW referrer \in Optional(Referrers), NEW o, NEW taker, Places(m, a, o, referrer, taker)
  PROVE  Promises!Trade(a)
PROOF
  <1> DEFINE p     == MarketParams[m]
             book  == markets[m].book
             n     == prev_order_sequence_number
             fills == Matches(p, book, o)
             new   == BookAfter(p, book, o, n + 1)
  <1>1. /\ TypeOK /\ TypeOK' /\ AreStates(markets) /\ AreStates(markets')
        /\ IsFiniteSet(DOMAIN accounts) /\ DOMAIN accounts \subseteq Accounts
    <2>1. TypeOK /\ TypeOK'
          BY DEF CustodyInv, CustodyTypeOK
    <2>2. DOMAIN accounts \subseteq Accounts
          BY <2>1 DEF TypeOK
    <2>. QED  BY <2>1, <2>2, StatesNow, StatesNext, FinitenessAssumption, FS_Subset
  <1>2. IsMarketParams(p) /\ n \in Nat /\ IsBook(book, n) /\ EvenBids(p, book)
        BY <1>1, ParamsFacts DEF TypeOK, IsMarket, IsBook, AllEven
  <1>3. /\ IsNewOrder(o) /\ o.owner = a /\ a \in DOMAIN accounts
        /\ IsAccount(taker) /\ ExecuteOrder(m, o, referrer, taker)
        BY DEF Places
  <1>4. /\ markets'[m].fees_accrued >= markets[m].fees_accrued
        /\ \A k \in Markets \ {m} : markets'[k] = markets[k]
        BY <1>1, <1>3, FeesGrow
  <1>5. markets'[m].book = new
        BY <1>1, <1>3, ExecuteOrderFacts DEF OrderPlaced, NextSequence
  <1>6. MembersKept
        BY DEF SameStorage, MembersKept
  <1> HIDE DEF p, book, n, fills, new
  <1>7. ASSUME NEW b \in Accounts \ {a}
        PROVE  /\ \A t : OwnLocks(p, new, b, t) <= OwnLocks(p, book, b, t)
               /\ \A i \in OwnFills(book, fills, b) :
                    OwnLocks(p, new, b, RefundToken(p, book[i])) < OwnLocks(p, book, b, RefundToken(p, book[i]))
        BY <1>2, <1>3, FilledLocks DEF new, fills
  <1>8. ASSUME NEW b, NEW t
        PROVE  /\ Locked(b, t) \in Nat /\ Locked(b, t)' \in Nat
               /\ OwnLocks(p, new, b, t) \in Nat /\ OwnLocks(p, book, b, t) \in Nat
               /\ Locked(b, t)' + OwnLocks(p, book, b, t) = Locked(b, t) + OwnLocks(p, new, b, t)
               /\ Treasury(t)' >= Treasury(t)
    <2>1. /\ LockedFor(markets', b, t) + OwnLocks(p, book, b, t)
               = LockedFor(markets, b, t) + OwnLocks(p, new, b, t)
          /\ TreasuryOf(markets', t) + In(p.quote, t, markets[m].fees_accrued)
               = TreasuryOf(markets, t) + In(p.quote, t, markets'[m].fees_accrued)
          /\ TreasuryOf(markets, t) \in Nat /\ TreasuryOf(markets', t) \in Nat
          BY <1>1, <1>4, <1>5, OneMarketChanges DEF p, book
    <2>2. /\ Locked(b, t) = LockedFor(markets, b, t) /\ Treasury(t) = TreasuryOf(markets, t)
          /\ Locked(b, t)' = LockedFor(markets', b, t) /\ Treasury(t)' = TreasuryOf(markets', t)
          BY <1>1, LockedNow, LockedNext
    <2>3. LockedFor(markets, b, t) \in Nat /\ LockedFor(markets', b, t) \in Nat
          BY <1>1, LockedForType
    <2>4. OwnLocks(p, new, b, t) \in Nat /\ OwnLocks(p, book, b, t) \in Nat
      <3>1. /\ \A k \in Markets : OwnLocks(MarketParams[k], markets[k].book, b, t) \in Nat
            /\ \A k \in Markets : OwnLocks(MarketParams[k], markets'[k].book, b, t) \in Nat
            BY <1>1, LockedForType
      <3>. QED  BY <1>5, <3>1 DEF p, book
    <2>5. markets[m].fees_accrued \in Nat /\ markets'[m].fees_accrued \in Nat
          BY <1>1 DEF AreStates
    <2>6. Treasury(t)' >= Treasury(t)
          BY <1>4, <2>1, <2>2, <2>5 DEF In
    <2>. QED  BY <2>1, <2>2, <2>3, <2>4, <2>6
  <1>9. ASSUME NEW b \in Accounts \ {a}, NEW t \in Tokens
        PROVE  Spendable(b, t)' >= Spendable(b, t) /\ Locked(b, t)' <= Locked(b, t)
    <2>1. Locked(b, t)' <= Locked(b, t)
      <3>1. OwnLocks(p, new, b, t) <= OwnLocks(p, book, b, t)
            BY <1>7
      <3>. QED  BY <1>8, <3>1
    <2>2. CASE b \in DOMAIN accounts
      <3> DEFINE paid == SumFunctionOnSet(
                           Credits(m, Matches(MarketParams[m], markets[m].book, o), o.side, t),
                           OwnFills(markets[m].book, Matches(MarketParams[m], markets[m].book, o), b))
      <3>1. /\ paid \in Nat /\ Balance(accounts[b], t) \in Nat /\ Balance(accounts'[b], t) \in Nat
            /\ Balance(accounts'[b], t) >= Balance(accounts[b], t) + paid
            BY <1>1, <2>2, OthersCredited
      <3> HIDE DEF paid
      <3>2. /\ Spendable(b, t) \in Nat /\ Spendable(b, t)' \in Nat
            /\ Spendable(b, t)' + Balance(accounts[b], t) = Spendable(b, t) + Balance(accounts'[b], t)
            BY <2>2, TradingShown
      <3>. QED  BY <2>1, <3>1, <3>2
    <2>3. CASE b \notin DOMAIN accounts
      <3>1. Spendable(b, t) \in Nat /\ Spendable(b, t)' = Spendable(b, t)
            BY <2>3, TradingShown
      <3>. QED  BY <2>1, <3>1
    <2>. QED  BY <2>2, <2>3
  <1>10. ASSUME NEW b \in Accounts \ {a}
         PROVE  \/ \A t \in Tokens : Spendable(b, t)' = Spendable(b, t)
                \/ \E t \in Tokens : Locked(b, t)' # Locked(b, t)
                \/ b \in Referrers
    <2>1. CASE b \notin DOMAIN accounts
          BY <2>1, TradingShown
    <2>2. CASE b \in referrer
          BY <2>2 DEF Optional
    <2>3. CASE OwnFills(book, fills, b) # {}
      <3>1. PICK i \in OwnFills(book, fills, b) : TRUE
            BY <2>3
      <3>2. RefundToken(p, book[i]) \in Tokens
            BY ParamsFacts DEF RefundToken, p
      <3>3. OwnLocks(p, new, b, RefundToken(p, book[i])) < OwnLocks(p, book, b, RefundToken(p, book[i]))
            BY <1>7
      <3>4. PICK t \in Tokens : OwnLocks(p, new, b, t) < OwnLocks(p, book, b, t)
            BY <3>2, <3>3
      <3>5. /\ Locked(b, t) \in Nat /\ Locked(b, t)' \in Nat
            /\ OwnLocks(p, new, b, t) \in Nat /\ OwnLocks(p, book, b, t) \in Nat
            /\ Locked(b, t)' + OwnLocks(p, book, b, t) = Locked(b, t) + OwnLocks(p, new, b, t)
            BY <1>8
      <3>6. Locked(b, t)' # Locked(b, t)
            BY <3>4, <3>5
      <3>. QED  BY <3>6
    <2>4. CASE b \in DOMAIN accounts /\ b \notin referrer /\ OwnFills(book, fills, b) = {}
      <3> SUFFICES ASSUME NEW t \in Tokens PROVE Spendable(b, t)' = Spendable(b, t)
          OBVIOUS
      <3>1. Balance(accounts'[b], t) = Balance(accounts[b], t)
            BY <1>1, <2>4, BystanderKept DEF book, fills, p
      <3>2. /\ Spendable(b, t) \in Nat /\ Spendable(b, t)' \in Nat
            /\ Balance(accounts[b], t) \in Nat
            /\ Spendable(b, t)' + Balance(accounts[b], t) = Spendable(b, t) + Balance(accounts'[b], t)
            BY <2>4, TradingShown
      <3>. QED  BY <3>1, <3>2
    <2>. QED  BY <2>1, <2>2, <2>3, <2>4
  <1>11. ASSUME NEW t \in Tokens
         PROVE  SumFunction([b \in Accounts |-> Spendable(b, t) + Locked(b, t)])' + Treasury(t)'
                  = SumFunction([b \in Accounts |-> Spendable(b, t) + Locked(b, t)]) + Treasury(t)
    <2>1. Settled(m, t) /\ SettledExactly(m, t)
          BY <1>1, <1>2, OrderSettled DEF p, book
    <2>2. Owed(t)' = Owed(t)
          BY <1>1, <2>1, SettledOwed
    <2>. QED  BY <2>2, WholeKept
  <1>12. \A t \in Tokens : Treasury(t)' >= Treasury(t)
         BY <1>8
  <1>. QED  BY <1>1, <1>3, <1>6, <1>9, <1>10, <1>11, <1>12, LedgerTrade

(* Every step of trading is a step of the ledger, or shows nothing.        *)
LEMMA TradingKeepsPromises ==
  ASSUME CustodyInv, CustodyInv', Next, UNCHANGED custodyVars, AlignedBids, NoSelfReferral, AllEven
  PROVE  Promises!LedgerNext \/ UNCHANGED Promises!ledgerVars
PROOF
  <1>1. TypeOK /\ Traders \subseteq Accounts
        BY InputAssumption DEF CustodyInv, CustodyTypeOK
  <1>2. SameStorage
        BY <1>1, TradingStorage
  <1>3. CASE Switches
        BY <1>3, SwitchUnseen
  <1>4. CASE \E m \in Markets : \E ids, refunded : Cancels(m, ids, refunded)
        BY <1>2, <1>4, CancelsRelease DEF Promises!LedgerNext
  <1>5. CASE \E m \in Markets, a \in Traders, referrer \in Optional(Referrers) :
               \E o, taker : Places(m, a, o, referrer, taker)
    <2>1. PICK a \in Traders : Promises!Trade(a)
          BY <1>2, <1>5, PlacesTrades
    <2>. QED  BY <1>1, <2>1 DEF Promises!LedgerNext
  <1>. QED  BY <1>1, <1>3, <1>4, <1>5, StepKinds

(* What users do with their tokens.                                        *)
LEMMA MovingKeepsPromises ==
  ASSUME CustodyInv, CustodyInv', MoveTokens
  PROVE  Promises!LedgerNext \/ UNCHANGED Promises!ledgerVars
PROOF
  <1>1. PICK a \in Users :
          \/ \E amount \in Amounts :
               \/ DepositNear(a, amount)
               \/ \E token \in Tokens, msg \in Messages : FtTransferCall(a, token, amount, msg)
               \/ \E token \in Tokens : InternalWithdraw(a, token, amount)
          \/ \E b \in Users, registration_only \in RegistrationOnly, amount \in StorageAmounts :
               StorageDeposit(a, b, registration_only, amount)
          \/ \E amount \in StorageWithdrawals : StorageWithdraw(a, amount)
          \/ StorageUnregister(a)
        BY DEF MoveTokens
  <1>2. /\ Users \subseteq Accounts /\ Amounts \subseteq Nat \ {0} /\ StorageAmounts \subseteq Nat
        /\ RegistrationOnly \subseteq BOOLEAN
        BY CustodyAssumption
  <1>3. ASSUME NEW amount \in Amounts, DepositNear(a, amount)
        PROVE  UNCHANGED Promises!ledgerVars
        BY <1>2, <1>3, DepositUnseen
  <1>4. ASSUME NEW amount \in Amounts, NEW token \in Tokens, NEW msg \in Messages,
               FtTransferCall(a, token, amount, msg)
        PROVE  UNCHANGED Promises!ledgerVars
        BY <1>2, <1>4, SendingUnseen
  <1>5. ASSUME NEW amount \in Amounts, NEW token \in Tokens, InternalWithdraw(a, token, amount)
        PROVE  UNCHANGED Promises!ledgerVars
        BY <1>2, <1>5, WithdrawalUnseen
  <1>6. ASSUME NEW b \in Users, NEW registration_only \in RegistrationOnly,
               NEW amount \in StorageAmounts, StorageDeposit(a, b, registration_only, amount)
        PROVE  Promises!LedgerNext
    <2>1. Promises!PayStorage(a, b)
          BY <1>2, <1>6, StorageDepositGives
    <2>. QED  BY <1>2, <2>1 DEF Promises!LedgerNext
  <1>7. ASSUME NEW amount \in StorageWithdrawals, StorageWithdraw(a, amount)
        PROVE  UNCHANGED Promises!ledgerVars
        BY <1>2, <1>7, StorageWithdrawalUnseen
  <1>8. ASSUME StorageUnregister(a) PROVE Promises!LedgerNext
    <2>1. Promises!Leave(a)
          BY <1>2, <1>8, UnregisterLeaves
    <2>. QED  BY <1>2, <2>1 DEF Promises!LedgerNext
  <1>. QED  BY <1>1, <1>3, <1>4, <1>5, <1>6, <1>7, <1>8

(* What the chain does with receipts.                                      *)
LEMMA ExecutingKeepsPromises ==
  ASSUME CustodyInv, CustodyInv', Execute, RefundCredited
  PROVE  Promises!LedgerNext \/ UNCHANGED Promises!ledgerVars
PROOF
  <1>1. ASSUME NEW r \in Due("callback"), ExchangeCallbackPostWithdraw(r)
        PROVE  Promises!LedgerNext \/ UNCHANGED Promises!ledgerVars
    <2>1. /\ IsRefundDue(r) => CanCredit(RefundTarget(r), r.token, r.amount)
          /\ UNCHANGED Promises!ledgerVars \/ Promises!Forfeit(r.account, RefundTarget(r), r.token)
          BY <1>1, CallbackShown DEF RefundCredited
    <2>2. r.account \in Accounts /\ r.token \in Tokens
          BY ReceiptFacts DEF Due
    <2>3. RefundTarget(r) \in Accounts
          BY <2>2 DEF RefundTarget, CustodyInv, CustodyTypeOK
    <2>. QED  BY <2>1, <2>2, <2>3 DEF Promises!LedgerNext
  <1>2. ASSUME NEW r \in Due("notify"), FtOnTransfer(r) PROVE UNCHANGED Promises!ledgerVars
        BY <1>2, NotifyUnseen
  <1>3. ASSUME NEW r \in Due("return") \cup Due("pay"), Deliver(r)
        PROVE  UNCHANGED Promises!ledgerVars
        BY <1>3, DeliveryUnseen
  <1>4. ASSUME NEW r \in Due("transfer"), TransferSucceeds(r) \/ TransferFails(r)
        PROVE  UNCHANGED Promises!ledgerVars
        BY <1>4, TransferUnseen
  <1>. QED  BY <1>1, <1>2, <1>3, <1>4 DEF Execute

-----------------------------------------------------------------------------
(* The whole system.                                                       *)

(* At first nothing is locked and no fee has been taken.                   *)
LEMMA LedgerAtFirst ==
  ASSUME CustodyInit
  PROVE  Promises!LedgerInit
PROOF
  <1>1. CustodyInv /\ TypeOK /\ IsReceiptBag(receipts) /\ DOMAIN accounts \subseteq Accounts
        BY InvAtFirst DEF CustodyInv, CustodyTypeOK, TypeOK
  <1>2. \A m \in Markets : markets[m].book = EmptyBook /\ markets[m].fees_accrued = 0
        BY DEF CustodyInit, Init
  <1>3. ASSUME NEW b \in Accounts, NEW t \in Tokens
        PROVE  Spendable(b, t) \in Nat
    <2>1. wallets \in [Accounts -> [Tokens -> Nat]] /\ AreAccounts(accounts)
          BY <1>1 DEF CustodyInv, CustodyTypeOK, TypeOK, AreAccounts
    <2>. QED  BY <1>1, <2>1, SpendableNow, SpendableType
  <1>4. ASSUME NEW b \in Accounts, NEW t \in Tokens
        PROVE  Locked(b, t) = 0
    <2> DEFINE f == [m \in Markets |-> OwnLocks(MarketParams[m], markets[m].book, b, t)]
    <2>1. ASSUME NEW m \in Markets PROVE f[m] = 0
      <3>1. OwnedBy(markets[m].book, DOMAIN markets[m].book, b) = {}
            BY <1>2 DEF EmptyBook, OwnedBy
      <3>2. \A g : SumFunctionOnSet(g, {}) = 0
            BY SumOfEmpty
      <3>. QED  BY <3>1, <3>2 DEF OwnLocks
    <2>2. Locked(b, t) = SumFunctionOnSet(f, Markets)
          BY <1>1, LockedNow DEF LockedFor
    <2> HIDE DEF f
    <2>. QED  BY <2>1, <2>2, FinitenessAssumption, SumOfZeros
  <1>5. ASSUME NEW t \in Tokens
        PROVE  SumFunction([m \in Markets |-> FeesHeld(m, t)]) = 0
    <2> DEFINE f == [m \in Markets |-> FeesHeld(m, t)]
    <2>1. SumFunction(f) = SumFunctionOnSet(f, Markets)
          BY DEF SumFunction
    <2>2. \A m \in Markets : f[m] = 0
          BY <1>2 DEF FeesHeld
    <2> HIDE DEF f
    <2>3. SumFunctionOnSet(f, Markets) = 0
          BY <2>2, FinitenessAssumption, SumOfZeros
    <2>. QED  BY <2>1, <2>3 DEF f
  <1>. QED  BY <1>1, <1>3, <1>4, <1>5 DEF Promises!LedgerInit, Promises!Nothing

(* Every step of the exchange is a step of the ledger, or shows nothing.   *)
LEMMA StepKeepsPromises ==
  ASSUME CustodyInv, CustodyInv', [CustodyNext]_allVars, RefundCredited,
         AlignedBids, NoSelfReferral, AllEven
  PROVE  Promises!LedgerNext \/ UNCHANGED Promises!ledgerVars
PROOF
  <1>1. CASE MoveTokens
        BY <1>1, MovingKeepsPromises
  <1>2. CASE Execute
        BY <1>2, ExecutingKeepsPromises
  <1>3. CASE \E a \in OwnersTried : SetOwner(a)
        BY <1>3, HandoverUnseen DEF SetOwner
  <1>4. CASE UNCHANGED allVars
        BY <1>4, HandoverUnseen DEF allVars, custodyVars
  <1>5. CASE \/ Switch /\ UNCHANGED custodyVars
             \/ \E m \in Markets : NewLimitBuy(m) /\ UNCHANGED custodyVars
             \/ \E m \in Markets : NewLimitSell(m) /\ UNCHANGED custodyVars
             \/ \E m \in Markets : NewMarketOrder(m) /\ UNCHANGED custodyVars
             \/ \E m \in Markets : Cancel(m) /\ UNCHANGED custodyVars
             \/ \E m \in Markets : Admin(m) /\ UNCHANGED custodyVars
    <2>1. Next /\ UNCHANGED custodyVars
          BY <1>5 DEF Next, NewOrder
    <2>. QED  BY <2>1, TradingKeepsPromises
  <1>. QED  BY <1>1, <1>2, <1>3, <1>4, <1>5 DEF CustodyNext

(* The exchange keeps the promises of Ledger: what an account can spend    *)
(* and what its orders lock, in its wallet, on the exchange and in flight  *)
(* together, changes by its own orders, by orders that trade with it, by   *)
(* storage it pays for others and by cancelling, and by nothing else.      *)
(* Deposits, withdrawals and transfers that fail are not visible, whatever *)
(* happens between their receipts and in whatever order these are executed;*)
(* nobody leaves with orders open, and no step creates or loses a token.   *)
(* It is promised where tokens are not lost (see NothingStrandedHolds):    *)
(* bids that trade at whole amounts (AlignedBids), nobody its own referrer,*)
(* and a callback with a refund to make that finds somebody to credit.     *)
THEOREM KeepsPromisesHolds ==
  ASSUME AlignedBids, NoSelfReferral
  PROVE  CustodySpec /\ [][RefundCredited]_allVars => KeepsPromises
PROOF
  <1>1. CustodyInit => Promises!LedgerInit /\ AllEven
    <2>1. CustodyInit => AllEven
          BY DEF AllEven, EvenBids, OnSide, CustodyInit, Init, EmptyBook
    <2>. QED  BY <2>1, LedgerAtFirst
  <1>2. CustodyInv /\ AllEven /\ [CustodyNext]_allVars /\ [RefundCredited]_allVars
          => AllEven' /\ [Promises!LedgerNext]_(Promises!ledgerVars)
    <2>1. ASSUME CustodyInv, AllEven, [CustodyNext]_allVars, RefundCredited
          PROVE  AllEven' /\ (Promises!LedgerNext \/ UNCHANGED Promises!ledgerVars)
          BY <2>1, InvInStep, StepKeepsPromises
    <2>2. ASSUME CustodyInv, AllEven, UNCHANGED allVars
          PROVE  AllEven' /\ UNCHANGED Promises!ledgerVars
      <3>1. markets' = markets /\ UNCHANGED <<vars, wallets, held, receipts>>
            BY <2>2 DEF allVars, vars, custodyVars
      <3>2. CustodyInv'
            BY <2>2, InvInStep
      <3>. QED  BY <2>2, <3>1, <3>2, HandoverUnseen DEF AllEven
    <2>. QED  BY <2>1, <2>2
  <1>. QED  BY <1>1, <1>2, InvHolds, PTL DEF CustodySpec, KeepsPromises, Promises!LedgerSpec
=============================================================================
