----------------------------- MODULE Orderbook -----------------------------
(***************************************************************************)
(* The limit orderbook of one market.  The matching engine itself is the   *)
(* tonic_sdk library; it is modelled here from how the contract calls it   *)
(* (Market::place_order, cancel_order, find_bbo) and what it does with the *)
(* result (PlaceOrderResult, Match).                                       *)
(*                                                                         *)
(* A book is a partial map from order ids to resting orders.  Ids are the  *)
(* sequence numbers of the contract, so a smaller id is an older order.    *)
(* A new order has                                                         *)
(*   owner, side, type                                                     *)
(*   limit   {limit price in lots}, or {} for a market order               *)
(*   qty     lots of base wanted                                           *)
(*   quote   {most quote lots to spend}, or {} when unbounded              *)
(***************************************************************************)
EXTENDS Lots, FiniteSets, Functions

CONSTANT Accounts

Sides == {"Buy", "Sell"}

LimitOrderTypes == {"Limit", "PostOnly", "ImmediateOrCancel", "FillOrKill"}

RestingOrder == [owner : Accounts, side : Sides, price : Nat, qty : Nat \ {0}]

OnSide(book, side) == {i \in DOMAIN book : book[i].side = side}

(* find_bbo: the best price of a side, {} when the side is empty.          *)
BestPrice(book, side) ==
  {book[i].price : i \in {i \in OnSide(book, side) :
     \A j \in OnSide(book, side) : IF side = "Buy" THEN book[j].price <= book[i].price
                                                   ELSE book[j].price >= book[i].price}}

(* The resting orders the limit price of o crosses.                        *)
Makers(book, o) ==
  {i \in DOMAIN book :
     /\ book[i].side # o.side
     /\ \A l \in o.limit : IF o.side = "Buy" THEN book[i].price <= l
                                             ELSE book[i].price >= l}

(* Price-time priority among orders of one side.                           *)
Precedes(book, i, j) ==
  \/ IF book[i].side = "Buy" THEN book[i].price > book[j].price
                             ELSE book[i].price < book[j].price
  \/ book[i].price = book[j].price /\ i < j

Ahead(book, o, i) == {j \in Makers(book, o) : Precedes(book, j, i)}

(* Lots of maker i that o takes: every lot that o still wants and can pay  *)
(* for once all that is ahead of i has been taken.  When something ahead   *)
(* of i is not taken in full, nothing of i is.                             *)
LotsFilled(p, book, o, i) ==
  LET ahead == Ahead(book, o, i)
      taken == SumFunction([j \in ahead |-> book[j].qty])
      spent == SumFunction([j \in ahead |-> QuoteValueOfLots(p, book[j].qty, book[j].price)])
  IN  Cardinality({n \in 1 .. book[i].qty :
        /\ taken + n <= o.qty
        /\ \A c \in o.quote :
             spent + QuoteValueOfLots(p, n, book[i].price) <= QuoteLotsToNative(p, c)})

(* What o would take if nothing but price and quantity decided.            *)
Crossed(p, book, o) ==
  LET hit == {i \in Makers(book, o) : LotsFilled(p, book, o, i) > 0}
  IN  [i \in hit |-> LotsFilled(p, book, o, i)]

(* OrderOutcome::Rejected                                                  *)
Rejected(p, book, o) ==
  \/ o.type = "PostOnly" /\ Makers(book, o) # {}
  \/ o.type = "FillOrKill" /\ SumFunction(Crossed(p, book, o)) < o.qty

(* The matches of o: a map from maker order ids to the lots filled.        *)
Matches(p, book, o) ==
  IF Rejected(p, book, o) THEN [i \in {} |-> 0] ELSE Crossed(p, book, o)

(* Lots that stay in the book as a new order (open_qty_lots).              *)
OpenQty(p, book, o) ==
  IF o.type \in {"Limit", "PostOnly"} /\ ~ Rejected(p, book, o)
    THEN SaturatingSub(o.qty, SumFunction(Matches(p, book, o)))
    ELSE 0

(* The engine panics when an order would match one of its own owner's.     *)
IsSelfTrade(book, o, fills) == \E i \in DOMAIN fills : book[i].owner = o.owner

FullyFilled(book, fills) == {i \in DOMAIN fills : fills[i] = book[i].qty}

(* The book after o, with sequence number id, has been placed.             *)
BookAfter(p, book, o, id) ==
  LET fills == Matches(p, book, o)
      open  == OpenQty(p, book, o)
      rest  == [owner |-> o.owner, side |-> o.side,
                price |-> CHOOSE l \in o.limit : TRUE, qty |-> open]
      ids   == (DOMAIN book \ FullyFilled(book, fills)) \cup (IF open > 0 THEN {id} ELSE {})
  IN  [i \in ids |->
         IF i = id THEN rest
         ELSE IF i \in DOMAIN fills THEN [book[i] EXCEPT !.qty = @ - fills[i]]
         ELSE book[i]]

RemoveOrders(book, ids) == [i \in DOMAIN book \ ids |-> book[i]]

(* Iteration order of the whole book: asks, then bids, best first.         *)
IteratedBefore(book, i, j) ==
  \/ book[i].side = "Sell" /\ book[j].side = "Buy"
  \/ book[i].side = book[j].side /\ Precedes(book, i, j)
=============================================================================
