----------------------------- MODULE MCCustody -----------------------------
(***************************************************************************)
(* Instances of Custody for TLC.  The base token is NEAR.                  *)
(***************************************************************************)
EXTENDS Custody, MCExchange

(* An order is for one lot of 4 units and worth 4 of the quote token; the  *)
(* taker pays a fee of 1.                                                  *)
CustodyParams ==
  [m \in Markets |-> [Pair(base, quote) EXCEPT !.base_lot = 4, !.base_denomination = 4]]

DepositsOnly == {<<>>}

(* The owner carol has an empty account.                                   *)
SmallAccounts ==
  (alice :> Registered(quote :> 4, 1000))
  @@ (bob :> Registered(base :> 4, 1000))
  @@ (carol :> Registered(<<>>, 1000))

(* alice pays for one token and one order and nothing more.                *)
BareAccounts ==
  (alice :> Registered(quote :> 4, Bytes(1, 1, 1)))
  @@ (bob :> Registered(base :> 4, Bytes(2, 0, 0)))

TraderWallets ==
  [a \in Accounts |-> [t \in Tokens |-> IF a = alice THEN 4 ELSE 0]]
=============================================================================
