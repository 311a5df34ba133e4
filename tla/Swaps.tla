------------------------------- MODULE Swaps -------------------------------
(***************************************************************************)
(* Swaps (swap_order.rs) over Custody: market orders, chained from market  *)
(* to market, that are paid with tokens sent along with the call instead   *)
(* of an exchange account and whose output is sent back to the caller.     *)
(*                                                                         *)
(* NEAR is swapped by swap_near, fungible tokens by ft_on_transfer with a  *)
(* message, a receipt that runs after the tokens have arrived: a panic     *)
(* anywhere in the chain undoes all of it and the tokens go back.  A swap  *)
(* is a record                                                             *)
(*   market, side                                                          *)
(*   min_out    {least output accepted}, or {} for any                     *)
(*   referrer   {account}, or {}                                           *)
(* and the state a chain of swaps works on is a record of the variables it *)
(* changes, the token and amount it holds, and whether it has not panicked.*)
(* The signer of the transaction, whom the engine takes for the taker, is  *)
(* the account that sends the tokens.                                      *)
(***************************************************************************)
EXTENDS Custody, SequencesExt

CONSTANT NearSwaps   \* chains of swaps tried with swap_near

SwapActions ==
  [market : Markets, side : Sides, min_out : SUBSET Nat, referrer : Optional(Accounts)]

ASSUME SwapsAssumption == \A swaps \in Messages \cup NearSwaps : swaps \in Seq(SwapActions)

(* The operators of Exchange in a state between two swaps.                 *)
At(st) == INSTANCE Exchange WITH accounts <- st.accounts, markets <- st.markets,
                                 prev_order_sequence_number <- st.sequence

(* The largest u128: the quantity of a swap that buys, before `as u64`.    *)
U128Max == (U64Max + 1) * (U64Max + 1) - 1

InputToken(w) ==
  IF w.side = "Buy" THEN MarketParams[w.market].quote ELSE MarketParams[w.market].base

OutputToken(w) ==
  IF w.side = "Buy" THEN MarketParams[w.market].base ELSE MarketParams[w.market].quote

(* Variant: a swap that buys asks for no more than its input.              *)
SwapOrder_InputQuantity(a, w, amount) ==
  LET p == MarketParams[w.market]
  IN  [owner |-> a, side |-> w.side, type |-> "Market", limit |-> {},
       qty   |-> BaseNativeToLots(p, amount),
       quote |-> IF w.side = "Sell" THEN {}
                 ELSE {QuoteNativeToLots(p, WithholdTakerFee(p.taker_rate, amount))}]

SwapOrder(a, w, amount) ==
  LET p == MarketParams[w.market]
  IN  [owner |-> a, side |-> w.side, type |-> "Market", limit |-> {},
       qty   |-> BaseNativeToLots(p, IF w.side = "Buy" THEN U128Max ELSE amount),
       quote |-> IF w.side = "Sell" THEN {}
                 ELSE {QuoteNativeToLots(p, WithholdTakerFee(p.taker_rate, amount))}]

(* Variant: the accounts are those from before the first swap.             *)
SettleSwap_Stale(st, w, fills, rest) ==
  SettleReferrer(SettleMakerFills(w.market, fills, w.side), MarketParams[w.market].quote,
                 w.referrer, rest)

SettleSwap(st, w, fills, rest) ==
  SettleReferrer(At(st)!SettleMakerFills(w.market, fills, w.side),
                 MarketParams[w.market].quote, w.referrer, rest)

(* What internal_swap makes of the fills of its order o.                   *)
SwapOutcome(st, w, o, fills) ==
  LET p      == MarketParams[w.market]
      traded == At(st)!QuoteTraded(w.market, fills)
      fee    == TakerFee(p.taker_rate, traded)
      rebate == At(st)!TotalMakerRebate(w.market, fills)
  IN  [order |-> o, fills |-> fills, traded |-> traded, fee |-> fee, rebate |-> rebate,
       settled |-> SettleSwap(st, w, fills, fee - rebate),
       output |-> IF w.side = "Buy" THEN At(st)!BaseTraded(w.market, fills) ELSE traded - fee]

(* internal_swap by a: the order, what it trades and how it is settled.    *)
InternalSwap(st, a, w) ==
  LET o == SwapOrder(a, w, st.amount)
  IN  SwapOutcome(st, w, o, Matches(MarketParams[w.market], st.markets[w.market].book, o))

(* None of the panics of execute_swap_action and what it calls.  The bound *)
(* on order numbers makes a swap fail, as running out of gas does.         *)
CanSwap(st, a, w, swap) ==
  /\ st.sequence < MaxSequence
  /\ st.markets[w.market].state = "Active"
  /\ st.token = InputToken(w)
  /\ ~ IsSelfTrade(st.markets[w.market].book, swap.order, swap.fills)
  /\ At(st)!MakersCovered(w.market, swap.fills, w.side)
  /\ swap.fee >= swap.rebate                         \* or the subtraction underflows
  /\ swap.fee >= swap.settled.paid + swap.rebate    \* "over-counted fees"
  /\ w.side = "Buy" => st.amount >= swap.traded + swap.fee   \* or input_refund underflows
  /\ \A least \in w.min_out : swap.output >= least   \* EXCEEDED_SLIPPAGE_TOLERANCE

(* execute_swap_action.  What was not used of the input is dropped.        *)
ApplySwap(st, a, w, swap) ==
  IF st.ok /\ CanSwap(st, a, w, swap)
    THEN [accounts |-> swap.settled.accounts,
          markets  |-> [st.markets EXCEPT
            ![w.market].book =
               BookAfter(MarketParams[w.market], @, swap.order, At(st)!NextSequence),
            ![w.market].fees_accrued = @ + swap.fee - swap.rebate - swap.settled.paid],
          sequence |-> At(st)!NextSequence,
          token    |-> OutputToken(w),
          amount   |-> swap.output,
          ok       |-> TRUE]
    ELSE [st EXCEPT !.ok = FALSE]

ExecuteSwapAction(st, a, w) == ApplySwap(st, a, w, InternalSwap(st, a, w))

(* The chain of swaps, from the present state.                             *)
ExecuteSwaps(a, swaps, token, amount) ==
  FoldLeft(LAMBDA st, w : ExecuteSwapAction(st, a, w),
           [accounts |-> accounts, markets |-> markets,
            sequence |-> prev_order_sequence_number, token |-> token, amount |-> amount,
            ok |-> /\ contract_state = "Active"
                   /\ swaps # <<>> /\ Last(swaps).min_out # {}],
           swaps)

CommitSwaps(st) ==
  /\ accounts' = st.accounts
  /\ markets' = st.markets
  /\ prev_order_sequence_number' = st.sequence
  /\ UNCHANGED <<contract_state, owner_id>>

(* bag with the output of a chain of swaps on its way to a (internal_send).*)
SendOutput(bag, a, st) ==
  IF st.amount = 0 THEN bag
                   ELSE Bag!BagAdd(bag, MakeReceipt("transfer", a, st.token, st.amount, TRUE))

SwapNear(a, swaps, amount) ==
  \E st \in {ExecuteSwaps(a, swaps, Near, amount)} :
      /\ MayCall
      /\ st.ok
      /\ TakeIn(a, Near, amount)
      /\ receipts' = SendOutput(receipts, a, st)
      /\ CommitSwaps(st)

(* ft_on_transfer with a message that asks for swaps.                      *)
FtOnTransferSwap(r) ==
  \E st \in {ExecuteSwaps(r.account, r.msg, r.token, r.amount)} :
      /\ r.msg # <<>>
      /\ IF st.ok
           THEN /\ receipts' = SendOutput(Bag!BagRemove(receipts, r), r.account, st)
                /\ CommitSwaps(st)
           ELSE receipts' = SendBack(r) /\ UNCHANGED <<vars, owner_id>>
      /\ UNCHANGED <<wallets, held>>

SwapsNext ==
  \/ CustodyNext
  \/ \E a \in Users, swaps \in NearSwaps, amount \in Amounts : SwapNear(a, swaps, amount)
  \/ \E r \in Due("notify") : FtOnTransferSwap(r)

SwapsSpec == CustodyInit /\ [][SwapsNext]_allVars
-----------------------------------------------------------------------------
(* Properties.                                                             *)

(* A swap that buys takes all that its input can pay for: asking for       *)
(* u128::MAX, truncated to 64 bits of lots, never limits it.               *)
SwapBuysAllItAffords ==
  \A m \in Markets, a \in Users, amount \in Amounts :
    LET p     == MarketParams[m]
        book  == markets[m].book
        o     == SwapOrder(a, [market |-> m, side |-> "Buy"], amount)
        total == SumFunction([i \in OnSide(book, "Sell") |-> book[i].qty])
    IN  Matches(p, book, o) = Matches(p, book, [o EXCEPT !.qty = total])

(* Orders leave receipts and the exchange's tokens alone, swaps do not.    *)
SwapsExecuted ==
  /\ prev_order_sequence_number' # prev_order_sequence_number
  /\ receipts' # receipts \/ held' # held

(* "Swaps are market orders using the taker's wallet balance"              *)
(* (swap_order.rs:3): no account of the exchange pays for a swap, not even *)
(* that of its sender, and every maker the chain has passed through keeps  *)
(* what each of the swaps has paid it.                                     *)
SwapsPaidFromWallet ==
  [][SwapsExecuted =>
       /\ PayingAccounts = {}
       /\ \A a \in DOMAIN accounts : MadeWhole(a)]_allVars
=============================================================================
