# TLA+ model of tonic-dex

tonic-dex is an orderbook exchange that runs as one smart contract on NEAR. Users
register an account by paying for its storage, deposit NEAR or fungible tokens,
place and cancel orders in markets, and withdraw. This directory models the
contract's core in TLA+, model-checks it on small instances with TLC and proves
facts about it for all instances with TLAPS. Paths below are relative to
`tonic-dex/src/` unless they say otherwise.

## The system

| Component | State | Operations | Source |
|---|---|---|---|
| Contract | `state`, `owner_id`, `prev_order_sequence_number` | `set_contract_state`, `set_owner`, order numbering | `lib.rs`, `admin.rs` |
| Account | `balances`, `open_orders`, `storage_balance` | deposit, withdraw, list and strike orders; every save checks the storage it needs | `account/` |
| Market | `state`, price windows, lot sizes, fee rates, `fees_accrued`, the book | lot conversions, state switches | `market/v1.rs`, `admin.rs` |
| Matching engine | resting orders | place, cancel, best price | the `tonic_sdk` library, not in this repository |
| Placement | | limit bid, limit ask, market order | `limit_order.rs`, `market_order.rs` |
| Settlement | | credit makers, pay the referrer, accrue fees | `settlement.rs`, `fees.rs` |
| Cancellation | | one order, all of an account's, the owner's forced cancels, clearing a book | `market/mod.rs` |
| Custody | tokens held by the contract, receipts in flight | `deposit_near`, `ft_on_transfer`, `withdraw_*`, `exchange_callback_post_withdraw` | `balances.rs`, `external_tokens/token_receiver.rs` |
| Storage management | | register, top up, withdraw, unregister | `storage_manager.rs` |
| Swaps | | chained market orders paid from the caller's wallet, their output sent back | `swap_order.rs` |
| Market life cycle | which markets exist, decimals known so far, `Uninitialized` until the metadata arrives | `create_market`, `on_ft_metadata`, `on_mt_metadata`, `admin_delete_market` | `market/mod.rs`, `external_tokens/external_tokens.rs` |
| Batches | | `execute` runs a list of actions | `actions.rs` |

The parts of one contract call each other directly and share the stored state.
A call is one receipt: it runs alone and a panic undoes all of it. Concurrency
comes from the calls *between* contracts. A withdrawal debits the account,
promises a transfer and is answered by a callback, in three receipts with anything
in between; a fungible-token deposit moves the tokens in the token contract first
and only then calls the exchange; creating a market waits for up to two metadata
callbacks.

What is hard here:

* **Copies.** A call loads accounts and the market, works on the copies and saves
  them at the end. An account that takes part in two roles (taker and referrer,
  maker of several orders hit at once) is loaded more than once.
* **Two lists of orders.** The book and the accounts' own lists change in different
  functions and must stay equal.
* **Rounding.** Lots, quote values, fees per order and rebates per fill all round
  down, and locking, filling and refunding an order compute its value separately.
* **Storage.** Every save can panic for lack of storage, in a maker's, referrer's
  or owner's account as well as the caller's own.
* **Promises.** Transfers fail; meanwhile the account may trade, take its storage
  out or unregister, and the owner may change. Metadata callbacks arrive in any
  order, late, or for a market that was deleted and created again.
* **Swaps.** A chain of market orders meets the same makers and markets again, has
  no account to pay from, and is undone as a whole after its tokens have arrived.

## Modules

| Module | Contents |
|---|---|
| `Fees` | Fee arithmetic of `fees.rs` |
| `Lots` (extends `Fees`) | Lot conversions with their u64 truncation, quote values, refunds |
| `Account` | The account record and its operations, including its size in storage |
| `Orderbook` (extends `Lots`) | External model of the engine: which orders match, what is filled, what rests |
| `Exchange` (extends `Account`, `Orderbook`) | The trading core: placement, settlement, cancellation, the owner's switches; its properties |
| `Ledger` | Abstract: what the exchange promises its users, without books, storage or receipts |
| `Custody` (extends `Exchange`) | Tokens and storage deposits moving in and out, receipts in flight; implements `Ledger` |
| `Swaps` (extends `Custody`) | `swap_near` and the swaps asked for by the message of `ft_on_transfer` |
| `Lifecycle` (extends `Exchange`) | Markets created, activated by metadata callbacks, deleted and created again |
| `MCExchange`, `MCCustody`, `MCSwaps`, `MCLifecycle` | Instances for TLC |
| `BookTheorems` | Sums over finite sets; bounds of fees, rebates and conversions; what the engine's matches and the account operations preserve |
| `ExchangeProofs` | Types, book and account lists, order numbers, order limit, storage coverage, orders that can always be paid back |
| `SolvencyProofs` | Solvency and conservation; who pays for an order and what the makers it meets get; orders paid from outside |
| `MatchingProofs` | The uncrossed book and the maximum debit of bids |
| `LifecycleProofs` | Books, limits and order numbers while markets come and go |
| `CustodyProofs` | Types, accounts, backing and stranded tokens while tokens, storage and accounts come and go |
| `LedgerProofs` | `Custody` implements `Ledger` |
| `SwapsProofs` | Types, accounts, backing and makers under chains of swaps |

**Correspondence.** `contract_state`, `accounts`, `markets` and
`prev_order_sequence_number` are the fields of `Contract`; an account and a market
are records with the source's field names. A public method is one action. Each
early return, `require!`, `_assert!`, `unwrap` and panicking subtraction is a
conjunct of its guard: a call that panics changes nothing, so it is a step that is
not taken. `ExecuteOrder` is the part the three placing functions share (match,
settle makers, settle the referrer, accrue fees, save the taker); saving the taker
last, from the copy loaded first, is the line `![o.owner] = taker`.

In `Custody` a receipt in flight is an element of the bag `receipts`. `wallets` and
`held` are the ledgers of the token contracts and of the chain. A panicking
`ft_on_transfer` makes the token contract return the tokens, a panicking callback
just ends.

In `Swaps` a chain of swaps is a fold (`ExecuteSwaps`) over a record of the state it
works on: the accounts, markets and counter as the previous swap left them, the
token and amount in hand, and whether it has panicked. The settlement operators of
`Exchange` are reused on that state through the parameterised instance `At(st)`.
The step commits all of the record or none of it.

In `Lifecycle`, `created` is the set of keys of `Contract.markets`, `known` the
decimals that are not `INVALID_DECIMALS`, and `metadata` counts the callbacks in
flight for each side of a market.

**Abstractions.** Tokens, accounts and markets are model values. An order's id is
its sequence number (the source packs side, price and number in 128 bits; the
number alone makes ids unique). The size and time stamp beside an order id on the
account, events, views and client ids are left out. Storage is counted in bytes,
one unit of NEAR paying for one; a balance entry has the same size for every
token. The one yoctoNEAR attached to calls and the gas are left out. `u128`
overflow, which panics, is not reached by the amounts used; the `as u64`
truncation of lots is `AsU64`, with the bound `U64Max`. A market's id is made of its
tokens and lot sizes (`market/mod.rs:87`), so one created again under an id has the
same; that it might have other fee rates is left out. In swaps the signer, whom the
engine takes for the taker (`swap_order.rs:99`), is the account that sends the
tokens. Definitions whose name has a suffix after an underscore
(`MakerAccount_Stale`, ...) are not part of the specification: each is a wrong
version of the definition it is named after, kept to show that a property tells
the two apart.

**The engine.** Matching is price-time priority, stops at the first order not
taken in full, never spends more quote than it was given, and panics when an order
would match one of its owner's. These are the facts the contract relies on and its
tests (`../tests/trading.rs`, `../tests/stress.rs`) exercise.

## What is checked

Passing runs:

| Run | Question | Properties |
|---|---|---|
| `trading` | Does trading at prices in whole lots move tokens correctly? | `TypeOK`, `Conserved`, `BookNotCrossed`, `OnlyTheTakerPays`, `MakersMadeWhole` |
| `limits` | Is the exchange solvent when everything rounds and storage is scarce, and can orders always leave the book? | `Solvent`, `BidNeverOverspends`, `AccountsCovered`, `AlwaysCancellable` |
| `markets` | Do book and account lists stay in step under every cancel and switch while the market is activated, deleted and created again? | `LifecycleTypeOK`, `BooksMatchAccounts`, `OrderLimit`, `OrdersOnlyShrink`, `MarketsActivate` |
| `swaps` | Do chained swaps leave every account whole and every debt backed? | `Backed`, `AccountsCovered`, `AlwaysCancellable`, `BooksMatchAccounts`, `SwapBuysAllItAffords`, `SwapsPaidFromWallet` |
| `moves` | Does moving tokens keep everybody's claim, with ample storage, and does every transfer end? | `CustodyTypeOK`, `NothingStranded`, `BooksMatchAccounts`, `KeepsPromises`, `ReceiptsSettle` |

Each property of a passing run is also checked against a wrong version of the code
(the `_Suffix` definitions), which it must reject.

Runs that show a disagreement between the code and what it says of itself:

| Run | What happens |
|---|---|
| `self_referral` | A taker that refers itself loses the rebate: it is saved to its account, overwritten by the taker's copy, and not counted as fee either (`Conserved`) |
| `unaligned` | A bid at a price that is not a whole number of quote lots locks more than its fills and refund return (`Conserved`) |
| `fillable` | A bid of an account with exactly the required storage cannot be filled in part, since the maker's save panics (`RestingOrderFillable`) |
| `stranded` | A withdrawal that fails is lost when its account has meanwhile taken out the storage it freed (`ClaimsKept`) |
| `swap_refund` | What a swap does not use of its input is dropped: held by the exchange, owed to nobody (`NothingStranded`) |
| `deleted_orders` | The owner makes a market with orders `Uninitialized` and deletes it; the accounts still list the orders (`BooksMatchAccounts`) |
| `reactivated` | A metadata callback activates a market that the owner has paused (`PauseHolds`) |

`Conserved` (nothing is lost) fails on the first two inputs and holds without them;
`Solvent` (nothing is created) holds with them. `NothingStranded` and `ClaimsKept`
fail with storage withdrawals or swaps in between and hold without; `Backed` holds
with them. `BooksMatchAccounts` fails only when the owner sets a market back to
`Uninitialized`.

**Refinement.** `Ledger` knows members and, for each account and token, an amount
free and an amount locked. Orders, cancels, storage paid for others and leaving
change them; a deposit, a withdrawal, a transfer that fails and a deposit that is
refused are invisible. `KeepsPromises` (run `moves`) says that `Custody` implements
it, with `free` mapped to what an account has in its wallet, on the exchange, in
flight and as storage, and `locked` to the refunds of its resting orders. One step
of `Ledger` may surprise: `Forfeit` is the callback of a failed withdrawal whose
account has unregistered, which credits the owner.

**Fairness.** The contract does nothing by itself, so the only fairness assumed is
the chain's: every receipt is executed. `FairCustodySpec` has weak fairness of
`Execute`, which is enough for `ReceiptsSettle` (at most `MaxReceipts` are in flight
and executing one leaves fewer steps to the end of its transfer); `LifecycleSpec`
has weak fairness of each callback (`CallbacksArrive`), under which `MarketsActivate` holds.
Nothing is assumed about users: `ReceiptsSettle` speaks of behaviours in which they
stop moving tokens. `MarketsActivate` speaks of markets that the owner does not delete
first, and its run has an owner that switches a market to any state but
`Uninitialized` (`MarketStatesTried`): one that sets it back to that state takes the
activation back, and no callback comes again.

**Bounds.** Two traders and a third account that refers or owns; one market, or, for
swaps, two that share a token (the base of one is the quote of the other). The fee
divisor is 8 with a taker rate of 2 and a maker rate of 1, so fees and rebates are
nonzero and round on amounts of 4 to 16; `U64Max` is 1000.

* `trading`: two prices, two quantities, three orders (`MaxSequence`), enough for one
  taker to hit two orders of one maker, or for two takers to share one order, with
  cancels in between. The traders start with equal balances and are interchangeable.
  One referrer can be paid and has tokens that a wrong debit could take; the storage of
  the other holds no token. `OnlyTheTakerPays` and `MakersMadeWhole` ask whose call of
  `new_order` a step is, by trying every call (`PlacesOrder`), which makes them slow to
  check; a fourth order is tried by `limits`, and the theorems below hold for any number.
* `limits`: prices 3, 4 and 6 at a quote lot of 3 and a base denomination of 2, so
  that prices, fills, locks and refunds all round; accounts start with the bytes for
  two orders and little more. Sizes are those of the source (134, 87, 196 and 117
  bytes).
* `markets`: three orders of every type, `max_orders` of 1 so that the limit is
  reached, two callbacks in flight per side so that one of a deleted market is still
  on its way when the market is created again.
* `moves`: two receipts in flight, which lets a callback wait while another
  withdrawal or deposit happens; storage is ample and not withdrawn, since
  otherwise `NothingStranded` fails (run `stranded`).
* `swaps`: sizes are scaled to 3, 2, 4 and 3 so that a unit of NEAR deposited matters
  against them; two markets, two receipts, four orders or swaps.

## What is proved

For all accounts, tokens, markets, orders, prices, rates and bounds, from the
assumptions on the constants in `Fees`, `Lots`, `Account`, `Exchange`, `Custody` and
`Lifecycle` (all checked by TLC on every instance: lot sizes, denominations and `max_orders` are
positive, rates lie between 0 and the divisor, a maker rate is below its taker rate
or both are 0, there are finitely many accounts and markets, a balance entry takes
no more storage than an order, initial accounts are well formed, list no orders and
are covered):

* `TypeCorrect == Spec => []TypeOK`. Inductive as it stands. The work is in
  showing that no debit, fee or fill exceeds what it is taken from, which is where
  `FeeBound` and the bounds of the engine's fills enter, and that a new order's
  number is new in every book.
* `BooksMatch == Spec => []BooksMatchAccounts`. Inductive together with `TypeOK`,
  which says that resting numbers lie at or below the counter, so that posting
  cannot overwrite an order. Every step is first reduced to one of three shapes
  (`StepFacts`): an order was placed, some orders were cancelled, or a switch was
  changed; each shape then moves book and lists alike. That settlement strikes
  exactly the filled orders of each maker is `MakerAccountFacts`.
* `OrdersShrinkOnly == Spec => OrdersOnlyShrink`, an action property, from the same
  reduction and `TypeOK`.
* `OrderLimitHolds == Spec => []OrderLimit`. The limit is only compared when the
  market already has orders of the account; `max_orders > 0` covers the first.
* `CoverageHolds == Spec => []AccountsCovered`. The delicate step is settlement:
  a maker of several fills is saved after each of them, and what counts is the last
  of these saves, which is that of its last fill in the order of iteration.
* `CancellableHolds == Spec => []AlwaysCancellable`. From `AccountsCovered` and
  `BooksMatchAccounts`: a refund adds at most one balance entry and drops an order,
  which is larger.
* `SolvencyHolds == Spec => []Solvent`. Each step is split into a balance sheet per
  market: what the taker, the makers, the referrer and the fees gain is at most what
  the taker pays and the filled orders release. The lock of a bid is compared with
  the value of its lots, the rounded values of the fills with the value of their
  sum, and the rebates with the fee (`FeeCoversRebates`). It holds for unaligned
  prices and for self-referral too, where tokens are lost.
* `ConservedHolds == Spec => []Conserved`, if `AlignedBids` and `NoSelfReferral`: for
  every market and every price a bid may name, one base lot is worth a whole
  number of quote units, and no trader is a referrer. The run `trading` satisfies both; the
  runs `unaligned` and `self_referral` show that each is needed. `Conserved` is an
  equality, so each balance sheet above has to balance exactly (`Places`,
  `Cancels`, `StepKinds`). That needs the strengthening `AllEven`, which says of the bids
  already in the books what `AlignedBids` says of new ones: a fill or a refund
  happens at the price of a bid placed any number of steps before.
* `OnlyTheTakerPaysHolds == Spec => OnlyTheTakerPays` and `MakersMadeWholeHolds == Spec
  => MakersMadeWhole`, action properties, with no condition on prices or referrers. The
  taker is the account whose call of `new_order` the step is (`PlacesOrder`). Each such
  call is one of `Places` for that very account (`OrderByPlaces`), and what it does to
  any other is what its fills and the rebate credit (`OthersCredited`). The lots an
  account loses from its orders are those of its fills (`LostIsFilled`), all on the side
  opposite to the new order. The credits for the fills are rounded fill by fill, and add
  up to what `MakersMadeWhole` asks for.
* `BookNeverCrosses == Spec => []BookNotCrossed`. A limit order leaves a remainder
  only when every order it crosses is filled (`MakersAllFilled`), since neither the
  quote cap of the engine (`QuoteSuffices`) nor the quantity cap (`FillsFit`) stops
  it before.
* `BidsNeverOverspend == Spec => []BidNeverOverspends`, by `WithheldCoversFee` and
  the fact that no fill of a bid costs more than its limit price.
* `FeeBound`, `WithheldCoversFee`, `FeeCoversRebates`: fees are at most the amount
  they are taken from; what is left after withholding the fee pays for any fee on
  it; rebates of any number of fills, each rounded, fit in the fee on their total.
  The last is why the subtraction in `limit_order.rs:111` cannot underflow.

Over `LifecycleSpec`, for any number of markets and callbacks in flight:

* `LifecycleTypes == LifecycleSpec => []LifecycleTypeOK`: no order rests in a market
  whose base decimals are unknown, nothing is left of a deleted market.
* `LifecycleBooksMatch` and `LifecycleOrderLimitHolds`: `BooksMatchAccounts` and
  `OrderLimit` hold if `"Uninitialized" \notin MarketStatesTried`. The strengthening is
  `UninitializedEmpty` (an uninitialized market has no orders), which
  `admin_delete_market` relies on and only `set_market_state` can break (run
  `deleted_orders`). Each step is a step of `Exchange`, so that the lemmas of
  `ExchangeProofs` apply, or leaves accounts and books as they were (`Managed`).
* `LifecycleCancellable`: `AlwaysCancellable` under the same condition, since no step done to a
  market changes an account (`CoveredInStep`) and no order is without a registered owner
  (`LifecycleBooksMatch`).
* `LifecycleOrdersShrinkOnly == LifecycleSpec => OrdersOnlyShrink`, without that
  condition: one counter serves all markets, and deleting a market takes no number
  back.

Over `CustodySpec`, for any number of users, tokens and receipts in flight:

* `CustodyTypeCorrect == CustodySpec => []CustodyTypeOK`: no withdrawal of tokens or
  of storage underflows. The storage an account takes is a natural because it lists
  finitely many orders, which follows from `BooksMatchAccounts`.
* `CustodyAccountsHold == CustodySpec => [](BooksMatchAccounts /\ AccountsCovered)`:
  an account with orders is never unregistered, and one that registers again finds
  no orders of its former self.
* `CustodyCancellable == CustodySpec => []AlwaysCancellable`: also after an account has taken
  out all the storage balance that `storage_withdraw` allows, its orders can be paid back.
* `BackedHolds == CustodySpec => []Backed`: the exchange holds, in every token, at
  least what it owes.
* `NothingStrandedHolds == CustodySpec /\ [][RefundCredited]_allVars =>
  []NothingStranded`, if `AlignedBids` and `NoSelfReferral`: the exchange holds exactly what
  it owes. `RefundCredited` says of a step that a callback with a failed transfer to
  refund finds an account it can credit. The run `moves` satisfies all three; the run
  `stranded` shows the behaviour that the last one excludes.
* `KeepsPromisesHolds == CustodySpec /\ [][RefundCredited]_allVars => KeepsPromises`, the
  refinement, under the same conditions: every behaviour of `Custody` is one of
  `Ledger`. The conditions on prices and referrers are needed, since a step of `Ledger`
  keeps the total of every token.

The first four come from one inductive invariant, `CustodyInv`: types, books and coverage
as above, `receipts` is a bag of well-formed receipts, and the debt in each token
(accounts, markets, storage deposits and `FlowOf` the receipts) is at most `held`.
`Backed` needs the others: the trading steps are balanced only on well-formed books,
and what `storage_withdraw` takes off an account is a natural only if it is covered.
Debt is summed over all account names, registered or not, so that registering and
unregistering change one term. An action that moves tokens changes at most one
account and exchanges one receipt for at most one other, so it is reduced to what
that account gains (`TotalChange`) and what the receipts gain (`FlowOfAdd`,
`FlowOfRemove`, `FlowOfReplace`); trading moves no token and no storage deposit
(`TradingStorage`) and never grows what is owed, by the balance sheets of
`SolvencyProofs`. `NothingStrandedHolds` takes the same steps once more with an equality
(`AllAccounted`) in place of the bound: no step forgets a debt (`StaysClaimed`).

The refinement is proved step by step over `CustodyInv` and `AllEven`. What the mapping
shows of an account is split into its wallet, its account, the receipts in flight for
it (`FlowTo`) and its orders (`LockedFor`), each an operator of the state it is computed
from. Deposits, withdrawals and what the chain does with receipts move an amount from
one part to another of the same account and are stutters (`DepositUnseen`, ...,
`TransferUnseen`), with one exception, the callback that finds its account gone
(`CallbackShown`). Paying for storage is `PayStorage` (`StorageDepositGives`),
unregistering is `Leave`: an account that `IsEmpty` lists no orders and so, by
`BooksMatchAccounts`, has nothing locked. Cancels are `Release` (`CancelsRelease`): what
leaves the book is what comes back. Orders are `Trade` (`PlacesTrades`): others are
credited for their fills and keep the rest, whoever was met has less locked
(`FilledLocks`), and the sum over all accounts, which `WholeIs` relates to the debt of
the solvency proof by swapping the sums over accounts and markets (`SumSwap`),
stays what it was by the exact balance sheets of `ConservedHolds`.

For trading with swaps, `SwapsSpec`, in chains of any length over any markets:

* `SwapsTypeCorrect`, `SwapsAccountsHold`, `SwapsCancellable` and `SwapsBacked`: what
  the theorems of `Custody` with these properties say holds with swaps as well.
* `NobodyPaysForSwaps == SwapsSpec => [][SwapsExecuted => PayingAccounts = {}]_allVars`:
  committing a chain lowers no balance of any account.
* `SwapsPaidFromWalletHolds`: `SwapsSpec => SwapsPaidFromWallet` if `NeverReturns` holds of
  every chain that is tried, that is if no two swaps of a chain have the same market and
  side. The property compares what the chain paid a maker with what all the lots it took are
  worth; a quote value is rounded down in each swap, so two swaps that hit the same
  order may together pay less than one would have. That each swap pays its makers needs
  no such condition (`SwapIsFair`). The chains of the run satisfy it.
* `SwapsBuyAllTheyAfford == SwapsSpec => [](AsksFit => SwapBuysAllItAffords)`. A swap that
  buys asks for `u128::MAX` in lots, truncated to 64 bits; what the truncation leaves
  depends on the lot size. `AsksFit` says that the asks of a book are no more lots than
  that. Then the quantity never limits what is filled (`AllWanted`), so the order is filled
  like one for all there is (`FilledAlike`).

The invariant is that of `Custody`, `CustodyInv`. The new step is the commit of a chain,
and it is reduced to single swaps in three stages.

*One swap* (`SwapIsFair`). `SolvencyProofs` shows of an order whose taker pays from outside
that settling it leaves well-formed accounts and books, takes from nobody, pays the
makers and balances (`SettledFromOutside`). It says so of the present state, and a swap
works on the record of a chain, through `At(st)`; a theorem of an instance with a parameter
cannot be cited. But one without a parameter can: let `Odd` be a record of which the swap's
fairness is false, if there is one (a `CHOOSE`), and `X` the instance of `SolvencyProofs`
whose accounts and markets are those of `Odd`. The lemmas `SumX` to `AssumptionsX` identify
the operators of `X` and of `At(Odd)` with each other and with the module's own.
`SettledFromOutside` of `X` then says that swaps are fair in `Odd` (`OddIsSound`), so nothing is odd.

*A chain* (`ChainIsFair`). `ExecuteSwaps` is a fold of the community modules. `ChainUnfolding`
shows from its definition that the chain passes through states `h[0]`, ..., `h[n]`, each
made from the one before by one swap. If one of them were not fair, the first one would
have been left by an unfair swap. Fairness accumulates: balances only grow
(`NoneLosesTwice`), the tokens of accounts, markets and the chain together never do
(`FairOnceMore`), and a side of a book that is hit once is due from when it was hit
(`DueLater`, `DueEarlier`, `PaidOnceMore`).

*A step*. `swap_near` takes its input in when it commits, `ft_on_transfer` takes it from its
receipt; the output is one more receipt unless it is zero (`OutputSent`). With the totals of
the chain that is a balance sheet as in `Custody` (`InvWhenSwapped`). A chain that panics
only exchanges its receipt for one that returns the tokens (`InvWhenSwapNotified`).

Sums are `SumFunctionOnSet` of the community modules, defined by a fold.
`BookTheorems` proves the facts used about it from its definition by taking the
least size of a counterexample, since induction schemes over operators are not
available to the provers.

Only model-checked: liveness under fairness (`ReceiptsSettle`, `MarketsActivate`), which is
out of the prover's reach. Every other property of the passing runs is stated by a
theorem, with the conditions named above.

## Noticed without a run

Smaller disagreements that no run shows, and hazards no property covers:

* `cancel_all_orders` asserts an active contract (`market/mod.rs:158`) and is refused
  in state `CancelOnly`, which `lib.rs:60` describes as allowing cancels. Modelled
  (`CancelAllOrders`); single orders can be cancelled.
* An entry of balance 0 stays in `balances`, so the account is not empty
  (`account/v1.rs:223`) and cannot unregister (`storage_manager.rs:133`). Modelled
  (`IsEmpty`); users can still withdraw everything else.
* `on_mt_metadata` activates a market without the lot check of `on_ft_metadata`
  (`external_tokens/external_tokens.rs:94`, `market/v1.rs:119`). Modelled
  (`OnMtMetadata`).
* `market/mod.rs:68` says "markets can never be deleted"; `admin_delete_market`
  deletes them. No operation pays out the fees they accrued, before or after.
* A best price of 0 lots makes the window check divide by zero (`limit_order.rs:46`).
  Modelled as a guard: the call panics and nothing changes. What traders could
  never do again would be a liveness property of the traders, of whom nothing is
  assumed.
* The owner's cancels check the market's state too (`market/mod.rs:385`), so a paused
  market is cleared only after another switch. Nor can users cancel in it:
  `AlwaysCancellable` says that storage never traps an order, not that the switches
  allow cancels.

## What is not modelled

* The views, events, gas and the JSON formats: they change no state.
* Batches (`actions.rs`): `execute` runs `new_order`, `cancel_order` and
  `cancel_all_orders` one after the other, all or nothing, and keeps no state of its
  own. It ends in states that the same calls reach one by one.
* `mt_on_transfer`: its `impl` block lacks `near_bindgen`, so the contract does not
  export it. `withdraw_mt` is `internal_withdraw` as for fungible tokens.
* The NEAR that `create_market` takes for the storage of the market and keeps.
* The test token, scripts and build files.
