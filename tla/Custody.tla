------------------------------ MODULE Custody ------------------------------
(***************************************************************************)
(* Tokens moving in and out of the exchange (balances.rs, the fungible     *)
(* token part of token_receiver.rs, storage_manager.rs, account            *)
(* registration) around the trading of Exchange.                           *)
(*                                                                         *)
(* A cross-contract call is a receipt that the chain executes in a later   *)
(* step, so anything can happen between a withdrawal, the transfer it asks *)
(* for and the callback.  Receipts in flight are a bag of records:         *)
(*   transfer   a promise to send tokens out of the exchange               *)
(*   callback   exchange_callback_post_withdraw; ok tells if the transfer  *)
(*              succeeded                                                  *)
(*   notify     ft_on_transfer for tokens the exchange has just been sent  *)
(*   return     ft_resolve_transfer for a deposit that was not accepted    *)
(*   pay        a transfer of NEAR without a callback (storage refunds)    *)
(* The token contracts and the chain are external.  NEAR is the token Near *)
(* and one unit of it pays for a byte of storage.                          *)
(***************************************************************************)
EXTENDS Exchange, Bags

CONSTANTS
  Near,             \* TokenType::NativeNear
  Users,            \* accounts that move tokens
  InitialOwner,     \* the owner_id given to the contract
  OwnersTried,      \* accounts the owner may hand over to
  InitialWallets,   \* [Accounts -> [Tokens -> Nat]]: tokens outside the exchange
  Amounts,          \* amounts deposited and withdrawn
  Messages,         \* messages of ft_transfer_call; <<>> asks for a deposit
  StorageAmounts,   \* storage deposits tried
  RegistrationOnly, \* values of registration_only tried
  StorageWithdrawals, \* storage withdrawals tried: {x}, or {} for all there is
  MaxReceipts       \* bound on the receipts in flight

ASSUME CustodyAssumption ==
  /\ Near \in Tokens /\ Users \subseteq Accounts
  /\ InitialOwner \in Accounts /\ OwnersTried \subseteq Accounts
  /\ InitialWallets \in [Accounts -> [Tokens -> Nat]]
  /\ Amounts \subseteq Nat \ {0} /\ StorageAmounts \subseteq Nat
  /\ RegistrationOnly \subseteq BOOLEAN /\ \A x \in StorageWithdrawals : x \subseteq Nat
  /\ MaxReceipts \in Nat

Bag == INSTANCE BagsExt

VARIABLES
  owner_id,   \* Contract.owner_id
  wallets,    \* external: what accounts hold outside the exchange
  held,       \* external: what the exchange's own account holds of each token
  receipts    \* the bag of receipts in flight

custodyVars == <<owner_id, wallets, held, receipts>>

allVars == <<vars, custodyVars>>

Receipt ==
  [kind : {"transfer", "callback", "notify", "return", "pay"},
   account : Accounts, token : Tokens, amount : Nat \ {0}, ok : BOOLEAN,
   msg : Messages \cup {<<>>}]

CustodyTypeOK ==
  /\ TypeOK
  /\ owner_id \in Accounts
  /\ wallets \in [Accounts -> [Tokens -> Nat]]
  /\ held \in [Tokens -> Nat]
  /\ IsABag(receipts) /\ BagToSet(receipts) \subseteq Receipt

MakeReceipt(kind, a, token, amount, ok) ==
  [kind |-> kind, account |-> a, token |-> token, amount |-> amount, ok |-> ok, msg |-> <<>>]

Due(kind) == {r \in BagToSet(receipts) : r.kind = kind}

MayCall == BagCardinality(receipts) < MaxReceipts

StorageHeld(token) ==
  IF token = Near THEN SumFunction([a \in DOMAIN accounts |-> accounts[a].storage]) ELSE 0

CustodyInit ==
  /\ Init
  /\ owner_id = InitialOwner
  /\ wallets = InitialWallets
  /\ held = [token \in Tokens |->
       SumFunction([a \in DOMAIN InitialAccounts |-> Balance(InitialAccounts[a], token)
                      + IF token = Near THEN InitialAccounts[a].storage ELSE 0])]
  /\ receipts = EmptyBag

-----------------------------------------------------------------------------
Credited(a, token, amount) == Deposit(accounts[a], token, amount)

(* Variant: the account is saved without its storage check.                *)
CanCredit_Unchecked(a, token, amount) == a \in DOMAIN accounts

(* internal_deposit panics when a is not registered or cannot pay for the  *)
(* storage of its account with the token added.                            *)
CanCredit(a, token, amount) ==
  a \in DOMAIN accounts /\ IsStorageCovered(Credited(a, token, amount))

(* The tokens of account a enter the custody of the exchange.              *)
TakeIn(a, token, amount) ==
  /\ wallets[a][token] >= amount
  /\ wallets' = [wallets EXCEPT ![a][token] = @ - amount]
  /\ held' = [held EXCEPT ![token] = @ + amount]

PayOut(a, token, amount) ==
  /\ held[token] >= amount
  /\ held' = [held EXCEPT ![token] = @ - amount]
  /\ wallets' = [wallets EXCEPT ![a][token] = @ + amount]

DepositNear(a, amount) ==
  /\ contract_state = "Active"
  /\ CanCredit(a, Near, amount)
  /\ TakeIn(a, Near, amount)
  /\ accounts' = [accounts EXCEPT ![a] = Credited(a, Near, amount)]
  /\ UNCHANGED <<contract_state, markets, prev_order_sequence_number, owner_id, receipts>>

(* The token contract moves the tokens first and then calls the exchange.  *)
FtTransferCall(a, token, amount, msg) ==
  /\ token # Near /\ MayCall
  /\ TakeIn(a, token, amount)
  /\ receipts' = Bag!BagAdd(receipts, [MakeReceipt("notify", a, token, amount, TRUE)
                                    EXCEPT !.msg = msg])
  /\ UNCHANGED <<vars, owner_id>>

(* Variant: a deposit that cannot be credited is kept.                     *)
FtOnTransfer_Keeps(r) ==
  /\ r.msg = <<>>
  /\ receipts' = Bag!BagRemove(receipts, r)
  /\ accounts' = IF contract_state = "Active" /\ CanCredit(r.account, r.token, r.amount)
                   THEN [accounts EXCEPT ![r.account] = Credited(r.account, r.token, r.amount)]
                   ELSE accounts
  /\ UNCHANGED <<contract_state, markets, prev_order_sequence_number, owner_id, wallets, held>>

(* When ft_on_transfer panics the token contract's resolve returns all of  *)
(* the tokens.                                                             *)
SendBack(r) ==
  Bag!BagAdd(Bag!BagRemove(receipts, r), MakeReceipt("return", r.account, r.token, r.amount, TRUE))

(* ft_on_transfer with an empty message.                                   *)
FtOnTransfer(r) ==
  LET accepted == contract_state = "Active" /\ CanCredit(r.account, r.token, r.amount)
  IN  /\ r.msg = <<>>
      /\ accounts' = IF accepted
                       THEN [accounts EXCEPT ![r.account] = Credited(r.account, r.token, r.amount)]
                       ELSE accounts
      /\ receipts' = IF accepted THEN Bag!BagRemove(receipts, r) ELSE SendBack(r)
      /\ UNCHANGED <<contract_state, markets, prev_order_sequence_number, owner_id, wallets, held>>

(* ft_resolve_transfer, and plain NEAR transfers: the chain delivers them. *)
Deliver(r) ==
  /\ PayOut(r.account, r.token, r.amount)
  /\ receipts' = Bag!BagRemove(receipts, r)
  /\ UNCHANGED <<vars, owner_id>>

(* withdraw_near and withdraw_ft.                                          *)
InternalWithdraw(a, token, amount) ==
  /\ contract_state = "Active" /\ MayCall
  /\ a \in DOMAIN accounts
  /\ CanWithdraw(accounts[a], token, amount)
  /\ LET acc == Withdraw(accounts[a], token, amount)
     IN  IsStorageCovered(acc) /\ accounts' = [accounts EXCEPT ![a] = acc]
  /\ receipts' = Bag!BagAdd(receipts, MakeReceipt("transfer", a, token, amount, TRUE))
  /\ UNCHANGED <<contract_state, markets, prev_order_sequence_number, owner_id, wallets, held>>

(* The transfer succeeds, or fails as a whole: the receiver may be unknown *)
(* to the token contract, or be gone.                                      *)
TransferSucceeds(r) ==
  /\ PayOut(r.account, r.token, r.amount)
  /\ receipts' = Bag!BagAdd(Bag!BagRemove(receipts, r), [r EXCEPT !.kind = "callback", !.ok = TRUE])
  /\ UNCHANGED <<vars, owner_id>>

TransferFails(r) ==
  /\ receipts' = Bag!BagAdd(Bag!BagRemove(receipts, r), [r EXCEPT !.kind = "callback", !.ok = FALSE])
  /\ UNCHANGED <<vars, owner_id, wallets, held>>

(* Variant: the callback does not look at the outcome of the transfer.     *)
IsRefundDue_Always(r) == TRUE

IsRefundDue(r) == ~ r.ok

(* Variant: a failed withdrawal always goes to the owner.                  *)
RefundTarget_Owner(r) == owner_id

RefundTarget(r) == IF r.account \in DOMAIN accounts THEN r.account ELSE owner_id

(* Variant: the callback tries a transfer that has failed once more.       *)
ExchangeCallbackPostWithdraw_Retries(r) ==
  /\ receipts' = IF r.ok THEN Bag!BagRemove(receipts, r)
                 ELSE Bag!BagAdd(Bag!BagRemove(receipts, r), [r EXCEPT !.kind = "transfer"])
  /\ UNCHANGED <<vars, owner_id, wallets, held>>

(* exchange_callback_post_withdraw.  A callback that panics is over all    *)
(* the same: nobody is credited.                                           *)
ExchangeCallbackPostWithdraw(r) ==
  LET target == RefundTarget(r)
  IN  /\ receipts' = Bag!BagRemove(receipts, r)
      /\ accounts' = IF IsRefundDue(r) /\ CanCredit(target, r.token, r.amount)
                       THEN [accounts EXCEPT ![target] = Credited(target, r.token, r.amount)]
                       ELSE accounts
      /\ UNCHANGED <<contract_state, markets, prev_order_sequence_number, owner_id, wallets, held>>

-----------------------------------------------------------------------------
Pay(a, amount) ==
  IF amount = 0 THEN receipts
                ELSE Bag!BagAdd(receipts, MakeReceipt("pay", a, Near, amount, TRUE))

NewAccount(storage) ==
  [balances |-> [t \in {} |-> 0], open |-> [m \in Markets |-> {}], storage |-> storage]

(* storage_deposit by payer for account a.                                 *)
StorageDeposit(payer, a, registration_only, amount) ==
  LET registered == a \in DOMAIN accounts
      kept == IF ~ registration_only THEN amount
              ELSE IF registered THEN 0 ELSE AccountBytes
      acc  == IF registered THEN [accounts[a] EXCEPT !.storage = @ + kept] ELSE NewAccount(kept)
  IN  /\ contract_state = "Active" /\ MayCall
      /\ ~ registered => amount >= AccountBytes      \* INSUFFICIENT_STORAGE_BALANCE
      /\ IsStorageCovered(acc)
      /\ TakeIn(payer, Near, amount)
      /\ accounts' = [b \in DOMAIN accounts \cup {a} |-> IF b = a THEN acc ELSE accounts[b]]
      /\ receipts' = Pay(payer, amount - kept)
      /\ UNCHANGED <<contract_state, markets, prev_order_sequence_number, owner_id>>

(* storage_balance_of(a).available                                         *)
StorageAvailable(acc) == acc.storage - BorshSize(acc)

(* storage_withdraw; amount = {} withdraws all that is available.          *)
StorageWithdraw(a, amount) ==
  /\ contract_state = "Active" /\ MayCall
  /\ a \in DOMAIN accounts
  /\ LET taken == IF amount = {} THEN StorageAvailable(accounts[a])
                                 ELSE CHOOSE x \in amount : TRUE
     IN  /\ IsStorageCovered(accounts[a])           \* or available underflows
         /\ taken <= StorageAvailable(accounts[a])
         /\ accounts' = [accounts EXCEPT ![a].storage = @ - taken]
         /\ receipts' = Pay(a, taken)
  /\ UNCHANGED <<contract_state, markets, prev_order_sequence_number, owner_id, wallets, held>>

(* storage_unregister                                                      *)
StorageUnregister(a) ==
  /\ contract_state = "Active" /\ MayCall
  /\ a \in DOMAIN accounts /\ IsEmpty(accounts[a])
  /\ accounts' = [b \in DOMAIN accounts \ {a} |-> accounts[b]]
  /\ receipts' = Pay(a, accounts[a].storage)
  /\ UNCHANGED <<contract_state, markets, prev_order_sequence_number, owner_id, wallets, held>>

SetOwner(a) == owner_id' = a /\ UNCHANGED <<vars, wallets, held, receipts>>

-----------------------------------------------------------------------------
MoveTokens ==
  \E a \in Users :
    \/ \E amount \in Amounts :
         \/ DepositNear(a, amount)
         \/ \E token \in Tokens, msg \in Messages : FtTransferCall(a, token, amount, msg)
         \/ \E token \in Tokens : InternalWithdraw(a, token, amount)
    \/ \E b \in Users, registration_only \in RegistrationOnly, amount \in StorageAmounts :
         StorageDeposit(a, b, registration_only, amount)
    \/ \E amount \in StorageWithdrawals : StorageWithdraw(a, amount)
    \/ StorageUnregister(a)

Execute ==
  \/ \E r \in Due("notify") : FtOnTransfer(r)
  \/ \E r \in Due("return") \cup Due("pay") : Deliver(r)
  \/ \E r \in Due("transfer") : TransferSucceeds(r) \/ TransferFails(r)
  \/ \E r \in Due("callback") : ExchangeCallbackPostWithdraw(r)

CustodyNext ==
  \/ Switch /\ UNCHANGED custodyVars
  \/ \E m \in Markets : NewLimitBuy(m) /\ UNCHANGED custodyVars
  \/ \E m \in Markets : NewLimitSell(m) /\ UNCHANGED custodyVars
  \/ \E m \in Markets : NewMarketOrder(m) /\ UNCHANGED custodyVars
  \/ \E m \in Markets : Cancel(m) /\ UNCHANGED custodyVars
  \/ \E m \in Markets : Admin(m) /\ UNCHANGED custodyVars
  \/ MoveTokens
  \/ Execute
  \/ \E a \in OwnersTried : SetOwner(a)

CustodySpec == CustodyInit /\ [][CustodyNext]_allVars

(* The chain executes every receipt some time.                             *)
FairCustodySpec == CustodySpec /\ WF_allVars(Execute)
-----------------------------------------------------------------------------
(* Properties.                                                             *)

(* Receipts whose amount the exchange still holds for somebody.            *)
Pending == {r \in BagToSet(receipts) : r.kind = "callback" => ~ r.ok}

InFlight(S) == SumFunction([r \in S |-> receipts[r] * r.amount])

Liabilities(token) ==
  Owed(token) + StorageHeld(token) + InFlight({r \in Pending : r.token = token})

(* The exchange holds at least what it owes in every token: to accounts,   *)
(* to orders, as fees, as storage deposits, and for the transfers, failed  *)
(* transfers and deposits in flight.  It can pay everybody out, whatever   *)
(* the order in which receipts are executed.                               *)
Backed == \A token \in Tokens : Liabilities(token) <= held[token]

(* ... and holds nothing that nobody can claim: whoever has enough storage *)
(* never loses a failed withdrawal or a deposit that was not accepted.     *)
NothingStranded == \A token \in Tokens : Liabilities(token) = held[token]

LockedBy(a, m, token) ==
  LET book == markets[m].book
  IN  SumFunction([i \in {i \in DOMAIN book :
                      book[i].owner = a /\ RefundToken(MarketParams[m], book[i]) = token} |->
                     GetRefundAmount(MarketParams[m], book[i])])

(* What account a has of a token outside of its orders: in its wallet,     *)
(* available on the exchange, in flight, and as storage.                   *)
Spendable(a, token) ==
  wallets[a][token]
    + (IF a \in DOMAIN accounts
         THEN Balance(accounts[a], token) + IF token = Near THEN accounts[a].storage ELSE 0
         ELSE 0)
    + InFlight({r \in Pending : r.token = token /\ r.account = a})

Locked(a, token) == SumFunction([m \in Markets |-> LockedBy(a, m, token)])

Claim(a, token) == Spendable(a, token) + Locked(a, token)

StorageOf(a) == IF a \in DOMAIN accounts THEN accounts[a].storage ELSE 0

PaysStorage(a) == \E b \in Accounts \ {a} : StorageOf(b)' > StorageOf(b)

(* Moving tokens neither loses nor takes what is a registered account's: a *)
(* withdrawal that fails is reverted ("This reverts the changes from       *)
(* withdraw function", balances.rs:89), a refused deposit comes back, and  *)
(* cancelled orders are paid back; only orders, and storage paid for       *)
(* somebody else, make an account's claim smaller.                         *)
ClaimsKept ==
  [][prev_order_sequence_number' = prev_order_sequence_number =>
       \A a \in DOMAIN accounts', token \in Tokens :
         Claim(a, token)' >= Claim(a, token) \/ (token = Near /\ PaysStorage(a))]_allVars

(* The exchange keeps the promises of Ledger: what accounts have changes   *)
(* by their own orders, by storage they pay for others and by cancelling,  *)
(* and never by a transfer, however it ends and whatever happens meanwhile.*)
Promises == INSTANCE Ledger WITH
  members  <- DOMAIN accounts,
  free     <- [a \in Accounts |-> [token \in Tokens |-> Spendable(a, token)]],
  locked   <- [a \in Accounts |-> [token \in Tokens |-> Locked(a, token)]],
  treasury <- [token \in Tokens |-> SumFunction([m \in Markets |-> FeesHeld(m, token)])]

KeepsPromises == Promises!LedgerSpec

(* When users stop moving tokens, every withdrawal and deposit on its way  *)
(* comes to an end: a transfer succeeds or is settled by its callback.     *)
ReceiptsSettle == <>[][~ MoveTokens]_allVars => <>[](receipts = EmptyBag)
=============================================================================
