----------------------------- MODULE Lifecycle -----------------------------
(***************************************************************************)
(* Markets coming and going around the trading of Exchange: create_market, *)
(* the metadata callbacks it waits for, and admin_delete_market.           *)
(*                                                                         *)
(* The decimals of a token other than NEAR are asked of its contract when  *)
(* a market is created, and arrive in a callback of their own, which the   *)
(* chain executes in a later step: late, in either order, or after the     *)
(* owner has switched or deleted the market.  A deleted market may be      *)
(* created again under the same id while old callbacks are on their way.   *)
(* The storage deposit of create_market is not part of this module.        *)
(***************************************************************************)
EXTENDS Exchange

CONSTANTS
  Near,              \* TokenType::NativeNear
  MultiTokens,       \* tokens of kind MultiFungibleToken
  Readable,          \* tokens whose contract answers with valid decimals
  DefaultBidWindow,  \* DEFAULT_MIN_MULTIPLIER_BPS
  DefaultAskWindow,  \* DEFAULT_MAX_MULTIPLIER_BPS
  MaxCallbacks       \* bound on the callbacks in flight for one token of a market

ASSUME LifecycleAssumption ==
  /\ Near \in Tokens \ MultiTokens
  /\ MultiTokens \subseteq Tokens /\ Readable \subseteq Tokens
  /\ DefaultBidWindow \in BidWindows /\ DefaultAskWindow \in AskWindows
  /\ MaxCallbacks \in Nat

VARIABLES
  created,   \* the keys of Contract.markets
  known,     \* [Markets -> sides whose decimals are not INVALID_DECIMALS]
  metadata   \* [Markets -> [PairSides -> number of callbacks in flight]]

lifecycleVars == <<created, known, metadata>>

allVars == <<vars, lifecycleVars>>

PairSides == {"Base", "Quote"}

TokenOf(m, side) == IF side = "Base" THEN MarketParams[m].base ELSE MarketParams[m].quote

(* A market as create_market stores it.  Ids that are not in created are   *)
(* mapped to it too, where the code has no entry.                          *)
FreshMarket ==
  [state |-> "Uninitialized", book |-> EmptyBook, fees_accrued |-> 0,
   minimum_bid_bps |-> DefaultBidWindow, maximum_ask_bps |-> DefaultAskWindow]

(* Amounts of a market can be computed once its base decimals are known.   *)
HasDenomination(m) == "Base" \in known[m]

(* The types; nothing is left of a market that does not exist; and orders  *)
(* rest only where the base decimals are known, without which no refund    *)
(* can be computed (denomination overflows).                               *)
LifecycleTypeOK ==
  /\ TypeOK
  /\ created \subseteq Markets
  /\ known \in [Markets -> SUBSET PairSides]
  /\ metadata \in [Markets -> [PairSides -> Nat]]
  /\ \A m \in Markets \ created : markets[m] = FreshMarket /\ known[m] = {}
  /\ \A m \in Markets : DOMAIN markets[m].book # {} => HasDenomination(m)

(* A contract without markets.                                             *)
LifecycleInit ==
  /\ contract_state = "Active"
  /\ accounts = InitialAccounts
  /\ markets = [m \in Markets |-> FreshMarket]
  /\ prev_order_sequence_number = 0
  /\ created = {}
  /\ known = [m \in Markets |-> {}]
  /\ metadata = [m \in Markets |-> [side \in PairSides |-> 0]]

-----------------------------------------------------------------------------
(* get_decimals_for_token asks for the decimals of any token but NEAR.     *)
KnownAtOnce(m) == {side \in PairSides : TokenOf(m, side) = Near}

CreateMarket(m) ==
  /\ contract_state = "Active"
  /\ m \notin created                                \* MARKET_EXISTS
  /\ \A side \in PairSides : metadata[m][side] < MaxCallbacks
  /\ created' = created \cup {m}
  /\ markets' = [markets EXCEPT ![m] = FreshMarket]
  /\ known' = [known EXCEPT ![m] = KnownAtOnce(m)]
  /\ metadata' = [metadata EXCEPT ![m] =
       [side \in PairSides |-> IF side \in KnownAtOnce(m) THEN @[side] ELSE @[side] + 1]]
  /\ UNCHANGED <<contract_state, accounts, prev_order_sequence_number>>

(* The condition of audit 5.2 (market/v1.rs) on lot sizes.                 *)
HasValidLots(m) ==
  LET p == MarketParams[m] IN p.base_lot * p.quote_lot >= p.base_denomination

(* A callback with the decimals of one side of m arrives, and makes the    *)
(* market active if it is valid with them.  It panics when the market is   *)
(* gone or the call it waited for failed.                                  *)
OnMetadata(m, side, isValid) ==
  /\ metadata[m][side] > 0
  /\ metadata' = [metadata EXCEPT ![m][side] = @ - 1]
  /\ IF m \in created /\ TokenOf(m, side) \in Readable
       THEN /\ known' = [known EXCEPT ![m] = @ \cup {side}]
            /\ markets' = [markets EXCEPT ![m].state = IF isValid THEN "Active" ELSE @]
       ELSE UNCHANGED <<known, markets>>
  /\ UNCHANGED <<contract_state, accounts, prev_order_sequence_number, created>>

(* Variant: the decimals are validated before the new ones are set.        *)
ValidAfter_Before(m, side) == known[m] = PairSides /\ HasValidLots(m)

(* validate_lots_and_decimals after set_decimals.                          *)
ValidAfter(m, side) == known[m] \cup {side} = PairSides /\ HasValidLots(m)

OnFtMetadata(m, side) ==
  /\ TokenOf(m, side) \notin MultiTokens
  /\ OnMetadata(m, side, ValidAfter(m, side))

(* on_mt_metadata does not look at the lot sizes.                          *)
OnMtMetadata(m, side) ==
  /\ TokenOf(m, side) \in MultiTokens
  /\ OnMetadata(m, side, known[m] \cup {side} = PairSides)

(* Variant: a paused market is deleted with the orders it holds.           *)
CanDelete_IgnoresBook(m) == markets[m].state \in {"Uninitialized", "Paused"}

CanDelete(m) ==
  \/ markets[m].state = "Uninitialized"
  \/ markets[m].state = "Paused" /\ DOMAIN markets[m].book = {}

(* Variant: the entry is dropped from the list of ids only.                *)
AdminDeleteMarket_IdOnly(m) ==
  /\ m \in created /\ CanDelete(m)
  /\ created' = created \ {m}
  /\ UNCHANGED <<vars, known, metadata>>

AdminDeleteMarket(m) ==
  /\ m \in created /\ CanDelete(m)
  /\ created' = created \ {m}
  /\ markets' = [markets EXCEPT ![m] = FreshMarket]
  /\ known' = [known EXCEPT ![m] = {}]
  /\ UNCHANGED <<contract_state, accounts, prev_order_sequence_number, metadata>>

-----------------------------------------------------------------------------
(* Placing an order needs the base denomination, whatever the state the    *)
(* owner has set.                                                          *)
LifecycleNext ==
  \/ Switch /\ UNCHANGED lifecycleVars
  \/ \E m \in created : HasDenomination(m) /\ NewLimitBuy(m) /\ UNCHANGED lifecycleVars
  \/ \E m \in created : HasDenomination(m) /\ NewLimitSell(m) /\ UNCHANGED lifecycleVars
  \/ \E m \in created : HasDenomination(m) /\ NewMarketOrder(m) /\ UNCHANGED lifecycleVars
  \/ \E m \in created : Cancel(m) /\ UNCHANGED lifecycleVars
  \/ \E m \in created : Admin(m) /\ UNCHANGED lifecycleVars
  \/ \E m \in Markets : CreateMarket(m) \/ AdminDeleteMarket(m)
  \/ \E m \in Markets, side \in PairSides : OnFtMetadata(m, side) \/ OnMtMetadata(m, side)

(* The chain executes every receipt, callbacks included, sooner or later.  *)
CallbacksArrive ==
  \A m \in Markets, side \in PairSides :
    WF_allVars(OnFtMetadata(m, side) \/ OnMtMetadata(m, side))

LifecycleSpec == LifecycleInit /\ [][LifecycleNext]_allVars /\ CallbacksArrive
-----------------------------------------------------------------------------
(* Properties.                                                             *)

(* A market with valid lots whose tokens all answer does not stay          *)
(* uninitialized, in whichever order the two callbacks arrive: the last    *)
(* one activates it, unless the owner has deleted it first.                *)
MarketsActivate ==
  \A m \in Markets :
    HasValidLots(m) /\ (\A side \in PairSides : TokenOf(m, side) \in Readable \cup {Near})
    => (m \in created ~> m \notin created \/ markets[m].state # "Uninitialized")

(* "Market does not allow any trading operations" (MarketState::Paused,    *)
(* market/v1.rs:16): a market the owner has paused stays paused, whatever  *)
(* callbacks still arrive.                                                 *)
PauseHolds ==
  [][\A m \in created : markets[m].state = "Paused" /\ metadata' # metadata
                          => markets'[m].state = "Paused"]_allVars
=============================================================================
