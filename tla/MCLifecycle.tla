---------------------------- MODULE MCLifecycle ----------------------------
(***************************************************************************)
(* Instances of Lifecycle for TLC.                                         *)
(***************************************************************************)
EXTENDS Lifecycle, MCExchange

(* One resting order of an account in a market is the limit.               *)
LifecycleParams == [m \in Markets |-> [Pair(base, quote) EXCEPT !.max_orders = 1]]
=============================================================================
