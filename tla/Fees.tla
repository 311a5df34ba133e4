------------------------------- MODULE Fees -------------------------------
(***************************************************************************)
(* Fee arithmetic of tonic-dex/src/fees.rs.  Rates are integer basis       *)
(* points, amounts are native token units, division rounds down.  The fee  *)
(* tiers of the source are constant (boost and discount are both 0), so a  *)
(* FeeCalculator is just the pair of base rates of its market.             *)
(***************************************************************************)
EXTENDS Integers

CONSTANT FeeToBpsDivisor   \* FEE_TO_BPS_DIVISOR; small in the model instances

ASSUME DivisorAssumption == FeeToBpsDivisor \in Nat \ {0}

SaturatingSub(x, y) == IF y <= x THEN x - y ELSE 0

MakerRebate(rate, quantity) == (quantity * rate) \div FeeToBpsDivisor

TakerFee(rate, quantity) == (quantity * rate) \div FeeToBpsDivisor

(* Variant: no fee is set aside.                                           *)
WithholdTakerFee_Nothing(rate, quantity) == quantity

(* What is left of quantity once the largest possible taker fee is set     *)
(* aside.                                                                  *)
WithholdTakerFee(rate, quantity) ==
  SaturatingSub(quantity, TakerFee(rate, quantity))

(* The referrer receives everything that remains of the taker fee.         *)
ReferrerRebate(feeLessMakerRebate) == feeLessMakerRebate
=============================================================================
