------------------------------- MODULE MCBudget -------------------------------
(* TLC instance of Budget.  Its monetary dimension is set up the way the        *)
(* composer's WithCostBudget does: 2.3 micro-USD are a ceiling of 2.            *)
EXTENDS Budget, CostBudget

MCMaxUSD == CHOOSE m \in WithCostBudget(Finite(23)) : TRUE

\* A cheap and a dear call; the two dimensions differ.
TwoCosts == {[tokens |-> 0, usd |-> costFuncToCharge(Finite(14))],
             [tokens |-> 2, usd |-> costFuncToCharge(Finite(6))]}

\* No ceiling is made of nothing, NaN, an infinity, an overflow or less than half a
\* micro, and such a reading is not charged.
ASSUME BadAmounts ==
  \A x \in {Finite(-10), Finite(0), Finite(4), Finite(10 * MaxMicros), NaN, Inf} :
    WithCostBudget(x) = {} /\ costFuncToCharge(x) = 0
=============================================================================
