------------------------------ MODULE CostBudget ------------------------------
(***************************************************************************)
(* costbudget.go: the composer's WithCostBudget turns dollars, a float64,   *)
(* into the integer micro-USD of package budget.  A float is a record: a    *)
(* finite amount in tenths of a micro-USD, NaN or an infinity.              *)
(***************************************************************************)
EXTENDS Integers

CONSTANT MaxMicros   \* the largest int64

ASSUME MaxMicrosAssumption == MaxMicros \in Nat \ {0}

Finite(tenths) == [kind |-> "finite", tenths |-> tenths]
NaN == [kind |-> "nan", tenths |-> 0]
Inf == [kind |-> "inf", tenths |-> 0]

\* usdToMicros: whether the value can be represented, and the nearest micro.
Representable(usd) == usd.kind = "finite" /\ usd.tenths > 0 /\ usd.tenths < 10 * MaxMicros
usdToMicros(usd) == (usd.tenths + 5) \div 10

\* The ceiling that WithCostBudget gives to budget.New: none when it panics.  An
\* amount below half a micro passes the first check and is refused by New.
WithCostBudget(maxCost) ==
  {m \in {usdToMicros(maxCost)} : Representable(maxCost) /\ m > 0}

\* A reading of CostFunc that cannot be represented charges nothing.
costFuncToCharge(usd) == IF Representable(usd) THEN usdToMicros(usd) ELSE 0
=============================================================================
