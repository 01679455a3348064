----------------------------- MODULE BudgetProofs -----------------------------
(***************************************************************************)
(* The call cap, the totals and the breach flag, for any number of callers, *)
(* any ceilings, costs and window lengths.  Three arguments: a call is      *)
(* counted before it runs; with a window everything but fn happens under    *)
(* windowMu, so totals and charges differ only while their holder is        *)
(* between two stores; and a total over its ceiling is always marked or     *)
(* still to be seen by a call that has not yet loaded it, or has loaded it  *)
(* when it was over.                                                        *)
(***************************************************************************)
EXTENDS Budget, TLAPS

\* What a goroutine keeps during its call.
Ops == [pc : Pcs, cost : [tokens : Nat, usd : Nat], seen : Counters]

\* The steps between Lock and Unlock of windowMu.
ClearPcs == {"clearTokens", "clearUSD", "clearCalls", "clearBreach"}
LockedPcs == {"roll", "check", "count", "chargeTokens", "chargeUSD", "loadTokens", "loadUSD",
              "loadCalls", "evaluate", "mark"} \cup ClearPcs

\* With a window, whoever is between Lock and Unlock holds the lock.
Exclusive == Windowed => \A a \in Actors : op[a].pc \in LockedPcs => mu = a

\* With a window, where the totals and the charges made since the last reset may differ:
\* while a charge is half added, and while a reset has begun.
Adrift == {"chargeUSD", "clearUSD", "clearCalls", "clearBreach"}
Balanced ==
  Windowed =>
    /\ (\A a \in Actors : op[a].pc \notin Adrift) =>
         total.tokens = charged.tokens /\ total.usd = charged.usd
    /\ \A a \in Actors :
         /\ op[a].pc = "chargeUSD" =>
              total.tokens = charged.tokens + op[a].cost.tokens /\ total.usd = charged.usd
         /\ op[a].pc \in {"clearUSD", "clearCalls", "clearBreach"} => total.tokens = 0
         /\ op[a].pc \in {"clearCalls", "clearBreach"} => total.usd = 0

\* Without a window only Reset clears the counters; and unless its last call is torn
\* nobody does bookkeeping beside it.
Alone ==
  /\ op[Admin].pc \in {"idle"} \cup ClearPcs
  /\ ~Windowed => \A c \in Callers : op[c].pc \notin ClearPcs \cup {"roll"}
  /\ ~Windowed /\ ~torn /\ op[Admin].pc # "idle" =>
       \A c \in Callers : op[c].pc \in Resting

\* fn never runs without having been counted.
Counted == ran <= total.calls /\ CallsCapped

-----------------------------------------------------------------------------

\* A goroutine that moves keeps the types of the others.
LEMMA OpTyped ==
  ASSUME op \in [Actors -> Ops], NEW a \in Actors, NEW r \in Ops, op' = [op EXCEPT ![a] = r]
  PROVE  op' \in [Actors -> Ops]
OBVIOUS

\* Callers are goroutines.
LEMMA CallerIsActor == \A c \in Callers : c \in Actors /\ c # Admin /\ c # Free
BY ActorAssumption DEF Actors

\* A load of a counter keeps the types.
LEMMA LoadTyped ==
  ASSUME NEW c \in Callers, op \in [Actors -> Ops], total \in Counters, NEW to \in Pcs,
         NEW field \in {"tokens", "usd", "calls"},
         op' = [op EXCEPT ![c].pc = to, ![c].seen[field] = total[field]]
  PROVE  op' \in [Actors -> Ops]
<1>1. c \in Actors
  BY CallerIsActor
<1>2. [op[c].seen EXCEPT ![field] = total[field]] \in Counters
  BY <1>1 DEF Ops, Counters
<1>3. op'[c] = [op[c] EXCEPT !.pc = to, !.seen = [op[c].seen EXCEPT ![field] = total[field]]]
  BY <1>1 DEF Ops
<1>4. op'[c] \in Ops
  BY <1>1, <1>2, <1>3 DEF Ops
<1>5. op' = [op EXCEPT ![c] = op'[c]]
  BY <1>1
<1> QED BY <1>1, <1>4, <1>5, OpTyped

\* Every step keeps the types.
LEMMA TypeStep ==
  ASSUME TypeOK, Next
  PROVE  TypeOK'
<1> USE ConfigAssumption, ActorAssumption
    DEF TypeOK, Counters, Pcs, At, Goto, Return, Lock, Unlock, Windowed, Idle, NoCost, Zero, Free, Admin, Actors, history, MeetsReset
<1>1. ASSUME NEW c \in Callers, Begin(c) PROVE TypeOK'
  BY <1>1 DEF Begin
<1>2. ASSUME NEW c \in Callers, Enter(c) PROVE TypeOK'
  <2>1. torn' \in BOOLEAN
    BY <1>2 DEF Enter
  <2>2. op' \in [Actors -> Ops] /\ mu' \in Actors \cup {Free}
    BY <1>2 DEF Enter, Ops
  <2> QED BY <1>2, <2>1, <2>2 DEF Enter, Ops
<1>3. ASSUME NEW c \in Callers, AskCharge(c) PROVE TypeOK'
  <2>1. PICK x \in Costs : op' = [op EXCEPT ![c].pc = "chargeTokens", ![c].cost = x]
    BY <1>3 DEF AskCharge
  <2>2. op'[c] = [op[c] EXCEPT !.pc = "chargeTokens", !.cost = x] /\ op' = [op EXCEPT ![c] = op'[c]]
    BY <2>1, CallerIsActor
  <2>3. op'[c] \in Ops
    BY <2>2, CallerIsActor, ZenonT(60) DEF Ops
  <2>4. op' \in [Actors -> Ops]
    BY <2>2, <2>3, CallerIsActor, OpTyped DEF Ops
  <2> QED BY <1>3, <2>4, CallerIsActor DEF AskCharge, Ops
<1>4. ASSUME NEW c \in Callers, ChargePanics(c) PROVE TypeOK'
  BY <1>4 DEF ChargePanics
<1>5. ASSUME NEW c \in Callers, FnReturns(c) PROVE TypeOK'
  BY <1>5 DEF FnReturns
<1>6. ASSUME NEW c \in Callers, FnPanics(c) PROVE TypeOK'
  BY <1>6 DEF FnPanics
<1>7. ASSUME NEW c \in Callers, Roll(c) PROVE TypeOK'
  <2>1. window' \in [open : BOOLEAN, start : Nat, length : Nat]
    BY <1>7 DEF Roll
  <2>2. op' \in [Actors -> Ops]
    BY <1>7 DEF Roll, Ops
  <2> QED BY <1>7, <2>1, <2>2 DEF Roll, Ops
<1>8. ASSUME NEW c \in Callers, CheckBreached(c) PROVE TypeOK'
  BY <1>8 DEF CheckBreached
<1>9. ASSUME NEW c \in Callers, CountCall(c) PROVE TypeOK'
  BY <1>9 DEF CountCall
<1>10. ASSUME NEW c \in Callers, ChargeTokens(c) PROVE TypeOK'
  BY <1>10 DEF ChargeTokens, Charge
<1>11. ASSUME NEW c \in Callers, ChargeUSD(c) PROVE TypeOK'
  BY <1>11 DEF ChargeUSD, Charge
<1>12. ASSUME NEW c \in Callers, LoadTokens(c) PROVE TypeOK'
  <2>1. op' \in [Actors -> Ops]
    BY <1>12, LoadTyped DEF LoadTokens, Load, Ops
  <2> QED BY <1>12, <2>1 DEF LoadTokens, Load, Ops
<1>13. ASSUME NEW c \in Callers, LoadUSD(c) PROVE TypeOK'
  <2>1. op' \in [Actors -> Ops]
    BY <1>13, LoadTyped DEF LoadUSD, Load, Ops
  <2> QED BY <1>13, <2>1 DEF LoadUSD, Load, Ops
<1>14. ASSUME NEW c \in Callers, LoadCalls(c) PROVE TypeOK'
  <2>1. op' \in [Actors -> Ops]
    BY <1>14, LoadTyped DEF LoadCalls, Load, Ops
  <2> QED BY <1>14, <2>1 DEF LoadCalls, Load, Ops
<1>15. ASSUME NEW c \in Callers, Evaluate(c) PROVE TypeOK'
  BY <1>15, SMTT(30) DEF Evaluate
<1>16. ASSUME NEW c \in Callers, MarkBreach(c) PROVE TypeOK'
  BY <1>16 DEF MarkBreach
<1>17. ASSUME NEW c \in Callers, FireOnExceeded(c) PROVE TypeOK'
  BY <1>17 DEF FireOnExceeded
<1>18. ASSUME NEW a \in Actors, ClearTokens(a) PROVE TypeOK'
  BY <1>18 DEF ClearTokens, Clear
<1>19. ASSUME NEW a \in Actors, ClearUSD(a) PROVE TypeOK'
  BY <1>19 DEF ClearUSD, Clear
<1>20. ASSUME NEW a \in Actors, ClearCalls(a) PROVE TypeOK'
  BY <1>20 DEF ClearCalls, Clear
<1>21. ASSUME NEW a \in Actors, ClearBreach(a) PROVE TypeOK'
  <2>1. window' \in [open : BOOLEAN, start : Nat, length : Nat] /\ mu' \in Actors \cup {Free}
    BY <1>21 DEF ClearBreach
  <2>2. op' \in [Actors -> Ops]
    BY <1>21 DEF ClearBreach, Ops
  <2> QED BY <1>21, <2>1, <2>2 DEF ClearBreach, Ops
<1>22. CASE Reset
  BY <1>22 DEF Reset
<1>23. CASE Tick
  BY <1>23 DEF Tick
<1> QED BY <1>1, <1>2, <1>3, <1>4, <1>5, <1>6, <1>7, <1>8, <1>9, <1>10, <1>11, <1>12, <1>13, 
           <1>14, <1>15, <1>16, <1>17, <1>18, <1>19, <1>20, <1>21, <1>22, <1>23
        DEF Next, Entering, Running, Bookkeeping, Clearing

\* Only the holder of windowMu takes steps that need it.
LEMMA ExclusiveStep ==
  ASSUME TypeOK, Exclusive, Next
  PROVE  Exclusive'
<1> USE ConfigAssumption, ActorAssumption
    DEF TypeOK, Counters, Pcs, Exclusive, LockedPcs, ClearPcs, At, Goto, Return, Lock, Unlock, Windowed, Idle, NoCost, Zero, Free, Admin, Actors, history, MeetsReset
<1>1. ASSUME NEW c \in Callers, Begin(c) PROVE Exclusive'
  BY <1>1 DEF Begin
<1>2. ASSUME NEW c \in Callers, Enter(c) PROVE Exclusive'
  BY <1>2 DEF Enter
<1>3. ASSUME NEW c \in Callers, AskCharge(c) PROVE Exclusive'
  BY <1>3 DEF AskCharge
<1>4. ASSUME NEW c \in Callers, ChargePanics(c) PROVE Exclusive'
  BY <1>4 DEF ChargePanics
<1>5. ASSUME NEW c \in Callers, FnReturns(c) PROVE Exclusive'
  BY <1>5 DEF FnReturns
<1>6. ASSUME NEW c \in Callers, FnPanics(c) PROVE Exclusive'
  BY <1>6 DEF FnPanics
<1>7. ASSUME NEW c \in Callers, Roll(c) PROVE Exclusive'
  BY <1>7 DEF Roll
<1>8. ASSUME NEW c \in Callers, CheckBreached(c) PROVE Exclusive'
  BY <1>8 DEF CheckBreached
<1>9. ASSUME NEW c \in Callers, CountCall(c) PROVE Exclusive'
  BY <1>9 DEF CountCall
<1>10. ASSUME NEW c \in Callers, ChargeTokens(c) PROVE Exclusive'
  BY <1>10 DEF ChargeTokens, Charge
<1>11. ASSUME NEW c \in Callers, ChargeUSD(c) PROVE Exclusive'
  BY <1>11 DEF ChargeUSD, Charge
<1>12. ASSUME NEW c \in Callers, LoadTokens(c) PROVE Exclusive'
  BY <1>12 DEF LoadTokens, Load
<1>13. ASSUME NEW c \in Callers, LoadUSD(c) PROVE Exclusive'
  BY <1>13 DEF LoadUSD, Load
<1>14. ASSUME NEW c \in Callers, LoadCalls(c) PROVE Exclusive'
  BY <1>14 DEF LoadCalls, Load
<1>15. ASSUME NEW c \in Callers, Evaluate(c) PROVE Exclusive'
  BY <1>15 DEF Evaluate
<1>16. ASSUME NEW c \in Callers, MarkBreach(c) PROVE Exclusive'
  BY <1>16 DEF MarkBreach
<1>17. ASSUME NEW c \in Callers, FireOnExceeded(c) PROVE Exclusive'
  BY <1>17 DEF FireOnExceeded
<1>18. ASSUME NEW a \in Actors, ClearTokens(a) PROVE Exclusive'
  BY <1>18 DEF ClearTokens, Clear
<1>19. ASSUME NEW a \in Actors, ClearUSD(a) PROVE Exclusive'
  BY <1>19 DEF ClearUSD, Clear
<1>20. ASSUME NEW a \in Actors, ClearCalls(a) PROVE Exclusive'
  BY <1>20 DEF ClearCalls, Clear
<1>21. ASSUME NEW a \in Actors, ClearBreach(a) PROVE Exclusive'
  BY <1>21 DEF ClearBreach
<1>22. CASE Reset
  BY <1>22 DEF Reset
<1>23. CASE Tick
  BY <1>23 DEF Tick
<1> QED BY <1>1, <1>2, <1>3, <1>4, <1>5, <1>6, <1>7, <1>8, <1>9, <1>10, <1>11, <1>12, <1>13, 
           <1>14, <1>15, <1>16, <1>17, <1>18, <1>19, <1>20, <1>21, <1>22, <1>23
        DEF Next, Entering, Running, Bookkeeping, Clearing

\* A call that begins its bookkeeping beside a Reset tears it.
LEMMA AloneStep ==
  ASSUME TypeOK, Alone, Next
  PROVE  Alone'
<1> USE ConfigAssumption, ActorAssumption
    DEF TypeOK, Counters, Pcs, Alone, Resting, ClearPcs, At, Goto, Return, Lock, Unlock, Windowed, Idle, NoCost, Zero, Free, Admin, Actors, history, MeetsReset
<1>1. ASSUME NEW c \in Callers, Begin(c) PROVE Alone'
  BY <1>1 DEF Begin
<1>2. ASSUME NEW c \in Callers, Enter(c) PROVE Alone'
  BY <1>2 DEF Enter
<1>3. ASSUME NEW c \in Callers, AskCharge(c) PROVE Alone'
  BY <1>3 DEF AskCharge
<1>4. ASSUME NEW c \in Callers, ChargePanics(c) PROVE Alone'
  BY <1>4 DEF ChargePanics
<1>5. ASSUME NEW c \in Callers, FnReturns(c) PROVE Alone'
  BY <1>5 DEF FnReturns
<1>6. ASSUME NEW c \in Callers, FnPanics(c) PROVE Alone'
  BY <1>6 DEF FnPanics
<1>7. ASSUME NEW c \in Callers, Roll(c) PROVE Alone'
  BY <1>7 DEF Roll
<1>8. ASSUME NEW c \in Callers, CheckBreached(c) PROVE Alone'
  BY <1>8 DEF CheckBreached
<1>9. ASSUME NEW c \in Callers, CountCall(c) PROVE Alone'
  BY <1>9 DEF CountCall
<1>10. ASSUME NEW c \in Callers, ChargeTokens(c) PROVE Alone'
  BY <1>10 DEF ChargeTokens, Charge
<1>11. ASSUME NEW c \in Callers, ChargeUSD(c) PROVE Alone'
  BY <1>11 DEF ChargeUSD, Charge
<1>12. ASSUME NEW c \in Callers, LoadTokens(c) PROVE Alone'
  BY <1>12 DEF LoadTokens, Load
<1>13. ASSUME NEW c \in Callers, LoadUSD(c) PROVE Alone'
  BY <1>13 DEF LoadUSD, Load
<1>14. ASSUME NEW c \in Callers, LoadCalls(c) PROVE Alone'
  BY <1>14 DEF LoadCalls, Load
<1>15. ASSUME NEW c \in Callers, Evaluate(c) PROVE Alone'
  BY <1>15 DEF Evaluate
<1>16. ASSUME NEW c \in Callers, MarkBreach(c) PROVE Alone'
  BY <1>16 DEF MarkBreach
<1>17. ASSUME NEW c \in Callers, FireOnExceeded(c) PROVE Alone'
  BY <1>17 DEF FireOnExceeded
<1>18. ASSUME NEW a \in Actors, ClearTokens(a) PROVE Alone'
  BY <1>18 DEF ClearTokens, Clear
<1>19. ASSUME NEW a \in Actors, ClearUSD(a) PROVE Alone'
  BY <1>19 DEF ClearUSD, Clear
<1>20. ASSUME NEW a \in Actors, ClearCalls(a) PROVE Alone'
  BY <1>20 DEF ClearCalls, Clear
<1>21. ASSUME NEW a \in Actors, ClearBreach(a) PROVE Alone'
  BY <1>21 DEF ClearBreach
<1>22. CASE Reset
  BY <1>22 DEF Reset
<1>23. CASE Tick
  BY <1>23 DEF Tick
<1> QED BY <1>1, <1>2, <1>3, <1>4, <1>5, <1>6, <1>7, <1>8, <1>9, <1>10, <1>11, <1>12, <1>13, 
           <1>14, <1>15, <1>16, <1>17, <1>18, <1>19, <1>20, <1>21, <1>22, <1>23
        DEF Next, Entering, Running, Bookkeeping, Clearing

\* Charges reach both totals and resets clear both.
LEMMA BalancedStep ==
  ASSUME TypeOK, Exclusive, Balanced, Next
  PROVE  Balanced'
<1> USE ConfigAssumption, ActorAssumption
    DEF TypeOK, Counters, Pcs, Exclusive, LockedPcs, ClearPcs, Balanced, Adrift, At, Goto, Return, Lock, Unlock, Windowed, Idle, NoCost, Zero, Free, Admin, Actors, history, MeetsReset
<1>1. ASSUME NEW c \in Callers, Begin(c) PROVE Balanced'
  BY <1>1 DEF Begin
<1>2. ASSUME NEW c \in Callers, Enter(c) PROVE Balanced'
  BY <1>2 DEF Enter
<1>3. ASSUME NEW c \in Callers, AskCharge(c) PROVE Balanced'
  BY <1>3 DEF AskCharge
<1>4. ASSUME NEW c \in Callers, ChargePanics(c) PROVE Balanced'
  BY <1>4 DEF ChargePanics
<1>5. ASSUME NEW c \in Callers, FnReturns(c) PROVE Balanced'
  BY <1>5 DEF FnReturns
<1>6. ASSUME NEW c \in Callers, FnPanics(c) PROVE Balanced'
  BY <1>6 DEF FnPanics
<1>7. ASSUME NEW c \in Callers, Roll(c) PROVE Balanced'
  BY <1>7 DEF Roll
<1>8. ASSUME NEW c \in Callers, CheckBreached(c) PROVE Balanced'
  BY <1>8 DEF CheckBreached
<1>9. ASSUME NEW c \in Callers, CountCall(c) PROVE Balanced'
  BY <1>9 DEF CountCall
<1>10. ASSUME NEW c \in Callers, ChargeTokens(c) PROVE Balanced'
  BY <1>10 DEF ChargeTokens, Charge
<1>11. ASSUME NEW c \in Callers, ChargeUSD(c) PROVE Balanced'
  BY <1>11 DEF ChargeUSD, Charge
<1>12. ASSUME NEW c \in Callers, LoadTokens(c) PROVE Balanced'
  BY <1>12 DEF LoadTokens, Load
<1>13. ASSUME NEW c \in Callers, LoadUSD(c) PROVE Balanced'
  BY <1>13 DEF LoadUSD, Load
<1>14. ASSUME NEW c \in Callers, LoadCalls(c) PROVE Balanced'
  BY <1>14 DEF LoadCalls, Load
<1>15. ASSUME NEW c \in Callers, Evaluate(c) PROVE Balanced'
  BY <1>15 DEF Evaluate
<1>16. ASSUME NEW c \in Callers, MarkBreach(c) PROVE Balanced'
  BY <1>16 DEF MarkBreach
<1>17. ASSUME NEW c \in Callers, FireOnExceeded(c) PROVE Balanced'
  BY <1>17 DEF FireOnExceeded
<1>18. ASSUME NEW a \in Actors, ClearTokens(a) PROVE Balanced'
  BY <1>18 DEF ClearTokens, Clear
<1>19. ASSUME NEW a \in Actors, ClearUSD(a) PROVE Balanced'
  BY <1>19 DEF ClearUSD, Clear
<1>20. ASSUME NEW a \in Actors, ClearCalls(a) PROVE Balanced'
  BY <1>20 DEF ClearCalls, Clear
<1>21. ASSUME NEW a \in Actors, ClearBreach(a) PROVE Balanced'
  BY <1>21 DEF ClearBreach
<1>22. CASE Reset
  BY <1>22 DEF Reset
<1>23. CASE Tick
  BY <1>23 DEF Tick
<1> QED BY <1>1, <1>2, <1>3, <1>4, <1>5, <1>6, <1>7, <1>8, <1>9, <1>10, <1>11, <1>12, <1>13, 
           <1>14, <1>15, <1>16, <1>17, <1>18, <1>19, <1>20, <1>21, <1>22, <1>23
        DEF Next, Entering, Running, Bookkeeping, Clearing

\* A call is counted before it runs, and cleared when its count is.
LEMMA CountedStep ==
  ASSUME TypeOK, Counted, Next
  PROVE  Counted'
<1> USE ConfigAssumption, ActorAssumption
    DEF TypeOK, Counters, Counted, CallsCapped, At, Goto, Return, Lock, Unlock, Windowed, Idle, NoCost, Zero, Free, Admin, Actors, history, MeetsReset
<1>1. ASSUME NEW c \in Callers, Begin(c) PROVE Counted'
  BY <1>1 DEF Begin
<1>2. ASSUME NEW c \in Callers, Enter(c) PROVE Counted'
  BY <1>2 DEF Enter
<1>3. ASSUME NEW c \in Callers, AskCharge(c) PROVE Counted'
  BY <1>3 DEF AskCharge
<1>4. ASSUME NEW c \in Callers, ChargePanics(c) PROVE Counted'
  BY <1>4 DEF ChargePanics
<1>5. ASSUME NEW c \in Callers, FnReturns(c) PROVE Counted'
  BY <1>5 DEF FnReturns
<1>6. ASSUME NEW c \in Callers, FnPanics(c) PROVE Counted'
  BY <1>6 DEF FnPanics
<1>7. ASSUME NEW c \in Callers, Roll(c) PROVE Counted'
  BY <1>7 DEF Roll
<1>8. ASSUME NEW c \in Callers, CheckBreached(c) PROVE Counted'
  BY <1>8 DEF CheckBreached
<1>9. ASSUME NEW c \in Callers, CountCall(c) PROVE Counted'
  BY <1>9 DEF CountCall
<1>10. ASSUME NEW c \in Callers, ChargeTokens(c) PROVE Counted'
  BY <1>10 DEF ChargeTokens, Charge
<1>11. ASSUME NEW c \in Callers, ChargeUSD(c) PROVE Counted'
  BY <1>11 DEF ChargeUSD, Charge
<1>12. ASSUME NEW c \in Callers, LoadTokens(c) PROVE Counted'
  BY <1>12 DEF LoadTokens, Load
<1>13. ASSUME NEW c \in Callers, LoadUSD(c) PROVE Counted'
  BY <1>13 DEF LoadUSD, Load
<1>14. ASSUME NEW c \in Callers, LoadCalls(c) PROVE Counted'
  BY <1>14 DEF LoadCalls, Load
<1>15. ASSUME NEW c \in Callers, Evaluate(c) PROVE Counted'
  BY <1>15 DEF Evaluate
<1>16. ASSUME NEW c \in Callers, MarkBreach(c) PROVE Counted'
  BY <1>16 DEF MarkBreach
<1>17. ASSUME NEW c \in Callers, FireOnExceeded(c) PROVE Counted'
  BY <1>17 DEF FireOnExceeded
<1>18. ASSUME NEW a \in Actors, ClearTokens(a) PROVE Counted'
  BY <1>18 DEF ClearTokens, Clear
<1>19. ASSUME NEW a \in Actors, ClearUSD(a) PROVE Counted'
  BY <1>19 DEF ClearUSD, Clear
<1>20. ASSUME NEW a \in Actors, ClearCalls(a) PROVE Counted'
  BY <1>20 DEF ClearCalls, Clear
<1>21. ASSUME NEW a \in Actors, ClearBreach(a) PROVE Counted'
  BY <1>21 DEF ClearBreach
<1>22. CASE Reset
  BY <1>22 DEF Reset
<1>23. CASE Tick
  BY <1>23 DEF Tick
<1> QED BY <1>1, <1>2, <1>3, <1>4, <1>5, <1>6, <1>7, <1>8, <1>9, <1>10, <1>11, <1>12, <1>13, 
           <1>14, <1>15, <1>16, <1>17, <1>18, <1>19, <1>20, <1>21, <1>22, <1>23
        DEF Next, Entering, Running, Bookkeeping, Clearing

-----------------------------------------------------------------------------
(* The breach flag.  A Reset without a window that overlaps nobody's bookkeeping  *)
(* is as good as one under windowMu.                                              *)

\* Whoever clears the counters does so beside nobody's bookkeeping, unless torn.
Undisturbed ==
  ~torn => \A a, b \in Actors :
             a # b /\ op[a].pc \in ClearPcs => op[b].pc \notin LockedPcs

\* Totals only fall when nobody has a snapshot; what a call has loaded is not more than
\* what is there, and whoever is about to mark the breach is right.
Snapshots ==
  ~torn => \A a \in Actors :
    /\ op[a].pc \in {"clearUSD", "clearCalls", "clearBreach"} => total.tokens = 0
    /\ op[a].pc \in {"clearCalls", "clearBreach"} => total.usd = 0
    /\ op[a].pc = "clearBreach" => total.calls = 0
    /\ op[a].pc \in {"loadUSD", "loadCalls", "evaluate"} => op[a].seen.tokens <= total.tokens
    /\ op[a].pc \in {"loadCalls", "evaluate"} => op[a].seen.usd <= total.usd
    /\ op[a].pc = "evaluate" => op[a].seen.calls <= total.calls
    /\ op[a].pc = "mark" => Over(total)

\* No reset is under way and the last one overlapped nobody's bookkeeping.
Whole == ~torn /\ \A a \in Actors : op[a].pc \notin ClearPcs

\* A breach is a breach until a reset begins.
BreachTrue == Whole /\ breached => Over(total)

\* As long as a total over its ceiling is not marked, some call is on its way to see it.
SeesTokens(a) == \/ op[a].pc \in {"chargeUSD", "loadTokens", "mark"}
                 \/ op[a].pc \in {"loadUSD", "loadCalls", "evaluate"} /\ op[a].seen.tokens > MaxTokens
SeesUSD(a) == \/ op[a].pc \in {"loadTokens", "loadUSD", "mark"}
              \/ op[a].pc \in {"loadCalls", "evaluate"} /\ op[a].seen.usd > MaxUSD
Noticed ==
  Whole /\ ~breached =>
    /\ MaxTokens > 0 /\ total.tokens > MaxTokens => \E a \in Actors : SeesTokens(a)
    /\ MaxUSD > 0 /\ total.usd > MaxUSD => \E a \in Actors : SeesUSD(a)
    /\ MaxCalls > 0 /\ total.calls > MaxCalls => \E a \in Actors : op[a].pc = "mark"

\* With a window because of windowMu, without one because nobody tore the Reset.
LEMMA ResetsUndisturbed == TypeOK /\ Exclusive /\ Alone => Undisturbed
BY ActorAssumption DEF TypeOK, Exclusive, Alone, Undisturbed, LockedPcs, ClearPcs, Resting, Windowed, Actors

\* Snapshots are not overtaken by a reset.
LEMMA SnapshotsStep ==
  ASSUME TypeOK, Exclusive, Undisturbed, Snapshots, Next
  PROVE  Snapshots'
<1> USE ConfigAssumption, ActorAssumption
    DEF TypeOK, Counters, Pcs, Undisturbed, LockedPcs, ClearPcs, Snapshots, Over, At, Goto, Return, Lock, Unlock, Windowed, Idle, NoCost, Zero, Free, Admin, Actors, history, MeetsReset
<1>1. ASSUME NEW c \in Callers, Begin(c) PROVE Snapshots'
  BY <1>1 DEF Begin
<1>2. ASSUME NEW c \in Callers, Enter(c) PROVE Snapshots'
  BY <1>2 DEF Enter
<1>3. ASSUME NEW c \in Callers, AskCharge(c) PROVE Snapshots'
  BY <1>3 DEF AskCharge
<1>4. ASSUME NEW c \in Callers, ChargePanics(c) PROVE Snapshots'
  BY <1>4 DEF ChargePanics
<1>5. ASSUME NEW c \in Callers, FnReturns(c) PROVE Snapshots'
  BY <1>5 DEF FnReturns
<1>6. ASSUME NEW c \in Callers, FnPanics(c) PROVE Snapshots'
  BY <1>6 DEF FnPanics
<1>7. ASSUME NEW c \in Callers, Roll(c) PROVE Snapshots'
  BY <1>7 DEF Roll
<1>8. ASSUME NEW c \in Callers, CheckBreached(c) PROVE Snapshots'
  BY <1>8 DEF CheckBreached
<1>9. ASSUME NEW c \in Callers, CountCall(c) PROVE Snapshots'
  BY <1>9 DEF CountCall
<1>10. ASSUME NEW c \in Callers, ChargeTokens(c) PROVE Snapshots'
  BY <1>10 DEF ChargeTokens, Charge
<1>11. ASSUME NEW c \in Callers, ChargeUSD(c) PROVE Snapshots'
  BY <1>11 DEF ChargeUSD, Charge
<1>12. ASSUME NEW c \in Callers, LoadTokens(c) PROVE Snapshots'
  BY <1>12 DEF LoadTokens, Load
<1>13. ASSUME NEW c \in Callers, LoadUSD(c) PROVE Snapshots'
  BY <1>13 DEF LoadUSD, Load
<1>14. ASSUME NEW c \in Callers, LoadCalls(c) PROVE Snapshots'
  BY <1>14 DEF LoadCalls, Load
<1>15. ASSUME NEW c \in Callers, Evaluate(c) PROVE Snapshots'
  BY <1>15 DEF Evaluate
<1>16. ASSUME NEW c \in Callers, MarkBreach(c) PROVE Snapshots'
  BY <1>16, SMTT(30) DEF MarkBreach
<1>17. ASSUME NEW c \in Callers, FireOnExceeded(c) PROVE Snapshots'
  BY <1>17 DEF FireOnExceeded
<1>18. ASSUME NEW a \in Actors, ClearTokens(a) PROVE Snapshots'
  BY <1>18 DEF ClearTokens, Clear
<1>19. ASSUME NEW a \in Actors, ClearUSD(a) PROVE Snapshots'
  BY <1>19 DEF ClearUSD, Clear
<1>20. ASSUME NEW a \in Actors, ClearCalls(a) PROVE Snapshots'
  BY <1>20 DEF ClearCalls, Clear
<1>21. ASSUME NEW a \in Actors, ClearBreach(a) PROVE Snapshots'
  BY <1>21 DEF ClearBreach
<1>22. CASE Reset
  BY <1>22 DEF Reset, Resting, Exclusive
<1>23. CASE Tick
  BY <1>23 DEF Tick
<1> QED BY <1>1, <1>2, <1>3, <1>4, <1>5, <1>6, <1>7, <1>8, <1>9, <1>10, <1>11, <1>12, <1>13, 
           <1>14, <1>15, <1>16, <1>17, <1>18, <1>19, <1>20, <1>21, <1>22, <1>23
        DEF Next, Entering, Running, Bookkeeping, Clearing

\* The flag is set by a call that saw a total over its ceiling.
LEMMA BreachTrueStep ==
  ASSUME TypeOK, Undisturbed, Snapshots, BreachTrue, Next
  PROVE  BreachTrue'
<1> USE ConfigAssumption, ActorAssumption
    DEF TypeOK, Counters, Pcs, Undisturbed, LockedPcs, ClearPcs, Snapshots, BreachTrue, Whole, Over, At, Goto, Return, Lock, Unlock, Windowed, Idle, NoCost, Zero, Free, Admin, Actors, history, MeetsReset
<1>1. ASSUME NEW c \in Callers, Begin(c) PROVE BreachTrue'
  BY <1>1 DEF Begin
<1>2. ASSUME NEW c \in Callers, Enter(c) PROVE BreachTrue'
  BY <1>2 DEF Enter
<1>3. ASSUME NEW c \in Callers, AskCharge(c) PROVE BreachTrue'
  BY <1>3 DEF AskCharge
<1>4. ASSUME NEW c \in Callers, ChargePanics(c) PROVE BreachTrue'
  BY <1>4 DEF ChargePanics
<1>5. ASSUME NEW c \in Callers, FnReturns(c) PROVE BreachTrue'
  BY <1>5 DEF FnReturns
<1>6. ASSUME NEW c \in Callers, FnPanics(c) PROVE BreachTrue'
  BY <1>6 DEF FnPanics
<1>7. ASSUME NEW c \in Callers, Roll(c) PROVE BreachTrue'
  BY <1>7 DEF Roll
<1>8. ASSUME NEW c \in Callers, CheckBreached(c) PROVE BreachTrue'
  BY <1>8 DEF CheckBreached
<1>9. ASSUME NEW c \in Callers, CountCall(c) PROVE BreachTrue'
  BY <1>9 DEF CountCall
<1>10. ASSUME NEW c \in Callers, ChargeTokens(c) PROVE BreachTrue'
  BY <1>10 DEF ChargeTokens, Charge
<1>11. ASSUME NEW c \in Callers, ChargeUSD(c) PROVE BreachTrue'
  BY <1>11 DEF ChargeUSD, Charge
<1>12. ASSUME NEW c \in Callers, LoadTokens(c) PROVE BreachTrue'
  BY <1>12 DEF LoadTokens, Load
<1>13. ASSUME NEW c \in Callers, LoadUSD(c) PROVE BreachTrue'
  BY <1>13 DEF LoadUSD, Load
<1>14. ASSUME NEW c \in Callers, LoadCalls(c) PROVE BreachTrue'
  BY <1>14 DEF LoadCalls, Load
<1>15. ASSUME NEW c \in Callers, Evaluate(c) PROVE BreachTrue'
  BY <1>15 DEF Evaluate
<1>16. ASSUME NEW c \in Callers, MarkBreach(c) PROVE BreachTrue'
  BY <1>16 DEF MarkBreach
<1>17. ASSUME NEW c \in Callers, FireOnExceeded(c) PROVE BreachTrue'
  BY <1>17 DEF FireOnExceeded
<1>18. ASSUME NEW a \in Actors, ClearTokens(a) PROVE BreachTrue'
  BY <1>18 DEF ClearTokens, Clear
<1>19. ASSUME NEW a \in Actors, ClearUSD(a) PROVE BreachTrue'
  BY <1>19 DEF ClearUSD, Clear
<1>20. ASSUME NEW a \in Actors, ClearCalls(a) PROVE BreachTrue'
  BY <1>20 DEF ClearCalls, Clear
<1>21. ASSUME NEW a \in Actors, ClearBreach(a) PROVE BreachTrue'
  BY <1>21 DEF ClearBreach
<1>22. CASE Reset
  BY <1>22 DEF Reset
<1>23. CASE Tick
  BY <1>23 DEF Tick
<1> QED BY <1>1, <1>2, <1>3, <1>4, <1>5, <1>6, <1>7, <1>8, <1>9, <1>10, <1>11, <1>12, <1>13, 
           <1>14, <1>15, <1>16, <1>17, <1>18, <1>19, <1>20, <1>21, <1>22, <1>23
        DEF Next, Entering, Running, Bookkeeping, Clearing

\* No total goes over its ceiling unnoticed.
LEMMA NoticedStep ==
  ASSUME TypeOK, Undisturbed, Snapshots, Noticed, Next
  PROVE  Noticed'
<1> USE ConfigAssumption, ActorAssumption
    DEF TypeOK, Counters, Pcs, Undisturbed, LockedPcs, ClearPcs, Noticed, Whole, SeesTokens, SeesUSD, At, Goto, Return, Lock, Unlock, Windowed, Idle, NoCost, Zero, Free, Admin, Actors, history, MeetsReset
<1>1. ASSUME NEW c \in Callers, Begin(c) PROVE Noticed'
  BY <1>1 DEF Begin
<1>2. ASSUME NEW c \in Callers, Enter(c) PROVE Noticed'
  BY <1>2 DEF Enter
<1>3. ASSUME NEW c \in Callers, AskCharge(c) PROVE Noticed'
  BY <1>3 DEF AskCharge
<1>4. ASSUME NEW c \in Callers, ChargePanics(c) PROVE Noticed'
  BY <1>4 DEF ChargePanics
<1>5. ASSUME NEW c \in Callers, FnReturns(c) PROVE Noticed'
  BY <1>5 DEF FnReturns
<1>6. ASSUME NEW c \in Callers, FnPanics(c) PROVE Noticed'
  BY <1>6 DEF FnPanics
<1>7. ASSUME NEW c \in Callers, Roll(c) PROVE Noticed'
  BY <1>7 DEF Roll
<1>8. ASSUME NEW c \in Callers, CheckBreached(c) PROVE Noticed'
  BY <1>8 DEF CheckBreached
<1>9. ASSUME NEW c \in Callers, CountCall(c) PROVE Noticed'
  BY <1>9 DEF CountCall
<1>10. ASSUME NEW c \in Callers, ChargeTokens(c) PROVE Noticed'
  BY <1>10 DEF ChargeTokens, Charge
<1>11. ASSUME NEW c \in Callers, ChargeUSD(c) PROVE Noticed'
  BY <1>11 DEF ChargeUSD, Charge
<1>12. ASSUME NEW c \in Callers, LoadTokens(c) PROVE Noticed'
  BY <1>12 DEF LoadTokens, Load
<1>13. ASSUME NEW c \in Callers, LoadUSD(c) PROVE Noticed'
  BY <1>13 DEF LoadUSD, Load
<1>14. ASSUME NEW c \in Callers, LoadCalls(c) PROVE Noticed'
  BY <1>14 DEF LoadCalls, Load
<1>15. ASSUME NEW c \in Callers, Evaluate(c) PROVE Noticed'
  BY <1>15, SMTT(30) DEF Evaluate, Over
<1>16. ASSUME NEW c \in Callers, MarkBreach(c) PROVE Noticed'
  BY <1>16 DEF MarkBreach
<1>17. ASSUME NEW c \in Callers, FireOnExceeded(c) PROVE Noticed'
  BY <1>17 DEF FireOnExceeded
<1>18. ASSUME NEW a \in Actors, ClearTokens(a) PROVE Noticed'
  BY <1>18 DEF ClearTokens, Clear
<1>19. ASSUME NEW a \in Actors, ClearUSD(a) PROVE Noticed'
  BY <1>19 DEF ClearUSD, Clear
<1>20. ASSUME NEW a \in Actors, ClearCalls(a) PROVE Noticed'
  BY <1>20 DEF ClearCalls, Clear
<1>21. ASSUME NEW a \in Actors, ClearBreach(a) PROVE Noticed'
  <2>1. ~torn => total.tokens = 0 /\ total.usd = 0 /\ total.calls = 0
    BY <1>21 DEF ClearBreach, Snapshots
  <2> QED BY <1>21, <2>1 DEF ClearBreach
<1>22. CASE Reset
  BY <1>22 DEF Reset
<1>23. CASE Tick
  BY <1>23 DEF Tick
<1> QED BY <1>1, <1>2, <1>3, <1>4, <1>5, <1>6, <1>7, <1>8, <1>9, <1>10, <1>11, <1>12, <1>13, 
           <1>14, <1>15, <1>16, <1>17, <1>18, <1>19, <1>20, <1>21, <1>22, <1>23
        DEF Next, Entering, Running, Bookkeeping, Clearing

-----------------------------------------------------------------------------
(* The theorems.                                                            *)

IInv == TypeOK /\ Exclusive /\ Alone /\ Balanced /\ Counted

\* A new budget (New).
LEMMA InitIInv == Init => IInv
<1> SUFFICES ASSUME Init PROVE IInv
  OBVIOUS
<1> USE ConfigAssumption DEF Init, Zero, NoCost, Idle
<1>1. TypeOK
  <2>1. window \in [open : BOOLEAN, start : Nat, length : Nat]
    OBVIOUS
  <2>2. op \in [Actors -> [pc : Pcs, cost : [tokens : Nat, usd : Nat], seen : Counters]]
    BY DEF Counters, Pcs
  <2> QED BY <2>1, <2>2 DEF TypeOK, Counters
<1>2. Exclusive
  BY DEF Exclusive, LockedPcs, ClearPcs
<1>3. Balanced
  BY DEF Balanced, Adrift
<1>4. Counted
  BY DEF Counted, CallsCapped
<1>5. Alone
  BY DEF Alone, ClearPcs, Actors
<1> QED BY <1>1, <1>2, <1>3, <1>4, <1>5 DEF IInv

\* Every step keeps the inductive invariant.
LEMMA NextIInv == IInv /\ [Next]_vars => IInv'
<1> SUFFICES ASSUME IInv, [Next]_vars PROVE IInv'
  OBVIOUS
<1>1. CASE Next
  BY <1>1, TypeStep, ExclusiveStep, AloneStep, BalancedStep, CountedStep DEF IInv
<1>2. CASE UNCHANGED vars
  BY <1>2 DEF vars, IInv, TypeOK, Exclusive, Alone, Windowed, Balanced, Counted, CallsCapped
<1> QED BY <1>1, <1>2

\* The inductive invariant holds in every run of a budget.
THEOREM Invariance == Spec => []IInv
BY InitIInv, NextIInv, PTL DEF Spec

\* Counters never go negative and goroutines stay at the steps of Execute and Reset
\* (budget.go:121-138).
THEOREM TypeCorrect == Spec => []TypeOK
<1>1. IInv => TypeOK
  BY DEF IInv
<1> QED BY <1>1, Invariance, PTL

\* Between two resets fn is started at most MaxCalls times, however many callers race,
\* and whenever Reset is called (budget.go:177).
THEOREM CallsAreCapped == Spec => []CallsCapped
<1>1. IInv => CallsCapped
  BY DEF IInv, Counted
<1> QED BY <1>1, Invariance, PTL

\* With a rolling window no charge is lost or torn by a reset, also if Charge panics
\* (budget.go:205-211, 305-309).
THEOREM TotalsAreExact == Spec => []WindowTotalsExact
<1>1. IInv => WindowTotalsExact
  BY DEF IInv, Balanced, Adrift, WindowTotalsExact, Settled
<1> QED BY <1>1, Invariance, PTL

\* Breached says exactly whether some total is over its ceiling, once the calls in
\* progress have done their bookkeeping (budget.go:196-200, 276-278, 329-335): with a
\* window always, and without one unless the last Reset overlapped a call's bookkeeping,
\* where the code gives no such guarantee (budget.go:198, 297).
THEOREM FlagIsRight == Spec => []BreachedWhenOver
<1> DEFINE BInv == Snapshots /\ BreachTrue /\ Noticed
<1>1. Init => BInv
  BY ConfigAssumption DEF Init, Zero, NoCost, Idle, Snapshots, BreachTrue, Noticed, ClearPcs
<1>2. IInv /\ BInv /\ [Next]_vars => BInv'
  <2> SUFFICES ASSUME IInv, BInv, [Next]_vars PROVE BInv'
    OBVIOUS
  <2>1. CASE Next
    BY <2>1, ResetsUndisturbed, SnapshotsStep, BreachTrueStep, NoticedStep DEF IInv
  <2>2. CASE UNCHANGED vars
    BY <2>2 DEF vars, Snapshots, BreachTrue, Noticed, Whole, SeesTokens, SeesUSD, Over
  <2> QED BY <2>1, <2>2
<1>3. IInv /\ BInv => BreachedWhenOver
  BY DEF BreachTrue, Noticed, Whole, ClearPcs, SeesTokens, SeesUSD, BreachedWhenOver, Settled,
         Over, IInv, TypeOK
<1> QED BY <1>1, <1>2, <1>3, Invariance, PTL DEF Spec
=============================================================================
