------------------------------ MODULE MCPerCall ------------------------------
(* TLC instance of the patterns that keep no state between calls: one call of   *)
(* StreamTimeout or one hedged call.  The other one has ended and takes no step. *)
(* StreamTimeout gets every combination of enabled and disabled deadlines, with *)
(* the three limits in different orders; Hedge an unset, a single and a larger  *)
(* number of attempts.                                                          *)
EXTENDS PerCall

MCStreamConfigs ==
  {c \in [first : {0, 1, 2}, idle : {0, 2}, total : {0, 1, 3}] :
     c.first > 0 \/ c.idle > 0 \/ c.total > 0}

MCRawAttempts == {-1, 1, 3}

\* A stream with a total deadline that ended at once.
StreamEnded ==
  /\ cfg = [w \in Stream!Watchdogs |-> IF w = "total" THEN 3 ELSE 0]
  /\ clock = 0 /\ marked = FALSE /\ stage = "none" /\ parent = FALSE
  /\ dog = [w \in Stream!Watchdogs |-> IF w = "total" THEN "gone" ELSE "off"] /\ deadline = cfg
  /\ fn = "over" /\ answer = "result" /\ lastMark = 0 /\ longest = 0

\* A hedged call that was refused because its context was cancelled.
HedgeEnded ==
  /\ hedge = [kind |-> "hedge", max |-> 1]
  /\ hpc = "returned" /\ winner = "cancelled" /\ ctxDone = TRUE
  /\ attempt = [i \in Hedge!Attempts |-> "unfired"] /\ outcome = [i \in Hedge!Attempts |-> "none"]
  /\ results = <<>> /\ timer = "off" /\ fired = 0 /\ collected = 0

PerCallInit == (Stream!Init /\ HedgeEnded) \/ (Hedge!Init /\ StreamEnded)

PerCallNext == (Stream!Next /\ UNCHANGED hedgeVars) \/ (Hedge!Next /\ UNCHANGED streamVars)

PerCallSpec ==
  PerCallInit /\ [][PerCallNext]_<<streamVars, hedgeVars>> /\ Stream!Fairness /\ Hedge!Fairness
==============================================================================
