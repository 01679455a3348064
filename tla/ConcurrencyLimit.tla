--------------------------- MODULE ConcurrencyLimit ---------------------------
(***************************************************************************)
(* What a concurrency limiter promises: each piece of work runs at most    *)
(* once, and never more than Limit pieces at the same time.                *)
(***************************************************************************)
EXTENDS Naturals, FiniteSets

CONSTANTS Work, Limit

VARIABLES running, finished
vars == <<running, finished>>

Init == running = {} /\ finished = {}

Start(w) == /\ w \notin running \cup finished
            /\ Cardinality(running) < Limit
            /\ running' = running \cup {w}
            /\ UNCHANGED finished

Finish(w) == /\ w \in running
             /\ running' = running \ {w}
             /\ finished' = finished \cup {w}

Next == \E w \in Work : Start(w) \/ Finish(w)

Spec == Init /\ [][Next]_vars
=============================================================================
