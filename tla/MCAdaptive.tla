------------------------------ MODULE MCAdaptive ------------------------------
(* Small instances of Adaptive; the callers are interchangeable.              *)
EXTENDS Adaptive, TLC

Base == [Algorithm |-> "aimd", InitialLimit |-> 5, MinLimit |-> 3, MaxLimit |-> 6,
         SuccessThreshold |-> 2, VegasAlpha |-> 1, VegasBeta |-> 2, MinSamples |-> 2,
         GradientSmoothing |-> <<1, 2>>]

\* The three algorithms; limits that contradict each other, fields that are missing
\* (the initial limit of 10 is then above the ceiling), a smoothing above 1 or NaN;
\* a ceiling that wraps to -1, and one with no room above it.
MCConfigs ==
  {[Base EXCEPT !.Algorithm = a] : a \in {"aimd", "vegas", "gradient2"}}
  \cup { [Base EXCEPT !.MaxLimit = 2, !.InitialLimit = -1],
         [Base EXCEPT !.MinLimit = 0, !.InitialLimit = 0, !.MaxLimit = 4, !.SuccessThreshold = 1],
         [Base EXCEPT !.Algorithm = "vegas", !.VegasBeta = 0, !.MaxLimit = 5],
         [Base EXCEPT !.Algorithm = "gradient2", !.GradientSmoothing = <<3, 2>>, !.MinLimit = 5],
         [Base EXCEPT !.Algorithm = "gradient2", !.GradientSmoothing = <<0, 0>>, !.MinLimit = 5],
         [Base EXCEPT !.Algorithm = "gradient2", !.MaxLimit = 511],
         [Base EXCEPT !.Algorithm = "gradient2", !.InitialLimit = 255, !.MinLimit = 254,
                      !.MaxLimit = 255, !.GradientSmoothing = <<1, 1>>] }

Symmetry == Permutations(Callers)
=============================================================================
