--------------------------- MODULE MCPostPerfResult ---------------------------
(* PostPerfResult for TLC: model values for the posters, which the actions do  *)
(* not tell apart, so that the safety runs may use their symmetry.             *)
EXTENDS PostPerfResult, TLC

PosterSymmetry == Permutations(Posters)
=============================================================================
