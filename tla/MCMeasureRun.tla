----------------------------- MODULE MCMeasureRun -----------------------------
(***************************************************************************)
(* MeasureRun for TLC: one pair with a warmup and two measured iterations, *)
(* so that lines of three iterations and two passes are in the pipes at    *)
(* once.  The states of a second pair multiply with these: the theorems of *)
(* MeasureRun_proofs are about any number of pairs.                        *)
(***************************************************************************)
EXTENDS MeasureRun

MCKinds == {"tsc", "server", "startup"}
=============================================================================
