-------------------------- MODULE MCBenchmarkPipeline --------------------------
(***************************************************************************)
(* BenchmarkPipeline for TLC: two agents, two jobs of one kind (of which   *)
(* one may be missing from a merge) and a third of another kind.           *)
(***************************************************************************)
EXTENDS BenchmarkPipeline, TLC

CONSTANTS j1, j2, j3

MCJobs == {j1, j2, j3}
MCKind == (j1 :> "tsc") @@ (j2 :> "tsc") @@ (j3 :> "startup")
=============================================================================
