------------------------------ MODULE MCBackfill ------------------------------
(* Three commits, of which the first two are backfilled, and up to three runs of two kinds. *)
EXTENDS Backfill

MCKinds == {"tsc", "tsserver"}
=============================================================================
