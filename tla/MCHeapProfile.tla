---------------------------- MODULE MCHeapProfile ----------------------------
(***************************************************************************)
(* HeapProfile for TLC: a compiler with two marks, of which any may be     *)
(* events of --event, in up to three turns.                                *)
(***************************************************************************)
EXTENDS HeapProfile
=============================================================================
