---------------------------- MODULE MCHostInstall -----------------------------
(***************************************************************************)
(* A host of Node, one for an architecture that is not installed, and one  *)
(* of Bun, for TLC.  Hosts of VS Code are passed over as the second is and *)
(* refused as the third is, and are left to the proofs.                    *)
(***************************************************************************)
EXTENDS HostInstall

CONSTANTS n1, n2, b1

MCHosts == {n1, n2, b1}
MCKindOf == [h \in MCHosts |-> IF h = b1 THEN "bun" ELSE "node"]
MCOtherArch == {n2}
MCPairs == {<<"other", TRUE>>, <<"default", TRUE>>, <<"disabled", TRUE>>, <<"disabled", FALSE>>}
=============================================================================
