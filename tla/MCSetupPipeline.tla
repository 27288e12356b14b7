--------------------------- MODULE MCSetupPipeline ---------------------------
(***************************************************************************)
(* SetupPipeline for TLC: all presets and scenarios, the hosts of the      *)
(* presets and one more, a preset with up to two arguments.                *)
(***************************************************************************)
EXTENDS SetupPipeline

MCHostLists == {<<"node22">>, <<"bun", "vscode">>}
MCSanitized ==
    ("node20" :> "node_20_5_1") @@ ("node18" :> "node_18_15_0") @@ ("bun" :> "bun_1_1_24")
    @@ ("vscode" :> "vscode_1_82_1") @@ ("native" :> "native") @@ ("node22" :> "node_22_8_0")
=============================================================================
