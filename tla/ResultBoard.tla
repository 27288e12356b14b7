------------------------------ MODULE ResultBoard ------------------------------
(***************************************************************************)
(* What postPerfResult promises to the people who read a status comment:   *)
(* the comment has one entry per requested run, a run that has reported    *)
(* success has its entry filled in, and from then on nobody empties it.    *)
(* While a run is still reporting, its entry may come and go.              *)
(***************************************************************************)
CONSTANT Posters

VARIABLES
    filled,     \* the posters whose placeholder is not in the comment
    outcome     \* what each poster's process has come to

bvars == <<filled, outcome>>

Init ==
    /\ filled \subseteq Posters
    /\ outcome = [p \in Posters |-> "working"]

(* The comment is rewritten: entries change, those of successful posters only *)
(* by being filled.                                                           *)
Rewrite ==
    /\ filled' \subseteq Posters
    /\ \A p \in Posters : outcome[p] = "done" => p \in filled'
    /\ UNCHANGED outcome

Succeed(p) ==
    /\ outcome[p] = "working"
    /\ p \in filled
    /\ outcome' = [outcome EXCEPT ![p] = "done"]
    /\ UNCHANGED filled

(* A poster may fail while its last rewrite takes effect. *)
Fail(p) ==
    /\ outcome[p] = "working"
    /\ outcome' = [outcome EXCEPT ![p] = "failed"]
    /\ filled' \subseteq Posters
    /\ \A q \in Posters : outcome[q] = "done" => q \in filled'

Next == Rewrite \/ \E p \in Posters : Succeed(p) \/ Fail(p)

Spec == Init /\ [][Next]_bvars
=============================================================================
