---------------------------- MODULE MCResultFiles ----------------------------
(* Two local files and a blob, one host twice, for TLC. *)
EXTENDS ResultFiles

CONSTANTS f1, f2, blob, s1, s2, r1, r2, total, types, other

Node == [name |-> "node", version |-> "v20"]
Path == [name |-> "node", version |-> None]

MCScenarios == <<s1, s2, s1>>   \* one overrides the other: both are found
MCHosts == <<Path, Node>>
MCBuilds ==
  {[repository |-> r1, keys |-> {total, other}, speed |-> 10],
   [repository |-> r1, keys |-> {total}, speed |-> 12],
   [repository |-> r1, keys |-> {types}, speed |-> 12],
   [repository |-> r2, keys |-> {total}, speed |-> 10]}

All == [scenarios |-> {}, hosts |-> {}]
First == [scenarios |-> {s1}, hosts |-> {}]
Exact == [scenarios |-> {s2}, hosts |-> {Node}]

Run(load, base, outs, options, gate, shows) ==
  [op |-> "benchmark", load |-> load, base |-> base, outs |-> outs,
   options |-> options, gate |-> gate, shows |-> shows]

MCCommands ==
  {Run(None, {}, outs, o, FALSE, FALSE) : outs \in {{f1}, {f2, blob}}, o \in {All, First}}
  \cup {Run(None, {f1}, {}, o, TRUE, TRUE) : o \in {First, Exact}}
  \cup {Run(None, {f1}, {f2}, First, TRUE, shows) : shows \in BOOLEAN}
  \cup {Run(None, {f1}, {f2}, Exact, TRUE, FALSE)}
  \cup {Run(blob, {f1}, {}, o, TRUE, TRUE) : o \in {All, Exact}}
  \cup {[op |-> "merge", ins |-> ins, outs |-> {out}] : ins \in {<<f2, f1>>, <<f1, f1>>}, out \in {f1, f2}}
  \cup {[op |-> "merge", ins |-> <<blob, f1>>, outs |-> {blob}]}
  \cup {[op |-> "patch", benchmark |-> f1, patch |-> f2, options |-> o, outs |-> {f1}] : o \in {All, Exact}}
=============================================================================
