---------------------------- MODULE MCPluginParser ----------------------------
(* Packages for TLC: an rpk with all three kinds of items, one whose       *)
(* configuration has a member of an unsupported type, one that is no rpk.  *)
EXTENDS PluginParser

M(n) == [type |-> "model", name |-> n]
P(n) == [type |-> "pipeline", name |-> n]
R(n, paths) == [type |-> "resource", name |-> n, paths |-> paths]
U == [type |-> "unsupported", name |-> "model_x"]

OneOfEach ==
    [full |-> <<M("model_a"), P("pipe_a"), R("res_a", <<"f", "g">>)>>,
     odd  |-> <<U>>,
     tpk  |-> <<>>]

=============================================================================
