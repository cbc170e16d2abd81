---------------------------- MODULE MCAndroidAgent ----------------------------
(* Threads that keep to the ids of their own launches.                     *)
EXTENDS AndroidAgent, TLC

OwnIds == {[anyId |-> FALSE, distinct |-> TRUE]}

Symmetry == Permutations(Threads) \cup Permutations(Nodes)

=============================================================================
