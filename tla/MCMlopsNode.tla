----------------------------- MODULE MCMlopsNode -----------------------------
(* Callers for TLC: threads that keep to their own ids with time stamps    *)
(* all distinct, and threads that pass any id with stamps that may collide. *)
EXTENDS MlopsNode

BothModes == {[anyId |-> FALSE, distinct |-> TRUE], [anyId |-> TRUE, distinct |-> FALSE]}

=============================================================================
