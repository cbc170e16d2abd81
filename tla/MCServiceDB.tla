----------------------------- MODULE MCServiceDB -----------------------------
(* Instances of ServiceDB for TLC. *)
EXTENDS ServiceDB, TLC

\* Threads are interchangeable.  Only a run without temporal properties uses this.
Symmetry == Permutations(Callers)
=============================================================================
