-------------------------- MODULE MCJobLifecycle --------------------------
(* Finite instances of JobLifecycle. *)
EXTENDS JobLifecycle, TLC

CONSTANTS j1, j2, t1, t2, s1, s2

(* Slots and jobs are interchangeable; only safety is checked. *)
Symmetry == Permutations(Jobs) \union Permutations(Txns)
              \union Permutations(Sweeps)
=============================================================================
