----------------------------- MODULE MCSkeleton ------------------------------
(***************************************************************************)
(* Model-checking instance of Skeleton: two modules (one can call the      *)
(* other and itself), outside goroutines, two function ids of which only   *)
(* those registered can be called.                                         *)
(***************************************************************************)
EXTENDS Skeleton, TLC

CONSTANTS m1, m2, c1, c2, f1, f2

MCMods    == {m1, m2}
MCCallers1 == {c1}
MCCallers2 == {c1, c2}
MCFns     == {f1, f2}

=============================================================================
