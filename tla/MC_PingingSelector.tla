------------------------ MODULE MC_PingingSelector ------------------------
(* Model-checking instance of PingingSelector: two paths in either order  *)
(* (Fps is a symmetry set: nothing but list order tells them apart), one *)
(* measurable RTT below the timeout, so that a path can be measured,     *)
(* timed out or unmeasured, and a sequence-number space larger than the  *)
(* number of rounds.                                                     *)
EXTENDS PingingSelector, TLC

CONSTANTS f1, f2

MC_Fps == {f1, f2}
MC_Symmetry == Permutations(MC_Fps)
MC_PathSets == {ps \in BoundedSeq(MC_Fps, 2) : IsInjective(ps)}
=============================================================================
