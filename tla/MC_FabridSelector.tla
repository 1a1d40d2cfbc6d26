------------------------- MODULE MC_FabridSelector -------------------------
(* Model-checking instance of FabridSelector: two connections to one     *)
(* destination; route A has two pool objects (o1, and o2, its refreshed  *)
(* copy), route B one (o3).  The pool delivers every list of objects of  *)
(* distinct routes, the empty list included.                            *)
EXTENDS FabridSelector, TLC

CONSTANTS c1, c2, o1, o2, o3, fA, fB, iA, iB,
          src, x, y, dst  \* ASes: route A is src-x-dst, route B src-x-y-dst

MC_Conns == {c1, c2}
MC_Objs == {o1, o2, o3}
MC_Fingerprint == (o1 :> fA) @@ (o2 :> fA) @@ (o3 :> fB)
MC_Fps == {fA, fB}
MC_Ifaces == {iA, iB}
MC_PathIfaces == (fA :> {iA}) @@ (fB :> {iB})
MC_Route == (fA :> <<src, x, dst>>) @@ (fB :> <<src, x, y, dst>>)
MC_Links == (fA :> <<[out |-> 1, in |-> 2], [out |-> 2, in |-> 1]>>)
         @@ (fB :> <<[out |-> 1, in |-> 2], [out |-> 3, in |-> 1], [out |-> 2, in |-> 3]>>)
MC_PathSets == {ps \in BoundedSeq(MC_Objs, 2) :
                   IsInjective([k \in DOMAIN ps |-> MC_Fingerprint[ps[k]]])}
\* Non-empty lists only: the panic of paths[0] on an empty list is then
\* out of the way.
MC_NonEmptyPathSets == MC_PathSets \ {<<>>}
\* Both connections' selectors implement PathChoice: Refresh keeps the
\* chosen route while it is offered, PathDown fails over to a route not
\* marked down; an Initialize that returned early leaves no choice.
Choice1 == INSTANCE PathChoice
    WITH candidates <- CandidatesOf(c1), chosen <- ChosenOf(c1), down <- DownSet
Choice2 == INSTANCE PathChoice
    WITH candidates <- CandidatesOf(c2), chosen <- ChosenOf(c2), down <- DownSet
FabridChoiceSpec == Choice1!Spec /\ Choice2!Spec

MC_Symmetry == Permutations(MC_Conns)
=============================================================================
