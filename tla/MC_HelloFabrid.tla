--------------------------- MODULE MC_HelloFabrid ---------------------------
(* Model-checking instance of HelloFabrid: route A has two pool objects   *)
(* (o1, and its refreshed copy o2), route B one (o3); the pool delivers  *)
(* every list of objects of distinct routes, the empty one included.    *)
EXTENDS HelloFabrid, TLC

CONSTANTS cl, o1, o2, o3, fA, fB, iA, iB, src, x, y, dst

MC_Objs == {o1, o2, o3}
MC_Fingerprint == (o1 :> fA) @@ (o2 :> fA) @@ (o3 :> fB)
MC_Fps == {fA, fB}
MC_Ifaces == {iA, iB}
MC_PathIfaces == (fA :> {iA}) @@ (fB :> {iB})
MC_Route == (fA :> <<src, dst>>) @@ (fB :> <<src, x, y, dst>>)
MC_Links == (fA :> <<[out |-> 1, in |-> 2]>>)
         @@ (fB :> <<[out |-> 1, in |-> 2], [out |-> 3, in |-> 1], [out |-> 2, in |-> 3]>>)
MC_PathSets == {ps \in BoundedSeq(MC_Objs, 2) :
                   IsInjective([k \in DOMAIN ps |-> MC_Fingerprint[ps[k]]])}
=============================================================================
