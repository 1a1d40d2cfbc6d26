------------------------ MODULE MC_RefreshSubscriber ------------------------
(* Model-checking instance of RefreshSubscriber: two paths on disjoint   *)
(* interfaces; the pool delivers either order of both, or one of them;   *)
(* the application switches between the nil policy and one that excludes *)
(* f1 (and so filters the list <<f1>> down to nothing).                  *)
EXTENDS RefreshSubscriber, TLC

CONSTANTS f1, f2, i1, i2, pNil, pNoF1

MC_Fps == {f1, f2}
MC_Ifaces == {i1, i2}
MC_PathIfaces == (f1 :> {i1}) @@ (f2 :> {i2})
MC_PathSets == {<<f1, f2>>, <<f2, f1>>, <<f1>>, <<f2>>}
MC_Policies == {pNil, pNoF1}
MC_Filter(pol, ps) == IF pol = pNil THEN ps ELSE SelectSeq(ps, LAMBDA f : f # f1)
=============================================================================
