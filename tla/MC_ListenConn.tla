--------------------------- MODULE MC_ListenConn ---------------------------
(* Model-checking instance of ListenConn: two remotes in other ASes and  *)
(* one in the local AS; four path objects over three fingerprints (a1    *)
(* and a2 are two objects for the same route) and a cache of two, so   *)
(* that receives promote, replace and evict entries.                    *)
EXTENDS ListenConn, TLC

CONSTANTS r1, r2, r3, a1, a2, b, c

MC_Remotes == {r1, r2, r3}
MC_Paths == {a1, a2, b, c}
MC_Fingerprint == (a1 :> "A") @@ (a2 :> "A") @@ (b :> "B") @@ (c :> "C")
MC_Symmetry == Permutations({r1, r2}) \cup Permutations({b, c})
=============================================================================
