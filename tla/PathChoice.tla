----------------------------- MODULE PathChoice -----------------------------
(***************************************************************************)
(* What a pin-and-failover Selector promises, stated over sets: the       *)
(* connection keeps the path it has chosen for as long as that path is a  *)
(* candidate and has not been reported down, and when it is reported     *)
(* down it moves to a candidate that is not down, if there is one.        *)
(* DefaultSelector (and the Refresh/PathDown half of FabridSelector) are  *)
(* shown to implement this specification through a refinement mapping.   *)
(***************************************************************************)
CONSTANTS Fps,   \* path fingerprints
          None   \* "no path": Path() returns nil

VARIABLES candidates, \* the set of paths the selector may use
          chosen,     \* the path Path() returns, or None
          down        \* the fingerprints the liveness registry reports down

vars == <<candidates, chosen, down>>

Init ==
    /\ candidates = {}
    /\ chosen = None
    /\ down = {}

\* The candidate set is replaced (Initialize, Refresh): a chosen path that
\* is still a candidate is kept; otherwise some candidate is chosen.
Replace ==
    \E new \in SUBSET Fps :
        /\ candidates' = new
        /\ chosen' \in IF chosen \in new THEN {chosen}
                       ELSE IF new = {} THEN {None} ELSE new
        /\ UNCHANGED down

\* A down notification concerning the paths in affected: they join the
\* down set; the chosen path changes only if it is affected, and then to a
\* candidate that is not down, when one exists.
Fail ==
    \E affected \in SUBSET Fps :
        LET alive == candidates \ (down \cup affected) IN
        /\ down' = down \cup affected
        /\ chosen' \in IF chosen \in affected /\ alive # {} THEN alive
                       ELSE {chosen}
        /\ UNCHANGED candidates

\* Down marks age out of the registry.
Expire ==
    /\ down' \subseteq down
    /\ UNCHANGED <<candidates, chosen>>

Next == Replace \/ Fail \/ Expire

Spec == Init /\ [][Next]_vars
=============================================================================
