-------------------------- MODULE RefreshSubscriber --------------------------
(***************************************************************************)
(* pathRefreshSubscriber (src/pkg/pan/udp_dial.go) composed with the      *)
(* DefaultSelector it feeds and the path pool that drives it.             *)
(*                                                                         *)
(* Three goroutines touch the subscriber:                                  *)
(*   - the dialer: DialUDP opens the raw socket; for a remote in another  *)
(*     AS, openPathRefreshSubscriber subscribes to the pool, then         *)
(*     Initializes the selector; later dialedConn.Close unsubscribes,     *)
(*     closes the selector and the socket;                                *)
(*   - the application: setPolicy writes s.policy, reads the pool's      *)
(*     cached paths and Refreshes the selector;                           *)
(*   - the pool (outside src/, modelled from the spec): it replaces its   *)
(*     path set for the destination and calls refresh on each subscriber, *)
(*     which reads s.policy and Refreshes the selector; and it forwards   *)
(*     down notifications from the registry to the subscriber's PathDown. *)
(* Selector methods are atomic (mutex); the subscriber has no lock, so    *)
(* each step below is one of its statements.                              *)
(***************************************************************************)
EXTENDS Integers, Sequences, SequencesExt

CONSTANTS Fps, Ifaces, PathIfaces, PathSets, None,
          Policies,         \* the policies the application may set
          Filter(_, _),     \* Filter(policy, paths): policy.Filter (nil policy: identity)
          MaxPolicyChanges, \* bound on SetPolicy calls
          SameIAs           \* whether remote.IA equals the local IA (TRUE, FALSE or both)

VARIABLES paths, current, downFps, downIfs, initialized, panicked,
          poolPaths,     \* pool: the cached path set for the destination
          subscribed,    \* pool: the subscriber is in the destination's list
          dial,          \* dialer: "opening", "subscribing", "initializing",
                         \* "open", "local" (same AS, no subscriber), "failed", "closed"
          raw,           \* the connection's raw socket: "none", "open", "closed"
          initPaths,     \* dialer: the paths subscribe returned
          policy,        \* pathRefreshSubscriber.policy
          setp,          \* setPolicy: "idle" or "refreshing"
          spPaths,       \* setPolicy: the cached paths it read
          policyChanges, \* number of setPolicy calls so far
          deliver,       \* pool refresh: "idle", "filtering", "refreshing"
          dPaths,        \* pool refresh: the paths being delivered
          dPol           \* pool refresh: the policy refresh read

selVars == <<paths, current, downFps, downIfs, initialized, panicked>>
subVars == <<poolPaths, subscribed, dial, raw, initPaths, policy, setp, spPaths,
             policyChanges, deliver, dPaths, dPol>>
vars == <<selVars, subVars>>

Sel == INSTANCE DefaultSelector

-----------------------------------------------------------------------------
\* filtered: policy.Filter(paths), or the paths themselves for a nil policy
\* (the nil policy is the member of Policies whose Filter is the identity).
filtered(pol, ps) == Filter(pol, ps)

\* DialUDP up to the subscriber: OpenRaw either fails (nothing is open)
\* or opens the socket; a remote in the local AS gets no subscriber and
\* the connection is returned at once.
OpenRaw(ok, sameIA) ==
    /\ dial = "opening"
    /\ raw' = IF ok THEN "open" ELSE "none"
    /\ dial' = IF ~ok THEN "failed" ELSE IF sameIA THEN "local" ELSE "subscribing"
    /\ UNCHANGED <<selVars, poolPaths, subscribed, initPaths, policy, setp,
                   spPaths, policyChanges, deliver, dPaths, dPol>>

\* openPathRefreshSubscriber, first statement: pool.subscribe registers
\* the subscriber and returns the destination's current paths, or fails
\* without registering it; DialUDP then returns the error and leaves the
\* raw socket open.
Subscribe(ok) ==
    /\ dial = "subscribing"
    /\ subscribed' = ok
    /\ initPaths' = IF ok THEN poolPaths ELSE initPaths
    /\ dial' = IF ok THEN "initializing" ELSE "failed"
    /\ UNCHANGED <<selVars, poolPaths, raw, policy, setp, spPaths,
                   policyChanges, deliver, dPaths, dPol>>

\* openPathRefreshSubscriber, second statement: Initialize the selector
\* with the filtered paths that subscribe returned.
InitializeTarget ==
    /\ dial = "initializing"
    /\ Sel!Initialize(filtered(policy, initPaths))
    /\ initialized' = TRUE
    /\ dial' = "open"
    /\ UNCHANGED <<downFps, downIfs, poolPaths, subscribed, raw, initPaths,
                   policy, setp, spPaths, policyChanges, deliver, dPaths, dPol>>

\* Mutant of Close: the subscriber is not closed, only the socket.
CloseRawOnly ==
    /\ dial \in {"open", "local"}
    /\ raw' = "closed"
    /\ dial' = "closed"
    /\ UNCHANGED <<selVars, subscribed, poolPaths, initPaths, policy, setp,
                   spPaths, policyChanges, deliver, dPaths, dPol>>

\* dialedConn.Close: the subscriber's Close (pool.unsubscribe) when there
\* is one, the selector's Close (a no-op for DefaultSelector), then the
\* raw socket's.  A refresh the pool already started still reaches the
\* selector.
Close ==
    /\ dial \in {"open", "local"}
    /\ subscribed' = FALSE
    /\ raw' = "closed"
    /\ dial' = "closed"
    /\ UNCHANGED <<selVars, poolPaths, initPaths, policy, setp, spPaths,
                   policyChanges, deliver, dPaths, dPol>>

\* setPolicy, first two statements: s.policy = policy; read the pool's
\* cached paths.  dialedConn.SetPolicy calls it only when there is a
\* subscriber (not for a remote in the local AS).
SetPolicyRead(pol) ==
    /\ dial = "open"
    /\ setp = "idle"
    /\ policyChanges < MaxPolicyChanges
    /\ policy' = pol
    /\ spPaths' = poolPaths
    /\ setp' = "refreshing"
    /\ policyChanges' = policyChanges + 1
    /\ UNCHANGED <<selVars, poolPaths, subscribed, dial, raw, initPaths, deliver,
                   dPaths, dPol>>

\* setPolicy, last statement: Refresh the selector with the filtered
\* paths it read.
SetPolicyRefresh ==
    /\ setp = "refreshing"
    /\ Sel!Refresh(filtered(policy, spPaths))
    /\ setp' = "idle"
    /\ UNCHANGED <<downFps, downIfs, initialized, poolPaths, subscribed, dial, raw,
                   initPaths, policy, spPaths, policyChanges, deliver, dPaths,
                   dPol>>

\* The pool's refresher replaces the destination's paths and, for each
\* subscriber in the list, calls its refresh (spec-modelled).
PoolRefresh(new) ==
    /\ deliver = "idle"
    /\ poolPaths' = new
    /\ IF subscribed THEN deliver' = "filtering" /\ dPaths' = new
                     ELSE UNCHANGED <<deliver, dPaths>>
    /\ UNCHANGED <<selVars, subscribed, dial, raw, initPaths, policy, setp, spPaths,
                   policyChanges, dPol>>

\* refresh, evaluating filtered(s.policy, paths): s.policy is read ...
RefreshReadPolicy ==
    /\ deliver = "filtering"
    /\ dPol' = policy
    /\ deliver' = "refreshing"
    /\ UNCHANGED <<selVars, poolPaths, subscribed, dial, raw, initPaths, policy,
                   setp, spPaths, policyChanges, dPaths>>

\* Mutant of RefreshDeliver: the pool's refresh is not forwarded.
RefreshDropped ==
    /\ deliver = "refreshing"
    /\ deliver' = "idle"
    /\ UNCHANGED <<selVars, poolPaths, subscribed, dial, raw, initPaths, policy,
                   setp, spPaths, policyChanges, dPaths, dPol>>

\* ... and the selector is Refreshed with the filtered paths.
RefreshDeliver ==
    /\ deliver = "refreshing"
    /\ Sel!Refresh(filtered(dPol, dPaths))
    /\ deliver' = "idle"
    /\ UNCHANGED <<downFps, downIfs, initialized, poolPaths, subscribed, dial, raw,
                   initPaths, policy, setp, spPaths, policyChanges, dPaths,
                   dPol>>

\* The registry records a down notification and the pool forwards it to
\* every subscriber of the destination: s.target.PathDown(pf, pi).
PathDown(pf, pi) ==
    /\ subscribed
    /\ Sel!NotifyPathDown(pf, pi)
    /\ UNCHANGED <<initialized, subVars>>

Init ==
    /\ Sel!Init
    /\ poolPaths \in PathSets
    /\ subscribed = FALSE
    /\ dial = "opening"
    /\ raw = "none"
    /\ initPaths = <<>>
    /\ policy \in Policies
    /\ setp = "idle"
    /\ spPaths = <<>>
    /\ policyChanges = 0
    /\ deliver = "idle"
    /\ dPaths = <<>>
    /\ dPol = policy

Next ==
    /\ ~panicked
    /\ \/ \E ok \in BOOLEAN, sameIA \in SameIAs : OpenRaw(ok, sameIA)
       \/ \E ok \in BOOLEAN : Subscribe(ok)
       \/ InitializeTarget
       \/ Close
       \/ \E pol \in Policies : SetPolicyRead(pol)
       \/ SetPolicyRefresh
       \/ \E new \in PathSets : PoolRefresh(new)
       \/ RefreshReadPolicy
       \/ RefreshDeliver
       \/ \E pf \in Fps, pi \in Ifaces : PathDown(pf, pi)
       \/ Sel!ExpireFp /\ UNCHANGED subVars
       \/ Sel!ExpireIf /\ UNCHANGED subVars

\* Every goroutine that can take a step eventually does; the pool's
\* refresher runs on a timer for as long as the process lives.
Fairness ==
    /\ WF_vars(\E ok \in BOOLEAN, sameIA \in SameIAs : OpenRaw(ok, sameIA))
    /\ WF_vars(\E ok \in BOOLEAN : Subscribe(ok)) /\ WF_vars(InitializeTarget)
    /\ WF_vars(SetPolicyRefresh)
    /\ WF_vars(~panicked /\ \E new \in PathSets : PoolRefresh(new))
    /\ WF_vars(~panicked /\ RefreshReadPolicy)
    /\ WF_vars(~panicked /\ RefreshDeliver)

Spec == Init /\ [][Next]_vars /\ Fairness

-----------------------------------------------------------------------------
(* Properties                                                              *)

TypeOK ==
    /\ Sel!TypeOK
    /\ poolPaths \in PathSets /\ initPaths \in Seq(Fps)
    /\ subscribed \in BOOLEAN
    /\ dial \in {"opening", "subscribing", "initializing", "open", "local",
                 "failed", "closed"}
    /\ raw \in {"none", "open", "closed"}
    /\ policy \in Policies /\ dPol \in Policies
    /\ setp \in {"idle", "refreshing"} /\ spPaths \in Seq(Fps)
    /\ policyChanges \in 0..MaxPolicyChanges
    /\ deliver \in {"idle", "filtering", "refreshing"} /\ dPaths \in Seq(Fps)

\* The selector's candidates are the pool's paths under the current policy.
Consistent == paths = Filter(policy, poolPaths)

\* A stale view on an open connection (left by Initialize, setPolicy or a
\* refresh racing each other) is eventually repaired by the pool's next
\* periodic refresh, unless the connection closes or the process panics.
StaleViewRepaired ==
    (dial = "open" /\ ~Consistent) ~> (Consistent \/ dial = "closed" \/ panicked)

\* Pin-and-failover (PathChoice, mapped as in DefaultSelector) holds for
\* the selector the subscriber feeds, under every interleaving of the
\* dialer, setPolicy, the pool's refreshes and down notifications: Path()
\* only moves when the offered list drops it or it goes down.
SelectorRefinesPathChoice == Sel!PathChoiceSpec

\* The spec: PathDown "may be invoked for any fingerprint/interface ... a
\* no-op in that case".  No down notification the subscriber forwards,
\* whether before the selector is Initialized or after the policy filtered
\* every path away, crashes the process.
NoPanic == ~panicked

\* What a connection holds with the pool and the OS: the pool lists the
\* subscriber only while DialUDP is past a successful subscribe and the
\* connection is not closed (a failed subscribe registers nothing, Close
\* unsubscribes whatever refreshes are in flight), and the raw socket is
\* open only while dialling, on a live connection, or after a DialUDP that
\* failed past OpenRaw: the only leak is that of a failed dial.
HoldsOnlyWhatItOwns ==
    /\ subscribed => dial \in {"initializing", "open"}
    /\ raw = "open" => dial \in {"subscribing", "initializing", "open", "local",
                                  "failed"}
    /\ dial = "failed" /\ raw = "open" => ~subscribed /\ ~initialized
=============================================================================
