--------------------------- MODULE FabridSelector ---------------------------
(***************************************************************************)
(* FabridSelector (src/pkg/pan/selector.go) for several connections to   *)
(* the same destination, fed with *Path objects of the shared path pool. *)
(*                                                                         *)
(* Initialize wraps the dataplane path of paths[0] with this selector's  *)
(* FABRID state by assigning path.ForwardingPath.dataplanePath: the pool *)
(* object itself is mutated, so dp (the dataplane of every object) is    *)
(* global.  The control-plane steps of Initialize (FABRID path creation, *)
(* SVCInfo, ResolveTCPAddr, grpc.DialContext) either all succeed or one  *)
(* fails and Initialize returns early; which one fails does not matter   *)
(* to the state, so they are one nondeterministic outcome.  Refresh and  *)
(* PathDown are DefaultSelector's algorithm over these objects.  The     *)
(* per-hop policy records Initialize builds come from FabridHops.        *)
(***************************************************************************)
EXTENDS Integers, Sequences, SequencesExt, FabridHops

CONSTANTS Conns,       \* connections (FabridSelector instances)
          Objs,        \* *Path objects the pool hands out
          Fingerprint, \* [Objs -> Fps]: a refreshed copy keeps the fingerprint
          Fps, Ifaces,
          PathIfaces,  \* [Fps -> SUBSET Ifaces]
          PathSets,    \* the filtered object lists the pool can deliver
          Route, Links, \* [Fps -> ...]: the route's ASes and link interfaces
          Scion,       \* dp value of a plain SCION dataplane path
          None         \* nil *Path

VARIABLES paths,       \* paths[c]: FabridSelector.paths
          current,     \* current[c]: FabridSelector.current
          initialized, \* initialized[c]: the subscriber called Initialize
          dp,          \* dp[o]: Scion, or the connection whose FABRID state wraps o
          hops,        \* hops[c]: the per-hop records c's Initialize built
          downFps, downIfs,
          panicked

vars == <<paths, current, initialized, dp, hops, downFps, downIfs, panicked>>

At(c, i) == paths[c][i + 1]

-----------------------------------------------------------------------------
(* Liveness registry, spec-modelled (stats is not under src/).             *)

isInterfaceOnPath(o, pi) == pi \in PathIfaces[Fingerprint[o]]

IsDown(fp, dFps, dIfs) == fp \in dFps \/ PathIfaces[fp] \cap dIfs # {}

\* stats.FirstMoreAlive: first index, in order, of a path not marked down.
FirstMoreAlive(ps, dFps, dIfs) ==
    SelectInSeq(ps, LAMBDA o : ~IsDown(Fingerprint[o], dFps, dIfs)) - 1

ExpireFp ==
    /\ \E fp \in downFps : downFps' = downFps \ {fp}
    /\ UNCHANGED <<paths, current, initialized, dp, hops, downIfs, panicked>>

ExpireIf ==
    /\ \E pi \in downIfs : downIfs' = downIfs \ {pi}
    /\ UNCHANGED <<paths, current, initialized, dp, hops, downFps, panicked>>

-----------------------------------------------------------------------------
(* FabridSelector                                                          *)

Path(c) == IF paths[c] = <<>> THEN None ELSE At(c, current[c])

\* Initialize: paths[0] panics on an empty list.  A dataplane path that is
\* not a plain SCION path (already wrapped by another selector) skips the
\* type switch.  Otherwise the control-plane steps either succeed, and the
\* object is wrapped with c's state and the hop records built from its
\* metadata, or one fails and Initialize returns before s.paths is set.
Initialize(c, ps, ok) ==
    /\ ~initialized[c]
    /\ initialized' = [initialized EXCEPT ![c] = TRUE]
    /\ IF ps = <<>>
       THEN /\ panicked' = TRUE
            /\ UNCHANGED <<paths, current, dp, hops>>
       ELSE LET o == Head(ps)
                fp == Fingerprint[o]
            IN /\ UNCHANGED panicked
               /\ IF dp[o] = Scion /\ ~ok
                  THEN UNCHANGED <<paths, current, dp, hops>>
                  ELSE /\ IF dp[o] = Scion
                          THEN /\ dp' = [dp EXCEPT ![o] = c]
                               /\ hops' = [hops EXCEPT ![c] =
                                      BuildHops(MetaInterfaces(Route[fp], Links[fp]))]
                          ELSE UNCHANGED <<dp, hops>>
                       /\ paths' = [paths EXCEPT ![c] = ps]
                       /\ current' = [current EXCEPT ![c] = 0]
    /\ UNCHANGED <<downFps, downIfs>>

\* Mutant of Refresh: the numeric index is kept.
RefreshKeepIndex(c, ps) ==
    /\ initialized[c]
    /\ paths' = [paths EXCEPT ![c] = ps]
    /\ UNCHANGED <<current, initialized, dp, hops, downFps, downIfs, panicked>>

\* Mutant of Refresh: every refresh goes back to the first path.
RefreshToFirst(c, ps) ==
    /\ initialized[c]
    /\ paths' = [paths EXCEPT ![c] = ps]
    /\ current' = [current EXCEPT ![c] = 0]
    /\ UNCHANGED <<initialized, dp, hops, downFps, downIfs, panicked>>

\* Refresh: keep the current fingerprint's position in the new list,
\* else index 0.  The new objects are not wrapped.
Refresh(c, ps) ==
    LET fp == Fingerprint[At(c, current[c])]
        i == SelectInSeq(ps, LAMBDA o : Fingerprint[o] = fp)
    IN /\ initialized[c]
       /\ paths' = [paths EXCEPT ![c] = ps]
       /\ current' = [current EXCEPT ![c] =
                        IF paths[c] # <<>> /\ i > 0 THEN i - 1 ELSE 0]
       /\ UNCHANGED <<initialized, dp, hops, downFps, downIfs, panicked>>

\* PathDown on one selector: s.paths[s.current] panics on an empty list;
\* if the current path is affected, fail over to FirstMoreAlive when >= 0.
pathDownAt(c, pf, pi, dFps, dIfs) ==
    LET cur == At(c, current[c])
        better == FirstMoreAlive(paths[c], dFps, dIfs)
    IN IF (isInterfaceOnPath(cur, pi) \/ pf = Fingerprint[cur]) /\ better >= 0
       THEN better ELSE current[c]

\* stats.NotifyPathDown: record the mark, then the pool forwards PathDown
\* to every subscribed (initialized) selector of the destination.  When
\* one of them has no paths the process panics, and the in-memory
\* registry dies with it: the step leaves only panicked behind.
PathDown(pf, pi) ==
    LET dFps == downFps \cup {pf}
        dIfs == downIfs \cup {pi}
        subs == {c \in Conns : initialized[c]}
    IN /\ IF \E c \in subs : paths[c] = <<>>
          THEN /\ panicked' = TRUE
               /\ UNCHANGED <<current, downFps, downIfs>>
          ELSE /\ downFps' = dFps
               /\ downIfs' = dIfs
               /\ current' = [c \in Conns |->
                                IF c \in subs THEN pathDownAt(c, pf, pi, dFps, dIfs)
                                ELSE current[c]]
               /\ UNCHANGED panicked
       /\ UNCHANGED <<paths, initialized, dp, hops>>

Init ==
    /\ paths = [c \in Conns |-> <<>>]
    /\ current = [c \in Conns |-> 0]
    /\ initialized = [c \in Conns |-> FALSE]
    /\ dp = [o \in Objs |-> Scion]
    /\ hops = [c \in Conns |-> <<>>]
    /\ downFps = {}
    /\ downIfs = {}
    /\ panicked = FALSE

Next ==
    /\ ~panicked
    /\ \/ \E c \in Conns, ps \in PathSets, ok \in BOOLEAN : Initialize(c, ps, ok)
       \/ \E c \in Conns, ps \in PathSets : Refresh(c, ps)
       \/ \E pf \in Fps, pi \in Ifaces : PathDown(pf, pi)
       \/ ExpireFp
       \/ ExpireIf

Spec == Init /\ [][Next]_vars

-----------------------------------------------------------------------------
(* Properties                                                              *)

TypeOK ==
    /\ paths \in [Conns -> Seq(Objs)]
    /\ \A c \in Conns : current[c] \in 0..(IF paths[c] = <<>> THEN 0
                                           ELSE Len(paths[c]) - 1)
    /\ initialized \in [Conns -> BOOLEAN]
    /\ dp \in [Objs -> {Scion} \cup Conns]
    /\ hops \in [Conns -> Seq([ia : UNION {Range(Route[f]) : f \in Fps},
                                ingress : Nat, egress : Nat])]
    /\ downFps \subseteq Fps /\ downIfs \subseteq Ifaces
    /\ panicked \in BOOLEAN

\* The refinement mapping of connection c's selector to PathChoice, over
\* fingerprints (the MC module instantiates PathChoice with it for each
\* connection).
CandidatesOf(c) == {Fingerprint[o] : o \in ToSet(paths[c])}
ChosenOf(c) == IF Path(c) = None THEN None ELSE Fingerprint[Path(c)]
DownSet == {fp \in Fps : IsDown(fp, downFps, downIfs)}

\* The object a connection wrapped carries, in its FABRID dataplane path,
\* exactly one policy record per AS of its route, in route order, each
\* with the interfaces by which the path enters and leaves that AS; the
\* list fits the capacity len(ifaces)/2+1 the code reserves.
HopsPerAS ==
    \A o \in Objs : dp[o] \in Conns =>
        hops[dp[o]] = PerASHops(Route[Fingerprint[o]], Links[Fingerprint[o]])

\* Initialize wraps the path with "this selector's" FABRID state (its
\* client, its local address and key fetchers): a connection whose
\* current path is FABRID-wrapped sends with its own state, never with
\* that of another connection.
OwnFabridState ==
    \A c \in Conns : Path(c) # None /\ dp[Path(c)] # Scion => dp[Path(c)] = c

\* The spec: a failed control-plane setup is "non-fatal for the whole
\* connection"; PathDown "may be invoked for any fingerprint/interface".
\* No down notification after an Initialize that returned early panics.
NoPanic == ~panicked
=============================================================================
