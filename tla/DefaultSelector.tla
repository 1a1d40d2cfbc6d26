--------------------------- MODULE DefaultSelector ---------------------------
(***************************************************************************)
(* DefaultSelector (src/pkg/pan/selector.go): the pin-and-failover path   *)
(* chooser of a dialed connection, together with the part of the         *)
(* liveness registry ("stats") it consults.                              *)
(*                                                                         *)
(* Every method of DefaultSelector runs under its mutex, so each is one   *)
(* atomic action.  A down notification is recorded in the registry and  *)
(* then delivered to the selector's PathDown (registry code outside src/ *)
(* modelled from the spec: record first, then notify subscribers).       *)
(* Indices are 0-based as in the Go code: paths[i] is At(i).             *)
(***************************************************************************)
EXTENDS Integers, Sequences, SequencesExt

CONSTANTS Fps,        \* path fingerprints (model values)
          Ifaces,     \* path interfaces (AS, interface id) as model values
          PathIfaces, \* [Fps -> SUBSET Ifaces]: the interfaces on each path
          PathSets,   \* the policy-filtered path lists the pool can deliver
          None        \* nil *Path

ASSUME PathIfaces \in [Fps -> SUBSET Ifaces]
ASSUME \A ps \in PathSets : ps \in Seq(Fps) /\ IsInjective(ps)

VARIABLES paths,       \* DefaultSelector.paths
          current,     \* DefaultSelector.current
          downFps,     \* registry: fingerprints with a down notification
          downIfs,     \* registry: interfaces with a down notification
          initialized, \* Initialize has been called (the Conn's contract)
          panicked     \* a runtime panic ended the process

vars == <<paths, current, downFps, downIfs, initialized, panicked>>

At(i) == paths[i + 1]

-----------------------------------------------------------------------------
(* Liveness registry, spec-modelled (stats is not under src/).             *)

\* isInterfaceOnPath: some hop of the path is the reported interface.
isInterfaceOnPath(fp, pi) == pi \in PathIfaces[fp]

\* A path is down while its fingerprint or one of its interfaces is marked
\* in the registry state (dFps, dIfs).
IsDown(fp, dFps, dIfs) == fp \in dFps \/ PathIfaces[fp] \cap dIfs # {}

\* stats.FirstMoreAlive: index of the first path, in order, that is not
\* currently marked down; -1 if there is none.
FirstMoreAlive(ps, dFps, dIfs) ==
    SelectInSeq(ps, LAMBDA fp : ~IsDown(fp, dFps, dIfs)) - 1

\* Marks age out of the registry.
ExpireFp ==
    /\ \E fp \in downFps : downFps' = downFps \ {fp}
    /\ UNCHANGED <<paths, current, downIfs, initialized, panicked>>

ExpireIf ==
    /\ \E pi \in downIfs : downIfs' = downIfs \ {pi}
    /\ UNCHANGED <<paths, current, downFps, initialized, panicked>>

-----------------------------------------------------------------------------
(* DefaultSelector                                                         *)

\* Path(): nil when there are no paths, else paths[current].
Path == IF Len(paths) = 0 THEN None ELSE At(current)

Initialize(ps) ==
    /\ paths' = ps
    /\ current' = 0
    /\ UNCHANGED panicked

\* Mutant of Refresh: the position of the current fingerprint is not
\* looked up, every refresh goes back to the policy's first path.
RefreshToFirst(ps) ==
    /\ paths' = ps
    /\ current' = 0
    /\ UNCHANGED panicked

\* Mutant of Refresh: the numeric index is kept instead of the current
\* fingerprint's new position.
RefreshKeepIndex(ps) ==
    /\ paths' = ps
    /\ UNCHANGED <<current, panicked>>

\* Refresh: keep the current fingerprint's new position, else index 0.
Refresh(ps) ==
    LET newcurrent ==
            IF Len(paths) = 0 THEN 0
            ELSE LET i == SelectInSeq(ps, LAMBDA fp : fp = At(current))
                 IN IF i > 0 THEN i - 1 ELSE 0
    IN /\ paths' = ps
       /\ current' = newcurrent
       /\ UNCHANGED panicked

\* PathDown: s.paths[s.current] is evaluated first, and panics with an
\* index out of range when the selector has no paths.  Otherwise, if the
\* current path is affected, fail over to FirstMoreAlive when it is >= 0.
\* (dFps, dIfs) is the registry state FirstMoreAlive reads.
PathDown(pf, pi, dFps, dIfs) ==
    IF Len(paths) = 0
    THEN /\ panicked' = TRUE
         /\ UNCHANGED <<paths, current>>
    ELSE /\ LET cur == At(current)
                better == FirstMoreAlive(paths, dFps, dIfs)
            IN current' = IF (isInterfaceOnPath(cur, pi) \/ pf = cur) /\ better >= 0
                          THEN better ELSE current
         /\ UNCHANGED <<paths, panicked>>

\* stats.NotifyPathDown: record the notification, then deliver PathDown
\* to the subscribed selector, which sees the updated registry.
NotifyPathDown(pf, pi) ==
    /\ downFps' = downFps \cup {pf}
    /\ downIfs' = downIfs \cup {pi}
    /\ PathDown(pf, pi, downFps \cup {pf}, downIfs \cup {pi})

Init ==
    /\ paths = <<>>
    /\ current = 0
    /\ downFps = {}
    /\ downIfs = {}
    /\ initialized = FALSE
    /\ panicked = FALSE

\* The connection calls Initialize once, then Refresh and PathDown (the
\* pool and the registry deliver them), in any order and number.
Next ==
    /\ ~panicked
    /\ \/ /\ ~initialized
          /\ \E ps \in PathSets : Initialize(ps)
          /\ initialized' = TRUE
          /\ UNCHANGED <<downFps, downIfs>>
       \/ /\ initialized
          /\ \E ps \in PathSets : Refresh(ps)
          /\ UNCHANGED <<downFps, downIfs, initialized>>
       \/ /\ initialized
          /\ \E pf \in Fps, pi \in Ifaces : NotifyPathDown(pf, pi)
          /\ UNCHANGED initialized
       \/ ExpireFp
       \/ ExpireIf

Spec == Init /\ [][Next]_vars

-----------------------------------------------------------------------------
(* Properties                                                              *)

\* Index i is valid for the list ps (0 for an empty list): the spec's
\* "index is always valid for the slice it is read with".
ValidIndex(i, ps) == i \in 0..(IF ps = <<>> THEN 0 ELSE Len(ps) - 1)

TypeOK ==
    /\ paths \in Seq(Fps)
    /\ ValidIndex(current, paths)
    /\ downFps \subseteq Fps
    /\ downIfs \subseteq Ifaces
    /\ initialized \in BOOLEAN
    /\ panicked \in BOOLEAN

\* The selector implements PathChoice: Path() changes only when Refresh
\* drops the current path or a down notification concerns it, and a down
\* notification for the current path moves the connection to a path that
\* is not down whenever the new candidate list has one.  Seen through
\* Path(), the candidate set and the registry's down set; before
\* Initialize ("before any Path() call is meaningful", the spec) the
\* selector offers nothing, whatever a refresh racing it has stored.
Choice == INSTANCE PathChoice
    WITH candidates <- IF initialized THEN ToSet(paths) ELSE {},
         chosen <- IF initialized THEN Path ELSE None,
         down <- {fp \in Fps : IsDown(fp, downFps, downIfs)}

PathChoiceSpec == Choice!Spec

=============================================================================
