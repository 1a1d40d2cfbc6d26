---------------------------- MODULE ReplySelector ----------------------------
(***************************************************************************)
(* DefaultReplySelector (src/pkg/pan/udp_listen.go): the reply-path       *)
(* cache of a listening socket.  Record (exclusive lock) runs on every    *)
(* receive, Path (shared lock) on every WriteTo; each is atomic.  The     *)
(* per-remote pathsMRU list and its insert are modelled step by step.     *)
(* Path objects are model values; two objects may share a fingerprint    *)
(* (a refreshed copy of the same route).                                 *)
(***************************************************************************)
EXTENDS Integers, Sequences, SequencesExt

CONSTANTS Remotes,       \* remote UDP addresses
          Paths,         \* *Path objects the socket can receive on
          Fingerprint,   \* [Paths -> fingerprints]
          MaxReplyPaths, \* defaultSelectorMaxReplyPaths
          MaxRecords,    \* bound on the number of received packets
          None           \* nil *Path

ASSUME MaxReplyPaths \in Nat \ {0} /\ MaxRecords \in Nat

VARIABLES remotes,  \* DefaultReplySelector.remotes: remote -> pathsMRU
          history   \* ghost: the non-nil paths Recorded per remote, in order

vars == <<remotes, history>>

-----------------------------------------------------------------------------
\* Mutant of insert: an entry already present is updated in place and not
\* moved to the front.
insertInPlace(ps, path, maxEntries) ==
    LET found == SelectInSeq(ps, LAMBDA q : Fingerprint[q] = Fingerprint[path])
    IN IF found # 0 THEN [ps EXCEPT ![found] = path]
       ELSE IF Len(ps) < maxEntries THEN <<path>> \o ps
       ELSE <<path>> \o Front(ps)

\* pathsMRU.insert: find the entry with the path's fingerprint; if there
\* is none, append a slot while below maxEntries, else reuse the last
\* (least recently used) slot; store the path there and rotate it to the
\* front.  i is the 1-based slot.
insert(ps, path, maxEntries) ==
    LET found == SelectInSeq(ps, LAMBDA q : Fingerprint[q] = Fingerprint[path])
        grown == IF found = 0 /\ Len(ps) < maxEntries THEN Append(ps, path)
                 ELSE ps
        i == IF found # 0 THEN found ELSE Len(grown)
        stored == [grown EXCEPT ![i] = path]
    IN IF i = 1 THEN stored
       ELSE <<stored[i]>> \o SubSeq(stored, 1, i - 1)
                          \o SubSeq(stored, i + 1, Len(stored))

\* Mutant of Record: a nil reverse path is not filtered out.
RecordNil(remote, path) ==
    /\ Len(history[remote]) < MaxRecords
    /\ remotes' = [remotes EXCEPT ![remote] = insert(@, path, MaxReplyPaths)]
    /\ history' = [history EXCEPT ![remote] = Append(@, path)]

\* Record: a nil path (the reverse path could not be built) is ignored;
\* otherwise insert it into the remote's entry (the zero entry if new).
Record(remote, path) ==
    /\ Len(history[remote]) < MaxRecords
    /\ path # None
    /\ remotes' = [remotes EXCEPT ![remote] = insert(@, path, MaxReplyPaths)]
    /\ history' = [history EXCEPT ![remote] = Append(@, path)]

\* Path(remote): the most recently used path, nil when there is none.
Path(remote) ==
    IF remotes[remote] = <<>> THEN None ELSE Head(remotes[remote])

Init ==
    /\ remotes = [r \in Remotes |-> <<>>]
    /\ history = [r \in Remotes |-> <<>>]

\* ReadFromVia records every received packet's reverse path; Path and
\* PathDown (a no-op, "TODO failover") change nothing.
Next == \E r \in Remotes, p \in Paths \cup {None} : Record(r, p)

Spec == Init /\ [][Next]_vars

-----------------------------------------------------------------------------
(* Properties                                                              *)

TypeOK ==
    /\ remotes \in [Remotes -> Seq(Paths)]
    /\ history \in [Remotes -> Seq(Paths)]

\* Reference definition of the cache: walking a remote's history from the
\* newest record back, keep the first path seen for each fingerprint,
\* up to MaxReplyPaths of them.
RECURSIVE Recent(_, _)
Recent(h, n) ==
    IF h = <<>> \/ n = 0 THEN <<>>
    ELSE LET p == Last(h)
             rest == SelectSeq(Front(h),
                               LAMBDA q : Fingerprint[q] # Fingerprint[p])
         IN <<p>> \o Recent(rest, n - 1)

\* The spec's MRU contract, for every sequence of receives: each remote's
\* list holds exactly the MaxReplyPaths most recently seen fingerprints,
\* most recent first, each with the path object it was last seen with, so
\* Path(remote) is the newest path and a fingerprint seen within the last
\* MaxReplyPaths distinct ones is never evicted.
CacheIsRecencyOrder ==
    \A r \in Remotes : remotes[r] = Recent(history[r], MaxReplyPaths)
=============================================================================
