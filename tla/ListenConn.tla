----------------------------- MODULE ListenConn -----------------------------
(***************************************************************************)
(* A listening socket (src/pkg/pan/udp_listen.go): ListenUDP and         *)
(* ListenUDPWithFabrid, listenConn / fabridListenConn ReadFromVia and     *)
(* WriteTo, Close, composed with the DefaultReplySelector it records     *)
(* reverse paths in (module ReplySelector, through INSTANCE) and with the *)
(* registry's subscription of that selector for down notifications.     *)
(*                                                                         *)
(* Socket I/O is abstracted to its outcome: a receive delivers a remote   *)
(* and the reverse path built from the packet (None when it cannot be     *)
(* built, and always for a remote in the local AS, which is reached      *)
(* without a path); a fabridListenConn receive also carries the outcome   *)
(* of the FABRID extension handling.  Control-plane and socket set-up     *)
(* steps are outcomes of the constructor that performs them.             *)
(***************************************************************************)
EXTENDS Integers, Sequences, SequencesExt

CONSTANTS Remotes, Paths, Fingerprint, MaxReplyPaths, MaxRecords, None,
          LocalRemotes  \* remotes in the listener's own AS (local.IA = dst.IA)

VARIABLES remotes, history,  \* the DefaultReplySelector (module ReplySelector)
          lst,       \* "none", "open", "failed" (constructor returned an error), "closed"
          fabrid,    \* the listener is a fabridListenConn
          regd,      \* stats holds the selector among its reply selectors
          rawOpen,   \* the raw SCION socket is open
          accepted   \* ghost: per remote, the recorded paths of receives that
                     \* returned to the application without an error

rsVars == <<remotes, history>>
vars == <<remotes, history, lst, fabrid, regd, rawOpen, accepted>>

RS == INSTANCE ReplySelector

-----------------------------------------------------------------------------
\* Mutant of record: a nil reverse path is recorded too.
recordAll(r, p) == RS!RecordNil(r, p)

\* selector.Record(remote, path): ignores a nil path.
record(r, p) == IF p = None THEN UNCHANGED rsVars ELSE RS!Record(r, p)

\* The path WriteTo and writeFabridReply send on: none is needed within
\* the local AS ("direct"); otherwise selector.Path(dst), whose nil is
\* errNoPathTo.
replyPath(r) == IF r \in LocalRemotes THEN "direct" ELSE RS!Path(r)

\* writeFabridReply, called after Record(r, p): it finds a reply path
\* unless the remote is outside the local AS and the selector has none
\* (errNoPathTo); a recorded p is always found.
writeFabridReply(r, p) == p # None \/ replyPath(r) # None

\* ListenUDP: stats.subscribe(selector), then OpenRaw; a failure returns
\* the error (the subscription stays); else selector.Initialize (a no-op
\* for DefaultReplySelector) and the listenConn is returned.
ListenUDP(ok) ==
    /\ lst = "none"
    /\ regd' = TRUE
    /\ IF ok THEN lst' = "open" /\ rawOpen' = TRUE
             ELSE lst' = "failed" /\ UNCHANGED rawOpen
    /\ UNCHANGED <<rsVars, fabrid, accepted>>

\* ListenUDPWithFabrid: stats.subscribe, openBaseUDPConn, Initialize,
\* then SVCInfo, ResolveTCPAddr and grpc.DialContext; failed is the first
\* step that fails ("open", "control" for any of the last three) or
\* "none".  Every failure returns the error and nothing is undone.
ListenUDPWithFabrid(failed) ==
    /\ lst = "none"
    /\ regd' = TRUE
    /\ lst' = IF failed = "none" THEN "open" ELSE "failed"
    /\ rawOpen' = (failed # "open")
    /\ fabrid' = (failed = "none")
    /\ UNCHANGED <<rsVars, accepted>>

\* listenConn.ReadFromVia: readMsg, reversePathFromForwardingPath, then
\* selector.Record; the packet is returned (with the reverse-path error,
\* if any).
ReadFromVia(r, p) ==
    /\ lst = "open" /\ ~fabrid
    /\ record(r, p)
    /\ accepted' = IF p = None THEN accepted
                   ELSE [accepted EXCEPT ![r] = Append(@, p)]
    /\ UNCHANGED <<lst, fabrid, regd, rawOpen>>

\* fabridListenConn.ReadFromVia returns without an error: ext is "none"
\* (no FABRID options; the reverse-path error, if any, is still in err),
\* "validated" (options parsed and handled, no reply; err now nil),
\* "answered" (the server has a reply, written by writeFabridReply),
\* "malformed" (an option fails to parse) or "rejected"
\* (HandleFabridPacket fails).  Every failure returns 0 bytes.
fabridReadOk(r, p, ext) ==
    \/ ext = "none" /\ p # None
    \/ ext = "validated"
    \/ ext = "answered" /\ writeFabridReply(r, p)

\* fabridListenConn.ReadFromVia: Record first, then the extension
\* options; the application never sees a packet returned with an error.
FabridReadFromVia(r, p, ext) ==
    /\ lst = "open" /\ fabrid
    /\ record(r, p)
    /\ accepted' = IF fabridReadOk(r, p, ext) /\ p # None
                   THEN [accepted EXCEPT ![r] = Append(@, p)]
                   ELSE accepted
    /\ UNCHANGED <<lst, fabrid, regd, rawOpen>>

\* The registry delivers a down notification to every subscribed reply
\* selector; DefaultReplySelector.PathDown is a no-op ("TODO failover").
PathDown(fp) ==
    /\ regd
    /\ UNCHANGED vars

\* Close: stats.unsubscribe, selector.Close (nil), then the socket.
Close ==
    /\ lst = "open"
    /\ lst' = "closed"
    /\ regd' = FALSE
    /\ rawOpen' = FALSE
    /\ UNCHANGED <<rsVars, fabrid, accepted>>

Init ==
    /\ RS!Init
    /\ lst = "none"
    /\ fabrid = FALSE
    /\ regd = FALSE
    /\ rawOpen = FALSE
    /\ accepted = [r \in Remotes |-> <<>>]

FabridOutcomes == {"none", "validated", "answered", "malformed", "rejected"}

\* A remote in the local AS never yields a reverse path.
PathsFrom(r) == IF r \in LocalRemotes THEN {None} ELSE Paths \cup {None}

Next ==
    \/ \E ok \in BOOLEAN : ListenUDP(ok)
    \/ \E failed \in {"open", "control", "none"} : ListenUDPWithFabrid(failed)
    \/ \E r \in Remotes : \E p \in PathsFrom(r) :
          \/ ReadFromVia(r, p)
          \/ \E ext \in FabridOutcomes :
                FabridReadFromVia(r, p, ext)
    \/ \E fp \in {Fingerprint[q] : q \in Paths} : PathDown(fp)
    \/ Close

Spec == Init /\ [][Next]_vars

-----------------------------------------------------------------------------
(* Properties                                                              *)

TypeOK ==
    /\ RS!TypeOK
    /\ lst \in {"none", "open", "failed", "closed"}
    /\ {fabrid, regd, rawOpen} \subseteq BOOLEAN
    /\ accepted \in [Remotes -> Seq(Paths)]

\* The selector's MRU contract (module ReplySelector) holds for every
\* sequence of receives the listener records, plain or FABRID.
ReplyCacheIsRecencyOrder == RS!CacheIsRecencyOrder

\* The spec (4.3): Record is "called on every successful receive" and the
\* cache holds the most recent paths of those.  The reply cache is the
\* recency order of the receives the application accepted.
CacheFromAcceptedReceives ==
    \A r \in Remotes : remotes[r] = RS!Recent(accepted[r], MaxReplyPaths)
=============================================================================
