----------------------------- MODULE HelloFabrid -----------------------------
(***************************************************************************)
(* The hellofabrid example (src/_examples/hellofabrid/hellofabrid.go, the *)
(* version that matches the library's signatures: runServer and          *)
(* runClient) run end to end: a client on a fabridDialedConn              *)
(* (src/pkg/pan/udp_dial.go) and a server on a fabridListenConn, over a  *)
(* network that loses and reorders packets and delivers packets of other *)
(* senders to the client.                                                *)
(*                                                                         *)
(* The client's FabridSelector is module FabridSelector (one connection,  *)
(* through INSTANCE), fed by the path pool's refreshes and down           *)
(* notifications while the connection is open; the server's listener and *)
(* reply cache are module ListenConn (one remote: the client).  The       *)
(* server's reverse path for a route is named by the route's fingerprint. *)
(* Time is abstract: the client's read deadline may expire whenever it is *)
(* waiting in Read.                                                       *)
(***************************************************************************)
EXTENDS Integers, Sequences, SequencesExt

CONSTANTS Client,          \* the client's address, the server's only remote
          Objs, Fingerprint, Fps, Ifaces, PathIfaces, PathSets, Route, Links,
          Scion, None,
          MaxReplyPaths,
          Count,           \* runClient's count
          FabridOutcomes,  \* HandleFabridPacket outcomes of a FABRID packet
          ControlOutcomes  \* handling of a FABRID control option at the client

ASSUME FabridOutcomes \subseteq {"validated", "answered", "malformed", "rejected"}
       /\ ControlOutcomes \subseteq {"ok", "error"} /\ Count \in Nat

VARIABLES paths, current, initialized, dp, hops, downFps, downIfs, panicked,
          remotes, history, lst, fabrid, regd, rawOpen, accepted,
          cst,   \* client: "dialing", "writing", "reading", "done", "failed"
          i,     \* client: the loop variable
          clSub, \* client: its pathRefreshSubscriber is subscribed to the pool
          srv,   \* server: "listening", "reading", "writing", "closing", "failed"
          net    \* packets in flight

selVars == <<paths, current, initialized, dp, hops, downFps, downIfs, panicked>>
lcVars == <<remotes, history, lst, fabrid, regd, rawOpen, accepted>>
clVars == <<cst, i, clSub>>
vars == <<selVars, lcVars, clVars, srv, net>>

FS == INSTANCE FabridSelector WITH Conns <- {Client}
LC == INSTANCE ListenConn
    WITH Remotes <- {Client}, Paths <- Fps, Fingerprint <- [f \in Fps |-> f],
         MaxRecords <- Count, LocalRemotes <- {}

Packet(to, src, kind, fp, fab) ==
    [to |-> to, src |-> src, kind |-> kind, fp |-> fp, fabrid |-> fab]
Reply == Packet("cl", "srv", "data", None, FALSE)
ControlReply == Packet("cl", "srv", "control", None, FALSE)
Foreign == Packet("cl", "other", "data", None, FALSE)

-----------------------------------------------------------------------------
(* Client: runClient over DialUDPWithFabrid and fabridDialedConn          *)

\* DialUDPWithFabrid: SVCInfo, ResolveTCPAddr and grpc.DialContext
\* ("control"), then openBaseUDPConn ("socket"), then
\* openPathRefreshSubscriber: pool.subscribe ("subscribe"), then the
\* selector's Initialize with the pool's paths.  runClient returns any
\* error.
ClientDial(failed, ps, ok) ==
    /\ cst = "dialing"
    /\ IF failed = "none"
       THEN /\ FS!Initialize(Client, ps, ok)
            /\ clSub' = TRUE /\ cst' = "writing"
       ELSE /\ cst' = "failed" /\ UNCHANGED <<selVars, clSub>>
    /\ UNCHANGED <<lcVars, i, srv, net>>

\* Mutant of ClientWrite: the loop runs while i <= count.
ClientWriteOffByOne ==
    LET o == FS!Path(Client) IN
    /\ cst = "writing" /\ i <= Count
    /\ IF o = None
       THEN cst' = "failed" /\ clSub' = FALSE /\ UNCHANGED net
       ELSE /\ net' = net \cup {Packet("srv", "cl", "data", Fingerprint[o], dp[o] # Scion)}
            /\ cst' = "reading" /\ UNCHANGED clSub
    /\ UNCHANGED <<selVars, lcVars, i, srv>>

\* dialedConn.Write: selector.Path(), errNoPathTo when nil, else the
\* packet goes out on it, FABRID-wrapped if Initialize wrapped it.  A
\* returned error ends runClient; the deferred Close unsubscribes.
ClientWrite ==
    LET o == FS!Path(Client) IN
    /\ cst = "writing" /\ i < Count
    /\ IF o = None
       THEN cst' = "failed" /\ clSub' = FALSE /\ UNCHANGED net
       ELSE /\ net' = net \cup {Packet("srv", "cl", "data", Fingerprint[o], dp[o] # Scion)}
            /\ cst' = "reading" /\ UNCHANGED clSub
    /\ UNCHANGED <<selVars, lcVars, i, srv>>

\* The loop ends: return nil, and the deferred Close (subscriber Close,
\* selector Close, socket Close).
ClientDone ==
    /\ cst = "writing" /\ i = Count
    /\ cst' = "done" /\ clSub' = FALSE
    /\ UNCHANGED <<selVars, lcVars, i, srv, net>>

\* fabridDialedConn.Read, one packet: from another source, continue; a
\* FABRID control option is handled (an error returns it: runClient
\* fails), and an empty packet carrying one is skipped; else the reply is
\* returned and the loop goes on with i+1.
ClientRead(m) ==
    /\ cst = "reading" /\ m \in net /\ m.to = "cl"
    /\ net' = net \ {m}
    /\ \/ m.src # "srv" /\ UNCHANGED <<cst, i, clSub>>
       \/ m.src = "srv" /\ m.kind = "control"
          /\ \E res \in ControlOutcomes :
                IF res = "error" THEN cst' = "failed" /\ clSub' = FALSE /\ UNCHANGED i
                ELSE UNCHANGED <<cst, i, clSub>>
       \/ m.src = "srv" /\ m.kind = "data"
          /\ cst' = "writing" /\ i' = i + 1 /\ UNCHANGED clSub
    /\ UNCHANGED <<selVars, lcVars, srv>>

\* Mutant of ClientTimeout: the message is retried instead of skipped.
ClientTimeoutRetry ==
    /\ cst = "reading"
    /\ cst' = "writing"
    /\ UNCHANGED <<selVars, lcVars, i, clSub, srv, net>>

\* The read deadline expires: os.ErrDeadlineExceeded, continue (i+1).
ClientTimeout ==
    /\ cst = "reading"
    /\ cst' = "writing" /\ i' = i + 1
    /\ UNCHANGED <<selVars, lcVars, clSub, srv, net>>

\* The pool refreshes the client's paths while the subscriber is
\* subscribed (spec-modelled).  Down notifications, which only move the
\* selector between the paths it holds, are checked in FabridSelector.
PoolRefresh(ps) == clSub /\ FS!Refresh(Client, ps) /\ UNCHANGED <<lcVars, clVars, srv, net>>

-----------------------------------------------------------------------------
(* Server: runServer over ListenUDPWithFabrid and fabridListenConn        *)

\* ListenUDPWithFabrid; runServer returns its error.
ServerListen(failed) ==
    /\ srv = "listening"
    /\ LC!ListenUDPWithFabrid(failed)
    /\ srv' = IF failed = "none" THEN "reading" ELSE "failed"
    /\ UNCHANGED <<selVars, clVars, net>>

\* conn.ReadFrom: a client packet, its reverse path (None when it cannot
\* be built) and, for a FABRID packet, the outcome of its options.  An
\* answered FABRID packet sends the control reply to the client.  An
\* error makes runServer return (the deferred Close follows).
ServerReadFrom(m, p, ext) ==
    LET ok == LC!fabridReadOk(Client, p, ext) IN
    /\ srv = "reading" /\ m \in net /\ m.to = "srv"
    /\ LC!FabridReadFromVia(Client, p, ext)
    /\ net' = (net \ {m}) \cup (IF ext = "answered" /\ ok THEN {ControlReply} ELSE {})
    /\ srv' = IF ok THEN "writing" ELSE "closing"
    /\ UNCHANGED <<selVars, clVars>>

\* conn.WriteTo(msg, from): the reply goes out over the reply path;
\* errNoPathTo makes runServer return.
ServerWriteTo ==
    /\ srv = "writing"
    /\ IF LC!replyPath(Client) = None
       THEN srv' = "closing" /\ UNCHANGED net
       ELSE srv' = "reading" /\ net' = net \cup {Reply}
    /\ UNCHANGED <<selVars, lcVars, clVars>>

\* runServer returns: the deferred conn.Close.
ServerClose ==
    /\ srv = "closing"
    /\ LC!Close
    /\ srv' = "failed"
    /\ UNCHANGED <<selVars, clVars, net>>

-----------------------------------------------------------------------------
(* Network                                                                 *)

Lose(m) == m \in net /\ net' = net \ {m} /\ UNCHANGED <<selVars, lcVars, clVars, srv>>

\* Another host sends to the client's port.
ForeignSend == net' = net \cup {Foreign} /\ UNCHANGED <<selVars, lcVars, clVars, srv>>

Init ==
    /\ FS!Init
    /\ LC!Init
    /\ cst = "dialing" /\ i = 0 /\ clSub = FALSE
    /\ srv = "listening"
    /\ net = {}

ClientNext ==
    \/ \E failed \in {"control", "socket", "subscribe", "none"}, ps \in PathSets,
          ok \in BOOLEAN : ClientDial(failed, ps, ok)
    \/ ClientWrite
    \/ ClientDone
    \/ \E m \in net : ClientRead(m)
    \/ ClientTimeout

ServerNext ==
    \/ \E failed \in {"open", "control", "none"} : ServerListen(failed)
    \/ \E m \in net : \E p \in {m.fp, None} :
          \E ext \in IF m.fabrid THEN FabridOutcomes ELSE {"none"} :
             ServerReadFrom(m, p, ext)
    \/ ServerWriteTo
    \/ ServerClose

EnvNext ==
    \/ \E ps \in PathSets : PoolRefresh(ps)
    \/ \E m \in net : Lose(m)
    \/ ForeignSend

Next == ~panicked /\ (ClientNext \/ ServerNext \/ EnvNext)

\* runClient runs on its own; its Read always returns by the deadline
\* it set just before.  No fairness for the network, the pool or the
\* server: the client must finish whatever they do.
Fairness ==
    /\ WF_vars(~panicked /\ \E failed \in {"control", "socket", "subscribe", "none"},
                  ps \in PathSets, ok \in BOOLEAN : ClientDial(failed, ps, ok))
    /\ WF_vars(~panicked /\ ClientWrite)
    /\ WF_vars(~panicked /\ ClientDone)
    /\ WF_vars(~panicked /\ ClientTimeout)

Spec == Init /\ [][Next]_vars /\ Fairness

-----------------------------------------------------------------------------
(* Properties                                                              *)

TypeOK ==
    /\ FS!TypeOK /\ LC!TypeOK
    /\ cst \in {"dialing", "writing", "reading", "done", "failed"}
    /\ i \in 0..Count /\ clSub \in BOOLEAN
    /\ srv \in {"listening", "reading", "writing", "closing", "failed"}
    /\ net \subseteq {Reply, ControlReply, Foreign}
                     \cup {Packet("srv", "cl", "data", f, b) : f \in Fps, b \in BOOLEAN}

\* runClient terminates (returns or crashes) whatever the network, the
\* pool and the server do: every Read is bounded by the deadline set
\* before it, and a timed-out message is skipped, not retried.
ClientTerminates == <>(cst \in {"done", "failed"} \/ panicked)
=============================================================================
