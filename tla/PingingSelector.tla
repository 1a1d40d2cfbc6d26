--------------------------- MODULE PingingSelector ---------------------------
(***************************************************************************)
(* PingingSelector (src/pkg/pan/selector.go): the latency-driven selector *)
(* and its active probing loop run().                                     *)
(*                                                                         *)
(* The selector's methods hold its mutex and are atomic actions.  run()   *)
(* is a goroutine that never takes the mutex except inside reselectPath; *)
(* each branch of its select is one action, except that sendPings sends  *)
(* one probe per step so that Close can interleave with a round being    *)
(* sent.  Go's select picks uniformly among ready cases, so every ready  *)
(* branch is enabled at once.  The ticker, the timeout timer and the     *)
(* network are environment actions.  Timing assumption (Timeout <        *)
(* Interval, sending takes no time): the ticker only fires while the     *)
(* loop is idle and the round's timer is not armed.                      *)
(*                                                                         *)
(* Ghost state (round, probeRound, probed, samples) attributes every     *)
(* latency sample to the probe it answers; the code does not keep it.    *)
(***************************************************************************)
EXTENDS Integers, Sequences, SequencesExt

CONSTANTS Fps,          \* path fingerprints
          PathSets,     \* the path lists Initialize/Refresh may receive
          Latencies,    \* round-trip times a reply can measure
          Timeout,      \* PingingSelector.Timeout, recorded for lost probes
          NoSample,     \* the registry has no latency for a path yet
          SeqNoMod,     \* sequenceNo is a uint16: arithmetic modulo 2^16
          MaxRounds,    \* bound on the number of probing rounds
          ActiveCounts, \* the values SetActive is called with
          SameIA,       \* local and remote are in the same AS
          PingerResults \* the outcomes ping.NewPinger can have (TRUE: success)

ASSUME Latencies \subseteq Nat /\ Timeout \in Nat
ASSUME \A l \in Latencies : l < Timeout
ASSUME SeqNoMod \in Nat \ {0} /\ MaxRounds \in Nat /\ SameIA \in BOOLEAN
ASSUME PingerResults \subseteq BOOLEAN /\ PingerResults # {}

VARIABLES paths, current, initialized,   \* selector state under the mutex
          numActive,                     \* atomic int64 numActive
          pinger,        \* s.pinger: "nil", "open" or "closed"
          cancelled,     \* s.pingerCtx is cancelled
          loop,          \* run(): "none", "idle", "clamping", "slicing",
                         \* "sending", "exited"
          tickK,         \* the tick branch's local numActive
          toSend,        \* the probes sendPings has still to send
          sequenceNo,    \* run()'s uint16 sequenceNo
          replyPending,  \* run()'s replyPending set
          timerArmed,    \* pingTimeout is running
          timerC,        \* pingTimeout.C holds an expiry
          tickC,         \* pingTicker.C holds a tick
          inflight,      \* probes sent whose reply is still in the network
          replies,       \* pinger.Replies: replies not yet received by run()
          latency,       \* registry: latency recorded per path (to remote)
          panicked,      \* a panic ended the process
          round, probeRound, probed, samples  \* ghost

vars == <<paths, current, initialized, numActive, pinger, cancelled, loop, tickK,
          toSend, sequenceNo, replyPending, timerArmed, timerC, tickC,
          inflight, replies, latency, panicked,
          round, probeRound, probed, samples>>

Probe == [fp : Fps, seq : 0..SeqNoMod - 1, round : 1..MaxRounds]
Reply == [fp : Fps, seq : 0..SeqNoMod - 1, round : 1..MaxRounds,
          ok : BOOLEAN, rtt : Latencies \cup {0}]

-----------------------------------------------------------------------------
(* Liveness/latency registry, spec-modelled (stats is not under src/).     *)

\* An unmeasured path ranks after every measured one.
Rank(lat, fp) == IF lat[fp] = NoSample THEN Timeout + 1 ELSE lat[fp]

\* stats.LowestLatency: index of the first path with the lowest latency
\* recorded in lat.
LowestLatency(lat, ps) ==
    IF ps = <<>> THEN 0
    ELSE LET best == Min({Rank(lat, ps[j]) : j \in 1..Len(ps)})
         IN SelectInSeq(ps, LAMBDA fp : Rank(lat, fp) = best) - 1

-----------------------------------------------------------------------------
(* Selector methods                                                        *)

SelectorVars == <<paths, current, initialized>>
LoopVars == <<loop, tickK, toSend, sequenceNo, replyPending, timerArmed, timerC,
              tickC>>
GhostVars == <<round, probeRound, probed, samples>>

Initialize(ps) ==
    /\ ~initialized
    /\ paths' = ps
    /\ current' = LowestLatency(latency, ps)
    /\ initialized' = TRUE
    /\ UNCHANGED <<numActive, pinger, cancelled, inflight, replies, latency,
                   panicked>>
    /\ UNCHANGED <<LoopVars, GhostVars>>

\* Mutant of Refresh: the new paths are stored without reselectPath.
RefreshNoReselect(ps) ==
    /\ initialized
    /\ paths' = ps
    /\ UNCHANGED <<current, initialized, numActive, pinger, cancelled,
                   inflight, replies, latency, panicked>>
    /\ UNCHANGED <<LoopVars, GhostVars>>

Refresh(ps) ==
    /\ initialized
    /\ paths' = ps
    /\ current' = LowestLatency(latency, ps)
    /\ UNCHANGED <<initialized, numActive, pinger, cancelled, inflight,
                   replies, latency, panicked>>
    /\ UNCHANGED <<LoopVars, GhostVars>>

\* PathDown, delivered through the path pool's subscriber: reselectPath.
PathDown ==
    /\ initialized
    /\ current' = LowestLatency(latency, paths)
    /\ UNCHANGED <<paths, initialized, numActive, pinger, cancelled,
                   inflight, replies, latency, panicked>>
    /\ UNCHANGED <<LoopVars, GhostVars>>

\* ensureRunning: nothing before Initialize (local and remote are still
\* zero, so their IAs are equal), nothing within one AS, nothing once a
\* pinger exists; otherwise NewPinger either fails (pinger stays nil) or
\* succeeds and starts run().  SetActive then stores numActive.
ensureRunning ==
    IF ~initialized \/ SameIA \/ pinger # "nil"
    THEN UNCHANGED <<pinger, cancelled, loop>>
    ELSE \E ok \in PingerResults :
            IF ok THEN /\ pinger' = "open"
                       /\ cancelled' = FALSE
                       /\ loop' = "idle"
                  ELSE UNCHANGED <<pinger, cancelled, loop>>

SetActive(n) ==
    /\ ensureRunning
    /\ numActive' = n
    /\ UNCHANGED <<SelectorVars, tickK, toSend, sequenceNo, replyPending,
                   timerArmed, timerC, tickC, inflight, replies, latency,
                   panicked, GhostVars>>

\* Close: cancel the pinger's context and close it, if there is one.
Close ==
    /\ pinger = "open"
    /\ cancelled' = TRUE
    /\ pinger' = "closed"
    /\ UNCHANGED <<SelectorVars, numActive, LoopVars, inflight, replies,
                   latency, panicked, GhostVars>>

-----------------------------------------------------------------------------
(* run(): one action per select branch                                     *)

\* reselectPath, as run() calls it after a round.
Reselect(lat) == current' = LowestLatency(lat, paths)

\* case <-s.pingerCtx.Done(): return.
LoopDone ==
    /\ loop = "idle"
    /\ cancelled
    /\ loop' = "exited"
    /\ UNCHANGED <<SelectorVars, numActive, pinger, cancelled, tickK, toSend,
                   sequenceNo, replyPending, timerArmed, timerC, tickC,
                   inflight, replies, latency, panicked, GhostVars>>

\* case <-pingTicker.C, first read of s.paths (no mutex): numActive is
\* loaded and compared with len(s.paths); if it is larger it is clamped
\* by a second read.  numActive 0 continues.  Bounded by MaxRounds.
LoopTick ==
    /\ loop = "idle"
    /\ tickC
    /\ round < MaxRounds
    /\ tickC' = FALSE
    /\ \/ numActive > Len(paths) /\ loop' = "clamping" /\ UNCHANGED tickK
       \/ numActive <= Len(paths) /\ numActive = 0 /\ UNCHANGED <<loop, tickK>>
       \/ numActive <= Len(paths) /\ numActive > 0
          /\ loop' = "slicing" /\ tickK' = numActive
    /\ UNCHANGED <<SelectorVars, numActive, pinger, cancelled, toSend,
                   sequenceNo, replyPending, timerArmed, timerC, inflight,
                   replies, latency, panicked, GhostVars>>

\* numActive = len(s.paths), the second read; 0 continues.
LoopTickClamp ==
    /\ loop = "clamping"
    /\ tickK' = Len(paths)
    /\ loop' = IF Len(paths) = 0 THEN "idle" ELSE "slicing"
    /\ UNCHANGED <<SelectorVars, numActive, pinger, cancelled, toSend,
                   sequenceNo, replyPending, timerArmed, timerC, tickC,
                   inflight, replies, latency, panicked, GhostVars>>

\* activePaths := s.paths[:numActive], the third read: the first tickK
\* paths are added to replyPending, sequenceNo is bumped and sending
\* starts.  When a Refresh shortened s.paths since numActive was read,
\* the slice reaches past its length: beyond its capacity this panics,
\* within it the backing array supplies paths the list no longer holds.
LoopTickSlice ==
    LET send(active) ==
            /\ replyPending' = replyPending \cup ToSet(active)
            /\ sequenceNo' = (sequenceNo + 1) % SeqNoMod
            /\ toSend' = active
            /\ loop' = "sending"
            /\ round' = round + 1
            /\ probeRound' = [fp \in Fps |->
                                IF fp \in ToSet(active) THEN round + 1
                                ELSE probeRound[fp]]
            /\ UNCHANGED <<panicked, probed, samples>>
    IN /\ loop = "slicing"
       /\ \/ tickK <= Len(paths) /\ send(SubSeq(paths, 1, tickK))
          \/ /\ tickK > Len(paths)
             /\ \/ panicked' = TRUE
                   /\ UNCHANGED <<loop, toSend, sequenceNo, replyPending,
                                  GhostVars>>
                \/ \E stale \in [1..tickK - Len(paths) -> Fps] :
                      send(paths \o stale)
       /\ UNCHANGED <<SelectorVars, numActive, pinger, cancelled, tickK,
                      timerArmed, timerC, tickC, inflight, replies, latency>>

\* sendPings, one pinger.Send per step; a failed Send panics, and Send
\* fails once Close has cancelled the context and closed the pinger.
\* After the last probe, resetTimer(pingTimeout, s.Timeout): the timer is
\* stopped, its channel drained and the timer re-armed.
\* Mutant of SendPing: after the last probe the loop goes idle without
\* resetTimer, so no timeout is armed for the round.
SendPingNoTimer ==
    LET fp == Head(toSend) IN
    /\ loop = "sending"
    /\ \/ /\ cancelled
          /\ panicked' = TRUE
          /\ UNCHANGED <<loop, toSend, timerArmed, timerC, inflight, probed>>
       \/ /\ ~cancelled
          /\ inflight' = inflight \cup
                {[fp |-> fp, seq |-> sequenceNo, round |-> round]}
          /\ probed' = probed \cup {<<round, fp>>}
          /\ toSend' = Tail(toSend)
          /\ IF Tail(toSend) = <<>>
             THEN /\ loop' = "idle"
                  /\ UNCHANGED <<timerArmed, timerC>>
             ELSE UNCHANGED <<loop, timerArmed, timerC>>
          /\ UNCHANGED panicked
    /\ UNCHANGED <<SelectorVars, numActive, pinger, cancelled, sequenceNo,
                   replyPending, tickK, tickC, replies, latency, round, probeRound,
                   samples>>

SendPing ==
    LET fp == Head(toSend) IN
    /\ loop = "sending"
    /\ \/ /\ cancelled
          /\ panicked' = TRUE
          /\ UNCHANGED <<loop, toSend, timerArmed, timerC, inflight, probed>>
       \/ /\ ~cancelled
          /\ inflight' = inflight \cup
                {[fp |-> fp, seq |-> sequenceNo, round |-> round]}
          /\ probed' = probed \cup {<<round, fp>>}
          /\ toSend' = Tail(toSend)
          /\ IF Tail(toSend) = <<>>
             THEN /\ loop' = "idle"
                  /\ timerArmed' = TRUE
                  /\ timerC' = FALSE
             ELSE UNCHANGED <<loop, timerArmed, timerC>>
          /\ UNCHANGED panicked
    /\ UNCHANGED <<SelectorVars, numActive, pinger, cancelled, sequenceNo,
                   replyPending, tickK, tickC, replies, latency, round, probeRound,
                   samples>>

\* handlePingReply.  An error reply (SCMP down) goes to stats.NotifyPathDown,
\* which reaches this selector's PathDown, i.e. reselectPath.  A reply is
\* accepted only for the current sequenceNo and a path still in
\* replyPending: its RTT is recorded and the path leaves replyPending.
\* Mutant of Accepted: the sequence number is not compared, so a late
\* reply to an earlier round counts for the current one.
AcceptedAnySeq(r) == r.ok /\ r.fp \in replyPending

Accepted(r) == r.ok /\ r.seq = sequenceNo /\ r.fp \in replyPending

\* case r := <-s.pinger.Replies: handlePingReply, then, if nothing is
\* pending any more, pingTimeout.Stop() and reselectPath.
LoopReply ==
    /\ loop = "idle"
    /\ \E r \in replies :
        LET lat == IF Accepted(r) THEN [latency EXCEPT ![r.fp] = r.rtt]
                   ELSE latency
            pending == IF Accepted(r) THEN replyPending \ {r.fp}
                       ELSE replyPending
        IN /\ replies' = replies \ {r}
           /\ latency' = lat
           /\ replyPending' = pending
           /\ samples' = IF Accepted(r)
                         THEN [samples EXCEPT ![<<r.round, r.fp>>] = @ + 1]
                         ELSE samples
           /\ IF pending = {}
              THEN /\ timerArmed' = FALSE
                   /\ Reselect(lat)
              ELSE /\ UNCHANGED timerArmed
                   /\ IF r.ok THEN UNCHANGED current ELSE Reselect(lat)
    /\ UNCHANGED <<paths, initialized, numActive, pinger, cancelled, loop,
                   tickK, toSend, sequenceNo, timerC, tickC, inflight, panicked,
                   round, probeRound, probed>>

\* Mutant of LoopTimeout: timed-out paths are recorded but reselectPath
\* is not called.
LoopTimeoutNoReselect ==
    /\ loop = "idle"
    /\ timerC
    /\ timerC' = FALSE
    /\ IF replyPending = {}
       THEN UNCHANGED <<latency, replyPending, samples>>
       ELSE /\ latency' = [fp \in Fps |-> IF fp \in replyPending THEN Timeout
                                          ELSE latency[fp]]
            /\ replyPending' = {}
            /\ samples' = [rf \in DOMAIN samples |->
                             IF rf[2] \in replyPending
                                /\ rf[1] = probeRound[rf[2]]
                             THEN samples[rf] + 1 ELSE samples[rf]]
    /\ UNCHANGED <<current, paths, initialized, numActive, pinger, cancelled,
                   loop, tickK, toSend, sequenceNo, timerArmed, tickC, inflight,
                   replies, panicked, round, probeRound, probed>>

\* case <-pingTimeout.C: if replies are still pending, record Timeout as
\* their latency, clear replyPending and reselectPath.
LoopTimeout ==
    /\ loop = "idle"
    /\ timerC
    /\ timerC' = FALSE
    /\ IF replyPending = {}
       THEN UNCHANGED <<current, latency, replyPending, samples>>
       ELSE LET lat == [fp \in Fps |-> IF fp \in replyPending THEN Timeout
                                       ELSE latency[fp]]
            IN /\ latency' = lat
               /\ replyPending' = {}
               /\ samples' = [rf \in DOMAIN samples |->
                                IF rf[2] \in replyPending
                                   /\ rf[1] = probeRound[rf[2]]
                                THEN samples[rf] + 1 ELSE samples[rf]]
               /\ Reselect(lat)
    /\ UNCHANGED <<paths, initialized, numActive, pinger, cancelled, loop,
                   tickK, toSend, sequenceNo, timerArmed, tickC, inflight, replies,
                   panicked, round, probeRound, probed>>

-----------------------------------------------------------------------------
(* Environment: ticker, timer, network                                     *)

TickerFires ==
    /\ loop = "idle"
    /\ ~tickC
    /\ ~timerArmed
    /\ tickC' = TRUE
    /\ UNCHANGED <<SelectorVars, numActive, pinger, cancelled, loop, tickK, toSend,
                   sequenceNo, replyPending, timerArmed, timerC, inflight,
                   replies, latency, panicked, GhostVars>>

TimerExpires ==
    /\ timerArmed
    /\ timerArmed' = FALSE
    /\ timerC' = TRUE
    /\ UNCHANGED <<SelectorVars, numActive, pinger, cancelled, loop, tickK, toSend,
                   sequenceNo, replyPending, tickC, inflight, replies,
                   latency, panicked, GhostVars>>

\* The remote answers a probe with an echo reply measuring some RTT, or a
\* router on the path answers with an SCMP interface-down error.
Respond ==
    \E p \in inflight :
        /\ inflight' = inflight \ {p}
        /\ \E ok \in BOOLEAN, rtt \in Latencies :
              replies' = replies \cup
                 {[fp |-> p.fp, seq |-> p.seq, round |-> p.round,
                   ok |-> ok, rtt |-> IF ok THEN rtt ELSE 0]}
        /\ UNCHANGED <<SelectorVars, numActive, pinger, cancelled, LoopVars,
                       latency, panicked, GhostVars>>

\* A probe or its reply is lost.
Lose ==
    \E p \in inflight :
        /\ inflight' = inflight \ {p}
        /\ UNCHANGED <<SelectorVars, numActive, pinger, cancelled, LoopVars,
                       replies, latency, panicked, GhostVars>>

-----------------------------------------------------------------------------

Init ==
    /\ paths = <<>>
    /\ current = 0
    /\ initialized = FALSE
    /\ numActive = 0
    /\ pinger = "nil"
    /\ cancelled = FALSE
    /\ loop = "none"
    /\ tickK = 0
    /\ toSend = <<>>
    /\ sequenceNo = 0
    /\ replyPending = {}
    /\ timerArmed = FALSE
    /\ timerC = FALSE
    /\ tickC = FALSE
    /\ inflight = {}
    /\ replies = {}
    /\ latency = [fp \in Fps |-> NoSample]
    /\ panicked = FALSE
    /\ round = 0
    /\ probeRound = [fp \in Fps |-> 0]
    /\ probed = {}
    /\ samples = [rf \in (1..MaxRounds) \X Fps |-> 0]

Next ==
    /\ ~panicked
    /\ \/ \E ps \in PathSets : Initialize(ps) \/ Refresh(ps)
       \/ PathDown
       \/ \E n \in ActiveCounts : SetActive(n)
       \/ Close
       \/ LoopDone \/ LoopTick \/ LoopTickClamp \/ LoopTickSlice \/ SendPing \/ LoopReply \/ LoopTimeout
       \/ TickerFires \/ TimerExpires \/ Respond \/ Lose

Spec == Init /\ [][Next]_vars

\* The Go runtime delivers an armed timer's expiry, and run() is a
\* goroutine that eventually executes its next statement.  Its select
\* picks uniformly among the ready cases, so a case that is ready at
\* infinitely many evaluations (the timeout or done case, between ticks
\* that find nothing to probe) is taken with probability 1: strong
\* fairness for those branches.  The ticker, the network and the callers
\* get no fairness.
FairSpec ==
    /\ Spec
    /\ WF_vars(~panicked /\ LoopTickClamp)
    /\ WF_vars(~panicked /\ LoopTickSlice)
    /\ WF_vars(~panicked /\ SendPing)
    /\ WF_vars(~panicked /\ TimerExpires)
    /\ SF_vars(~panicked /\ LoopTimeout)
    /\ SF_vars(~panicked /\ LoopDone)

-----------------------------------------------------------------------------
(* Properties                                                              *)

TypeOK ==
    /\ paths \in Seq(Fps)
    \* current is valid for the slice it is read with (0 when empty)
    /\ current \in 0..(IF paths = <<>> THEN 0 ELSE Len(paths) - 1)
    /\ initialized \in BOOLEAN
    /\ numActive \in ActiveCounts \cup {0}
    /\ pinger \in {"nil", "open", "closed"}
    /\ cancelled \in BOOLEAN
    /\ loop \in {"none", "idle", "clamping", "slicing", "sending", "exited"}
    /\ tickK \in 0..Max(ActiveCounts \cup {0})
    /\ toSend \in Seq(Fps)
    /\ sequenceNo \in 0..SeqNoMod - 1
    /\ replyPending \subseteq Fps
    /\ {timerArmed, timerC, tickC, panicked} \subseteq BOOLEAN
    /\ inflight \subseteq Probe
    /\ replies \subseteq Reply
    /\ latency \in [Fps -> Latencies \cup {Timeout, NoSample}]
    /\ round \in 0..MaxRounds
    /\ probeRound \in [Fps -> 0..MaxRounds]
    /\ probed \subseteq (1..MaxRounds) \X Fps
    /\ samples \in [(1..MaxRounds) \X Fps -> Nat]

\* Whenever no probe reply is outstanding, Path() is the lowest-latency
\* path the registry knows of among the current candidates: every
\* latency the probing loop records (a reply completing a round, a
\* timeout) is followed by reselectPath before the loop goes idle with
\* nothing pending, and Refresh/PathDown reselect too.
SelectionReflectsMeasurements ==
    replyPending = {} => current = LowestLatency(latency, paths)

\* A probe is answered by at most one latency sample: a reply that was
\* recorded is never also recorded as a timeout, and a reply to an older
\* round is never taken for the current one (handlePingReply checks the
\* sequence number and replyPending, the timeout branch takes only what
\* is still pending).
AtMostOneSample == \A rf \in DOMAIN samples : samples[rf] <= 1

\* The spec: "within one probing round, a reply or timeout strictly
\* finalizes that round before the next tick starts a new one (rounds
\* never overlap)", and every probed path "either receives a recorded
\* RTT sample or a timeout-valued sample ... never neither".  When a
\* round starts, every probe of the earlier rounds has its sample.
RoundsFinalizedBeforeNext ==
    \A rf \in probed : rf[1] < round => samples[rf] = 1

\* The spec (4.1): SetActive "lazily starts the background loop on first
\* activation ... skipped entirely if local and remote share the same
\* administrative domain".  An initialized selector between different
\* ASes with a positive active count has a probing loop (running, or
\* stopped by Close), whatever order SetActive and Initialize came in.
ActivationStartsProbing ==
    (initialized /\ ~SameIA /\ numActive > 0) => pinger # "nil"

\* The spec: failures other than opening the socket are "local and
\* recoverable", and Close "must not deadlock if invoked concurrently with
\* an in-flight round (the loop exits at its next select evaluation)".
\* The probing loop never crashes the process.
NoPanic == ~panicked


\* A probing round always ends: once probes are pending, sendPings
\* finishes the round and arms pingTimeout, and when replies are lost the
\* timeout branch records Timeout for every pending path, so replyPending
\* is eventually empty (or Close has cancelled the loop, or it panicked).
\* Without it, a lost reply would freeze the selection.
RoundsEventuallyFinalize ==
    (replyPending # {}) ~> (replyPending = {} \/ cancelled \/ panicked)
=============================================================================
