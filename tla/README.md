# TLA+ models of the pan path selectors (scion-apps)

This directory holds TLA+ models of the path-selection core of the `pan`
library (`src/pkg/pan/`). They cover:

- the per-connection `Selector`s;
- the probing loop of `PingingSelector`;
- the FABRID selector;
- the glue that ties a connection to the shared path pool;
- the reply-path cache of listening sockets.

Every module is written from the Go source. The liveness/latency registry
(`stats`) and the path pool are not under `src/`, so they are modelled from
`spec.md`. `PROJECT.json` lists every definition with the lines it models.

## The system

| Part | Code | State | Operations |
|---|---|---|---|
| `DefaultSelector` | selector.go:66-129 | `paths`, `current` (one mutex) | Initialize, Refresh, PathDown, Path |
| `PingingSelector` | selector.go:131-333 | `paths`, `current`, `numActive`, pinger + context; run(): `sequenceNo`, `replyPending`, ticker, timeout timer | Initialize, Refresh, PathDown, SetActive, Close; loop branches Done / tick / reply / timeout; sendPings; handlePingReply |
| `FabridSelector` | selector.go:335-507 | `paths`, `current`; the pool's `*Path` objects it wraps | Initialize (hop list, control-plane setup, wrapping), Refresh, PathDown |
| `pathRefreshSubscriber` | udp_dial.go:299-348 | `policy`, its registration in the pool | open (subscribe, then Initialize), setPolicy, refresh, PathDown, Close |
| `DefaultReplySelector` | udp_listen.go:229-391 | `remotes`: remote -> pathsMRU | Record (insert), Path |
| `listenConn` / `fabridListenConn` | udp_listen.go:69-327 | socket state, the selector's registration, FABRID server | ListenUDP, ListenUDPWithFabrid, ReadFromVia, WriteTo, writeFabridReply, Close |
| `dialedConn` / `fabridDialedConn` | udp_dial.go:57-296 | the socket, the subscriber, the selector | DialUDP, DialUDPWithFabrid, SetPolicy, Write, Read (FABRID control options), Close |
| `hellofabrid` example | hellofabrid.go:259-340 | client loop counter; server loop | runClient, runServer |
| registry `stats` (spec) | — | down marks, latencies | NotifyPathDown, FirstMoreAlive, LowestLatency, RecordLatency |
| path pool (spec) | — | cached paths per destination, subscribers | subscribe, cachedPaths, refresh callbacks, PathDown forwarding |

How the parts interact:

- A dialed connection opens a subscriber. The subscriber registers with the pool
  and then Initializes the selector.
- From then on, three goroutines call into the selector:
  - the pool's refresher, with `refresh`, and with `PathDown` from the registry;
  - the application, with `setPolicy`;
  - for `PingingSelector`, the probing goroutine `run()`.
- The probing goroutine records latencies in the registry and calls
  `reselectPath`.
- A listening socket records the reverse path of every packet it receives.
  `WriteTo` replies on the most recent reverse path.
- In `hellofabrid`, a client writes `count` messages on a FABRID dialed
  connection, each followed by a `Read` with a one-second deadline; the
  server answers every packet it reads with `WriteTo`, and its FABRID
  handling may also send an empty control-only packet back.

The hard behaviours:

- Several goroutines reach a selector with no ordering between them. This
  includes the subscriber's unsynchronised statements.
- The probing loop's `select` chooses at random among ready cases.
- Replies arrive late, are lost, or are stale (earlier sequence number).
- A timer can expire after it was logically stopped.
- Close can happen during a round.
- Control-plane failures in FABRID setup.
- Shared `*Path` objects are mutated in place.

## Modules

| Module | Models | Run(s) |
|---|---|---|
| `PathChoice` | abstract pin-and-failover promise: keep the chosen path while offered and not down; on a down notification move to a candidate not down, if any | instantiated by the refinement properties |
| `DefaultSelector` | DefaultSelector + the registry's down marks; refinement mapping to `PathChoice` | through `RefreshSubscriber` |
| `PingingSelector` | PingingSelector, ensureRunning, run(), sendPings, handlePingReply; ticker, timer, network | `PingingSelector`, `PingingSelector_RoundsFinalizedBeforeNext`, `PingingSelector_NoPanic`, `PingingSelector_ActivationStartsProbing` |
| `ReplySelector` | DefaultReplySelector.Record/Path and pathsMRU.insert | through `ListenConn` |
| `ListenConn` | listenConn / fabridListenConn and both constructors, composed with `ReplySelector` through `INSTANCE` | `ListenConn`, `ListenConn_CacheFromAcceptedReceives` |
| `RefreshSubscriber` | DialUDP, dialedConn.SetPolicy/Close, pathRefreshSubscriber + pool, composed with `DefaultSelector` through `INSTANCE` | `RefreshSubscriber`, `RefreshSubscriber_NoPanic` |
| `FabridSelector` | FabridSelector for two connections sharing pool objects; the hop records of each wrapped path | `FabridSelector`, `FabridSelector_OwnFabridState`, `FabridSelector_NoPanic` |
| `FabridHops` | the per-hop policy loop of FabridSelector.Initialize as a `RECURSIVE` operator, and its per-AS reference | through `FabridSelector` |
| `HelloFabrid` | runClient/runServer with fabridDialedConn and fabridListenConn, composed with `FabridSelector` and `ListenConn` through `INSTANCE`, over a lossy network | `HelloFabrid` |

Each `MC_<Module>` module gives values to the constants: model values for paths,
interfaces, connections and remotes, plus small sets.

How state and actions correspond to the code:

- **One atomic action per mutex-protected method.** This applies to Initialize,
  Refresh, PathDown, Record and reselect.
- **One action per select branch of `run()`.** `sendPings` sends one probe per
  step, so `Close` can interleave with a round.
- **One action per statement of the lock-free subscriber code.**
  - open: `Subscribe`, then `InitializeTarget`;
  - setPolicy: `SetPolicyRead`, then `SetPolicyRefresh`;
  - refresh: `RefreshReadPolicy`, then `RefreshDeliver`.
- **A panic sets `panicked` and ends the behaviour.**
- **Ghost variables.** In `PingingSelector`, `round`, `probeRound`, `probed`
  and `samples` attribute every latency sample to the probe it answers.
- **History.** In `ReplySelector`, `history` records every receive; in
  `ListenConn`, the ghost `accepted` records the receives returned to the
  application without an error.
- **Environment outcomes are inputs.** Constructor steps that can fail
  (OpenRaw, SVCInfo, gRPC dial), `NewPinger`'s result (`PingerResults`) and
  the FABRID extension handling of a packet (`none`, `malformed`, `rejected`,
  `answered`) are chosen with `\E` in the action that performs them.

## Runs

Passing runs:

- **`PingingSelector`** checks `TypeOK`, `SelectionReflectsMeasurements`,
  `AtMostOneSample` and `RoundsEventuallyFinalize`.
  - `SelectionReflectsMeasurements`: whenever no reply is pending, `current` is
    the registry's lowest-latency path.
  - `AtMostOneSample`: no probe is sampled twice, whether by reply plus timeout
    or by a stale reply.
  - `RoundsEventuallyFinalize`: a round with pending probes eventually ends,
    with an empty `replyPending`, unless `Close` cancelled the loop. This
    holds even when every reply is lost, because the timeout is re-armed after
    each round. The mutant that drops the `resetTimer` breaks it.
  - The tick branch is three steps, one per unlocked read of `s.paths`
    (`LoopTick` at 231, `LoopTickClamp` at 232-233, `LoopTickSlice` at 238).
    When a `Refresh` shortened the list in between, the slice either panics
    or probes entries of the backing array, taken as any paths.
  - Bounds: 2 paths, one RTT value below `Timeout`, `sequenceNo` modulo 3,
    2 rounds, `SetActive` with 2. With lists of length 1 and 2 this reaches
    the clamp and the slice past a shortened list. Symmetry is not used,
    because the run checks liveness. This gives about 370k states in about
    2 minutes.
- **`RefreshSubscriber`** checks `TypeOK`, `HoldsOnlyWhatItOwns`,
  `SelectorRefinesPathChoice` and the liveness property `StaleViewRepaired`.
  - `HoldsOnlyWhatItOwns`: the dialer's `dial` runs through `DialUDP`
    (`OpenRaw` may fail, a remote in the local AS gets no subscriber,
    `pool.subscribe` may fail) to `dialedConn.Close`. The pool lists the
    subscriber only after a successful subscribe and before Close. The raw
    socket is open only while dialling, on a live connection, or after a dial
    whose subscribe failed, which is the leak at udp_dial.go:86-88.
  - `SelectorRefinesPathChoice`: the DefaultSelector the subscriber feeds
    refines `PathChoice`, mapped through `Path()`, the candidate list and the
    registry's down set; before `Initialize` the mapping offers nothing.
    Refreshes that race `Initialize` or each other still only move `Path()`
    when the offered list drops it.
  - `TypeOK` includes the spec's claim that the index is valid for its list.
  - `StaleViewRepaired`: on an open connection a view that disagrees with
    `Filter(policy, poolPaths)` is eventually repaired, unless the connection
    closes or the process panics.
  - Bounds: 2 paths, 4 pool lists, 2 policies, at most 2 setPolicy calls
    (about 370k states).
- **`FabridSelector`** checks `TypeOK`, `HopsPerAS` and `FabridChoiceSpec`.
  - `FabridChoiceSpec`: both connections' selectors refine `PathChoice` over
    fingerprints.
  - `HopsPerAS`: the object a connection wrapped carries exactly one policy
    record per AS of its route, with the interfaces the path enters and
    leaves it by; that is also the capacity `len(ifaces)/2+1` the code
    reserves. The two routes have 3 and 4 ASes (one and two interior
    hops).
  - Bounds: 2 connections, 3 objects (two share a fingerprint, so a Refresh
    brings a new unwrapped copy), lists of up to 2.
- **`ListenConn`** checks `TypeOK` and `ReplyCacheIsRecencyOrder`.
  - `ReplyCacheIsRecencyOrder` compares each remote's list with a recursive
    reference `Recent`: the `MaxReplyPaths` most recent distinct fingerprints
    of its history, newest first, each with its newest object.
  - Bounds: two remote ASes and one remote in the local AS (symmetric in the
    two remote ASes), 4 path objects over 3 fingerprints (two objects share
    one), capacity 2, 3 receives per remote, every constructor outcome of
    both listener kinds. That reaches insertion, update-in-place and eviction
    at capacity (about 134k states).
- **`HelloFabrid`** checks `TypeOK` and the liveness property
  `ClientTerminates`.
  - `ClientTerminates`: runClient returns (or the process crashes) whatever
    the network loses, whatever the server does and however many foreign
    packets arrive.
  - Bounds: `count` 2; the client's pool holds the 2-AS route A (two
    objects) and the 4-AS route B; every Dial, listen, FABRID and control
    outcome; pool refreshes while the client is subscribed (about 58k
    states). Down notifications are left to `FabridSelector`: they only
    move the selector between paths it already holds, and they multiply
    the state space.
  - The network is a set of packets in flight: lost at any time, delivered
    in any order; identical packets merge, which no property can tell
    apart.

Violations (see "findings" in `PROJECT.json`):

- **`PingingSelector_RoundsFinalizedBeforeNext`.** `select` takes a tick while
  the previous round's timeout is ready. Rounds overlap, and a re-probed path's
  earlier probe never gets a sample. This contradicts the spec's "rounds never
  overlap".
- **`PingingSelector_NoPanic`.** The probing loop can crash the process in two
  ways. TLC's trace shows the first: the tick branch fixes `numActive` from
  `len(s.paths)`, a `Refresh` installs an empty list, and
  `s.paths[:numActive]` (selector.go:238) slices past its capacity. The
  second is `Close` during a round, which makes `sendPings` panic on the
  next `Send` (selector.go:271).
- **`PingingSelector_ActivationStartsProbing`.** `SetActive` before
  `Initialize` compares two zero addresses in `ensureRunning`
  (selector.go:198), takes them for the same AS and starts nothing;
  `Initialize` does not start the loop either. The run has every `NewPinger`
  succeed; a failing `NewPinger` (selector.go:207) has the same effect.
- **`RefreshSubscriber_NoPanic`.** A `PathDown` forwarded between
  `pool.subscribe` and `Initialize` panics in `DefaultSelector.PathDown`
  (selector.go:116). The same line also panics after a policy has filtered
  every path away.
- **`FabridSelector_OwnFabridState`.** `Initialize` wraps the shared pool object
  in place (selector.go:465). A second connection then sends with the first
  connection's FABRID state.
- **`FabridSelector_NoPanic`.** An `Initialize` that returned early on a
  control-plane error leaves no paths, and the next `PathDown` panics.

- **`ListenConn_CacheFromAcceptedReceives`.** `fabridListenConn.ReadFromVia`
  records the reverse path (udp_listen.go:252) before it parses the FABRID
  options. A packet it then rejects with an error becomes the path replies
  to that remote go over. The spec has Record called on every successful
  receive.

Every property of a passing run has a mutant in `PROJECT.json`: a plausible bug
in the code, written as an operator. TLC finds the property violated when that
operator replaces the definition it mutates.

## Fairness

`RefreshSubscriber`, `HelloFabrid` and `PingingSelector` check liveness.

`RefreshSubscriber`'s assumptions:

- Weak fairness on each goroutine's next statement (subscribe, Initialize,
  setPolicy's Refresh, and delivering a refresh).
- Weak fairness on the pool's refresh. The pool refreshes paths periodically for
  as long as the process runs.
- No fairness for setPolicy, Close or down notifications. They are the
  application's and the network's choice.
- `setPolicy` is bounded by `MaxPolicyChanges`, so the application eventually
  stops changing the policy.

`HelloFabrid`'s assumptions: weak fairness on runClient's own steps (Dial,
Write, loop exit) and on the expiry of the read deadline, which `Read`
always reaches because runClient sets it before every `Read`. There is no
fairness on delivery, loss, foreign packets, the pool or the server: the
client must terminate whatever they do.

`PingingSelector`'s assumptions (`FairSpec`):

- Weak fairness on the loop's next statement inside the tick branch (the
  clamp and the slice) and on sending a probe. `run()` is a goroutine that is
  eventually scheduled.
- Strong fairness on the timeout and done branches. Go's `select` picks
  uniformly among the ready cases, so a case that is ready at infinitely many
  evaluations is taken with probability 1. Weak fairness is not enough here:
  ticks that find nothing to probe take the loop out of `select` and back.
- Weak fairness on the expiry of an armed timer, which the Go runtime delivers.
- No fairness for the ticker, the network, or the selector's callers.

## Not modelled

- **Socket I/O and wire-level parsing.** Packet reads and writes, address
  conversion and the parsing of each FABRID option are I/O and byte
  encoding; `ListenConn` keeps only their outcome.
- **Constructor leaks.** `ListenUDP` and `ListenUDPWithFabrid` subscribe the
  selector before steps that can fail and never undo it; `DialUDP` leaves
  the raw socket open when the subscriber fails (udp_dial.go:86-88), and
  `DialUDPWithFabrid` never closes its gRPC connection to the control service
  (udp_dial.go:122; the model does not keep that connection).
  `ListenConn` keeps `regd` and `rawOpen` after a failure, but no property
  states the leak: it is what the code does on an error return.
- **Growth of the reply selector's `remotes` and replies on a down path.**
  Remote entries are never evicted (udp_listen.go:345), and
  `DefaultReplySelector.PathDown` is a no-op (351). The model has a fixed set
  of remotes and keeps `PathDown` as a stutter; neither is stated as a
  property.
- **The rest of `dialedConn`.** The plain `Read`, `ReadVia` and `WriteVia`
  are socket I/O, with the same wrong-source filter as the FABRID `Read`
  that `HelloFabrid` models. `GetPath` only reads the selector. `HelloFabrid` opens the client with
  `DialUDPWithFabrid` in one step: the race between `pool.subscribe` and
  `Initialize` is `RefreshSubscriber`'s.
- **FABRID key and gRPC content.** Only the owner of each object's FABRID state
  is kept.
- **Torn reads.** In the data race on `s.paths` (selector.go:231-238), each of
  the three reads sees a whole list, old or new; a torn slice header is not
  modelled.
- **The registry's ordering.** The registry (`stats`, outside `src/`) records a
  down notification and delivers it to the selectors in one step, so a
  selector's `FirstMoreAlive` always sees the mark it is reacting to.
- **Timing.** The model assumes `Timeout < Interval` and instantaneous sending.
  The ticker fires only between rounds.
- **`sequenceNo` wrap-around.** It is not reached, because `MaxRounds` is below
  `SeqNoMod`. A reply would have to arrive 2^16 probing intervals late, so no
  property claims it.
- **The first version of `hellofabrid.go` (lines 1-196).** It calls
  `ListenUDPWithFabrid` with three results, which the library does not
  return, so it does not build against this library. `HelloFabrid` models
  the second version. `SetValidationRatio` and the validation handlers act
  on the FABRID client and server, outside `src/`. The integration test
  only matches log output.
- **The server's exit on a bad packet.** runServer returns on the first
  `ReadFrom` error, and `HelloFabrid` models every outcome that causes one.
  The example returns every error by design, so no property claims that it
  keeps serving.

## Plan for the next sittings

1. `RefreshSubscriber` with a `PingingSelector` or `FabridSelector` target.
2. A refinement of `ReplySelector` to an abstract recency map.
