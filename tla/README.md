# TLA+ models of onced

onced is an idempotency gateway: a reverse proxy that runs a state-changing
request against a backend once per `Idempotency-Key`, caches the answer, and
replays it to every retry. This directory models the parts of it that hold
state, checks them with TLC on small instances, and proves the main theorems
with TLAPS for every value of the constants.

Source paths below are relative to `src/crates/`.

## 1. The system

| component | state | operations | talks to |
|---|---|---|---|
| idempotency engine (`onced-core/src/engine.rs`, `lib.rs`) | the fence counter; the store below it | `begin`, `complete`, `flush`, `prune_expired`, construction on a recovered store | a `Store` |
| write-ahead log (`onced-core/src/wal.rs`, `store.rs`) | index in memory, buffer of encoded records, head of the hash chain, log file | `open_with`, `put`, `flush`, `compact`, `max_in_progress_fence` | the file system |
| replication (`onced-core/src/replication.rs`) | a list of stores | `put`, `compact`, `get`, rebuilt by the operator after a loss | several `Store`s |
| gateway (`onced-gateway/src/gateway.rs`) | an engine, counters | `begin_phase`, `complete_phase`, `handle` | engine, backend |
| router (`onced-gateway/src/router.rs`) | shards behind mutexes, rule sets behind mutexes, `denied`, a round-robin cursor | `handle`, `handle_async`, `prune_expired`, `/metrics` | gateways, rule sets, backend |
| transports (`onced-gateway/src/server.rs`, `http.rs`, `onced-fast`, `onced-uring`) | threads or tasks, the bytes received on a connection | accept, read and parse, read the clock, hand over, forward, serialize | router, clients, backend |
| simulation (`onced-sim`) | an engine, workers, an oracle, a clock | `do_begin`, `do_complete`, `do_flush`, `do_advance_clock`, `do_crash` | engine |
| abuse layer (`onced-core/src/abuse.rs`, `velocity.rs`, `hll.rs`, `sketch.rs`, `pow.rs`) | per-identity counters in tables of bounded size | `check`, `evaluate`, `add`, `estimate` | called by the router (`abuse.rs` only) |

A request goes: transport (parse, read `now_ms` once) -> abuse stage ->
`begin_phase` under the shard's lock -> backend, with the lock dropped (router)
or held (`Mutex<Gateway>`) -> `complete_phase` under the lock -> answer. A
background thread sweeps expired keys and compacts the logs every minute.

What is hard about it, and what has to hold:

* **Time.** Every call is given a `now_ms` that was read earlier, before waiting
  for a lock; calls reach the engine in any order of it. Leases, expiry and the
  windows of the limiters must survive that.
* **Takeover.** A backend call may outlive its lease. A retry then runs the same
  operation; the late worker must be refused by its fence.
* **Crash.** The process may die inside a flush, inside a `put`, between
  `begin` and `complete`, around the rename of a compaction. Acknowledged
  completions must come back, the chain must verify, fences must not repeat.
* **Failure of one step of several.** A write or fsync fails after the index was
  updated; a replicated put reaches some nodes; a backend ran and its answer was
  lost.
* **Pieces.** A request or a reply arrives in pieces cut anywhere, and either
  side may close the connection before the last of them.
* **Several shards.** The answer for a key depends on which shard holds it; the
  sums behind `/metrics` are read from one shard after the other.
* **Bounds.** Saturating `u64` arithmetic, tables at their capacity.

`PROJECT.json` lists these as hazards, each at the line where it bites.

## 2. The modules

| module | models | lines |
|---|---|---|
| `KeyStates` | the life of one key: the stored states, and what `begin`, `complete` and `prune_expired` decide by looking at one | `engine.rs`, `lib.rs` |
| `ExactlyOnce` | abstract specification: one holder and one outcome per key, no clock, store or fence | - |
| `Engine` | the engine on its log, record by record, with crashes between and inside calls | `engine.rs`, `wal.rs` |
| `EngineProofs`, `SimulationProofs`, `GatewayProofs`, `TransportProofs` | theorems about the modules they are named after; `TransportProofs` about `Http` as well | - |
| `StoreProofs` | theorems about `WalStore` and `ReplicatedStore` | - |
| `EdgeProofs` | theorems about `RateLimiter`, `Velocity`, `CountMin` and `Pow` | - |
| `StateLemmas`, `ExtremaLemmas` | what the proofs share: facts about `KeyStates`, and about minima and maxima of sets of naturals | - |
| `WalStore` | the log file by file: frames, chain, torn and failed writes, compaction and rename, kill and power loss | `wal.rs` |
| `RecordLog` | abstract specification of the log: records that are on disk for good, records behind them that may be lost from the end, what was acknowledged | - |
| `ReplicatedStore` | replication node by node | `replication.rs` |
| `Simulation` | the deterministic simulation: `Engine` driven by its operations, with its oracle and its assertions | `onced-sim/src/lib.rs` |
| `Gateway` | concurrent requests on several shards, routing, both locking disciplines, counters and their scrape, cancellation, crash and restart with the same or another number of shards | `gateway.rs`, `router.rs`, `server.rs`, `onced-fast`, `onced-uring` |
| `Http` | messages and their conversions: parsing, serializing, response to cached outcome and back | `http.rs`, `gateway.rs` |
| `Transport` | one request and its retry as bytes, through each of the three transports | `server.rs`, `onced-fast`, `onced-uring` |
| `RateLimiter` | rule sets of sliding-window limiters | `abuse.rs` |
| `Velocity` | the distinct-target limiter on HyperLogLog | `velocity.rs`, `hll.rs` |
| `CountMin` | the count-min sketch | `sketch.rs` |
| `Pow` | proof-of-work challenges and their verification | `pow.rs` |
| `MCEngine`, `MCGateway`, `MCStores`, `MCWalStore`, `MCReplicatedStore`, `MCEdge` | instances for TLC; `MCEngine` has `Engine` driven by any callers or by the simulation, `MCStores` both stores, `MCEdge` what stands between clients and the engine | - |

How they fit: `Engine` and `Gateway` act on the decisions of `KeyStates`, so the
two cannot disagree on them. `Engine` takes its log to be a sequence of records
that survives as a prefix; `WalStore` is where that is checked, against the
interface `RecordLog`: its `Write`, `Acknowledge`, `Fail` and `Compact` are what
`Engine` does to its log. In one point `RecordLog` promises less than `Engine`
assumes: records an open found in the page cache stay losable until the next
acknowledgement, where `Engine` counts what survived a crash as on disk.
`Gateway` takes its engine's index to survive a crash; `Engine` is where that is
proved, for strict logs (`EngineInv`). `RateLimiter`
computes the verdict that `Gateway` leaves open. `Simulation` extends `Engine` and
takes its steps through `Engine`'s actions. `Transport` takes one request
through the phases that `Gateway` interleaves, with the bytes that `Gateway`
leaves out; `Http` holds the conversions.

### Correspondence, module by module

**Engine.** `index`, `disk` and `pending` are `WalStore`'s index, file and
buffer; `nextFence` is `Engine::next_fence`; `tokens` are the `RunToken`s in the
hands of workers. `Begin` is `begin` with `start`; `Complete` consumes its token
whatever it answers, as the Rust signature does; `PruneExpired` includes the
whole compaction. `Crash` keeps the file and any prefix of the buffer (a flush
cut short); `CrashInStart` and `CrashInComplete` are a strict put that reached
the file and never returned. `attempts`, `committer`, `acked`, `clock` are
history. `MaxAttempts` bounds how many attempts start. `WorkersOutliveCrash`
says whether tokens survive the crash of the engine: they do in the deterministic
simulation and for an embedder whose workers are other processes; they do not in
the gateway, whose workers are its own threads.

**Simulation.** The random choice of the next operation is nondeterministic, so a
run covers every seed up to its bounds. `committed`, `durable`, `committedFp` and
`completes` are the maps of the oracle, `workers` what each `Inflight` will
commit, and `panicked` says that one of the assertions failed. There is one clock
and it never goes back; it stays below the time-to-live, since no campaign of the
simulation lasts for the 24 hours of the default (`SimulationAssumption`: there is
a time-to-live, and a request to send). `do_crash` drops the engine between two
calls, loses the buffer and keeps the workers. Outcomes are not used twice: the
code gives each a body of its own.

**Gateway.** A response is named by the request whose forward produced it.
`holdLock` is chosen at the start: `Mutex<Gateway>` or `Router`. `Arrive` reads
the clock once; that reading is the `now_ms` of both phases, so a completion is
dated with the arrival of its request, as in the code. `CompletePhase` is the
return of the forward together with `complete_phase`: what the forward returns
is local to the request until then. `forwarded` is kept for the properties.
`Cancel` is the drop of the async future at its only await. `Crash` loses the
requests in hand, restarts the counters and rebuilds the fence counter. `life`
counts how often a key was recycled after a completion: properties compare only
requests of one life, since after the time-to-live a key is meant to run again.
`ShardCounts` are the numbers of shards, `Hashes` the possible values of the hash
of a key, `home` the shard a request was routed to when it arrived. `Restarts`
says what a restart keeps: `same` the logs and the number of shards, `memory`
nothing (the in-memory store of `onced-uring`), `recount` the logs with another
number of shards. A scrape of `/metrics` reads one shard per step and adds it with
`Merge`; `scrape.before` remembers what each shard had counted when it began.

**Http, Transport.** The bytes of a message are a sequence of units: the start
line, the header lines, the blank line, the bytes of the body. A piece may end
inside a line; what the code then reads is `Garbled` if the line has no colon or
no target yet, or else the same line with a shorter value (`Cut`, or a smaller
number, so that a `Content-Length` or a status loses digits). The three transports
share `ParseRequest`: a thread of `server.rs` asks for more until the message is
there, `read_request` of `onced-uring` parses everything it has after every read,
hyper hands over whole messages only. They differ in how they forward as well:
`write_request` replaces the length and `Connection` and passes every other header on;
`onced-fast` leaves `Host` and the framing to reqwest (`ReqwestSets`), which adds an
`Accept` if there is none and sends the target that its URL parser has made of the
one it was given (`Normalized`, an arbitrary function). hyper and reqwest are external
and modelled from their use; so is the backend, which reads HTTP and takes a
`Transfer-Encoding` for chunks that `write_request` does not send (`BackendReads`).
`ForwardFails` is a backend that cannot be reached or a request reqwest refuses to
send. Of a reply, reqwest refuses a head that does not end and a length that is no
number, and reads a body without a length to the end of the connection, as
`parse_response` does. `HyperRequests` leaves out requests that hyper would change
before the gateway sees them (chunks, repeated headers). A header value that is not visible ASCII (`Opaque`) is left out by
`to_onced_request`. Methods, versions and the case of header names are left out.
`Text` is what targets, values and bytes are made of, `NameOrder` the names of headers
as a `BTreeMap` sorts them. `Kept` is the loop of the serializers and of
`to_onced_request` that skips some headers. `TransportAssumption` says what clients and
backends send: a message whose first `Content-Length` parses has a body of that length,
a request without one has no body or is in chunks, and a reply is not in chunks, which
no transport but `onced-fast` decodes. The theorems hold for whatever else they send.

**Pow.** SHA-256 is ideal: the digest of a challenge and nonce is drawn when it is
first computed and never changes. HMAC is injective on its message, which is built as the
code builds it, identity, window and request hash one after the other; identities
and hashes are sequences so that one identity can begin with another. One
challenge is followed at a time; the server keeps none. The gateway does not call
`pow.rs`: callers are those its documentation describes.

**WalStore, RecordLog.** A log file is a sequence of whole, torn and corrupt frames with the
length of its synced prefix; `name` is the file the path names, `diskName` the
one it names after loss of power. The hash is injective: a chain value is the
sequence of records it covers. `syncEach` is chosen at every open. Four constants
set the environment: `PanicAborts` (a panic ends the process, as `wal.rs` intends and
`panic = "abort"` of the release profile, `src/Cargo.toml:24`, makes it; FALSE is a
build that unwinds, dev and test builds and applications that embed the crates under
a profile of their own, where `Router` recovers the poisoned lock), `DirSyncWorks`,
`FreshLog`, `CorruptTails`. An fsync that succeeds after one that failed is taken
to have synced everything. The refinement mapping takes the file the
path names up to a torn frame at its end and, while the process is up, the buffer, and
cuts them where the file is synced.

**ReplicatedStore.** A call and each of its steps are separate actions, so that
the process or a node may die in between. `compact` is given a set of states it
rejects, and every node applies it to the states it has itself (`Rejected`), as the
predicate of `prune_expired` is evaluated: nodes that differ after a put was cut short
may keep different keys. `owed` is what each node has to have of what was acknowledged.
The nodes are strict logs; `flush` does nothing on them and is left out.

**RateLimiter, Velocity, CountMin.** The estimate of the sliding window is
compared as a fraction where the code compares `f64`. A HyperLogLog has a rank in each
register. What `estimate()` makes of them, rounded up, is the constant `Estimated`,
assumed to lie where the arithmetic of `hll.rs` puts it for 1024 registers of which
n > 0 are occupied: above n (`1024*ln(1024/(1024-n))` in the small-range branch, which
is taken whenever n <= 44; more than 2560 in the other, or at least 1475.6 with no
register empty), and below n + 1 for n <= 44. From 45 registers on, which are estimated
at 46.02, it may be further off. The budget is any number. Hash functions are arbitrary:
`register`, `rank` and `column` are chosen at the start and never change. Which entry a
full table evicts is arbitrary.

## 3. The runs

| run | instance | result |
|---|---|---|
| `engine_strict` | 2 keys, 2 fingerprints, 3 attempts, strict log; callers whose workers die with the process, or the simulation | types; `StaleNeverCommits`: a token is accepted only for the lease its own begin recorded; `ImplementsExactlyOnce`; `NeverPanics`: no seed of the simulation fails an assertion |
| `engine_group` | 2 keys, 3 attempts, group commit, tokens outlive crashes; callers or the simulation | `IndexIsLogReplay`, `AckedOutcomeHonoured`, `InProgressFencesDistinct`, the inductive `EngineInv`; `NeverPanics`; `SimulationTracksEngine`: the oracle agrees with memory and log at every step, so that its assertions leave nothing out |
| `gateway_safety` | 3 requests, 1 key or none, 2 fingerprints, both lock modes, 1 and 2 shards | `ReplayFaithful`, `CountersBalance`; `ScrapeBracketed`: what a scrape returns lies between the sums when it began and when it ended; `AnswersAgree` and `SingleEffect` with the lock held, or while no request outlives its lease |
| `gateway_live` | 2 requests, both lock modes, 1 and 2 shards, restarts on logs and on empty memory, fairness | `BeginNeverAwaitsForward`: with the router no request waits for the forward of another; `EveryRequestAnswered` where forwards end; `KeyNotWedged` |
| `stores` | log: 2 keys, 3 puts, 3 files, both modes, a panic ends the process; replication: 3 nodes, 2 keys, 3 puts | `AckedRecoverable`, `NeverRefused`, `LogVerifies`; `ImplementsRecordLog`: whatever fails, only a suffix of what was not acknowledged is lost; `AckedOnEveryNode` |
| `edge` | one of: the limiter, 2 identities and room for 1, 2 rules, 5 requests; velocity, 2 actors and room for 1, 3 targets, 4 calls; 3 keys in a 2x2 sketch; proof of work, 2 clients, 2 requests, 2 windows and the turn to a third; a request and its retry through each transport | `BoundaryBurst`, `DeniesOnlyOverLimit`, `TrackedKeysBounded`; `DistinctFloodFlagged`, `RepeatsNeverFlagged`, `TrackedActorsBounded`; `NeverUnderestimates`; `SolvedAccepted`, `AcceptedAsBound`; `DispatchedAsSent`, `ExecutedAsDispatched`, `OutcomeWhole`, `ReplayAsServed` |

Why the bounds are enough. In `Engine`, three attempts on two keys give an
attempt that is taken over, a third that follows a crash, and a bystander key;
milliseconds 0..2 with a lease of 1 and a time-to-live of 2 put every lease and
every expiry below, at and above the reading that is compared with it, and
`U64Max = 2` makes both additions saturate. The simulation has an outcome for
each attempt; `CallerOutcomes` bounds the outcomes that other callers commit,
which may repeat. In `Gateway`, three requests are the first attempt, the one that
takes it over and the one that sees both; a lease of 2 on a clock 0..2 lets time
pass inside a lease and a lease run out. With two shards (`MCNext`) one request
without a key stays away, so that two meet on the key's shard while a scrape, which
is left out with one shard, reads that shard and the other. In `WalStore`, three
puts on two keys overwrite one key, and three files are two compactions. In
`ReplicatedStore`, three nodes are a primary, a node a call has reached and one it
has not, and three puts leave two nodes with different states of a key for a prune
to reject on one of them. In the limiter, five requests are more than twice the smaller limit within
two windows; in `Velocity`, three targets are one more than the budget, and one of them has the
higher of two ranks. In `Pow`,
windows of 2 ms on a clock 0..4 put a solution in the window it was asked in, the
next and the one after; the base of 250 makes the difficulty saturate for the
larger overage; one identity begins with the other. In `Transport`, requests have
the key before and behind the length, no key, no body, a key that is not ASCII, a
body over `max_body`, headers that reqwest sets itself and a target it rewrites, or a
`Transfer-Encoding`; replies are final or an error, with a length and without,
with a header repeated. Every unit of them can be the last to arrive, whole or cut.
Keys, fingerprints, requests and so on are only compared, so they are symmetric;
`gateway_live`, which has liveness properties, uses no symmetry.

Deadlock is checked everywhere but in the runs of `MCEdge`, where a behaviour
ends when its bounded number of calls is used up or its request is answered.

**Fairness** (`gateway_live`). Weak fairness of the begin phase of each request:
its thread or task is scheduled. Weak fairness of `Tick`: time passes. Nothing is
assumed of forwards: the client of `onced-fast` has a timeout for the whole request,
but `SOCKET_TIMEOUT` of `server.rs` is one per read, and `forward` of `onced-uring` has
none. `EveryRequestAnswered` therefore has as its hypothesis that forwards end
(`ForwardsEnd`); `BeginNeverAwaitsForward` and `KeyNotWedged` hold without it.
Arrivals, the backend's execution, the sweep, cancellation and crashes have no
fairness. `KeyNotWedged` speaks of leases that end within the modelled time.

### Disagreements between the code and what is said of it

Each of these runs checks one property that restates a comment or document, and
TLC finds a behaviour of the code that violates it.

| run | what happens | what is said |
|---|---|---|
| `engine_orphan` | Group commit, tokens outlive the crash. A begin is lost unflushed; after the restart the same fence is minted for the same key, and the orphaned token completes the other attempt's lease. | "a stale token never commits" (`onced-sim/src/lib.rs:26`) |
| `gateway_overrun` | A run that was taken over is refused by `complete()`, and its own response is served and counted as created. | "the takeover's result is the one served" (`gateway.rs:274`) |
| `wal_poison` | In a build that unwinds, a flush panics, the router recovers the poisoned lock, the next put writes the buffer again behind what was left; acknowledged puts are lost at the next open. Binaries of the release profile abort instead (`src/Cargo.toml:24`), and what `stores` shows applies to them: fail-stop is a promise of the profile, not of the log. | "Fail-stop" (`wal.rs:403`) |
| `repl_failover` | A put cut short after the primary is served after the restart and gone once a replica is promoted. | "promote any replica, which holds the identical durable log" (`replication.rs:22`) |
| `shard_recount` | A restart with another number of shards routes a completed key to a shard whose log does not have it: the backend runs it again. | "requests for the same key always hit the same shard, so exactly-once holds" (`onced-gateway/src/main.rs:6`) |
| `uring_partial` | A request whose first read ends before the blank line is dispatched with the headers that came, and without its body, or its key. | "Accumulate bytes until a full HTTP request parses." (`onced-uring/src/main.rs:132`) |

Observed while modelling, without a run of their own; the first three are
reproduced by the named setting of `WalStore`'s constants in `stores.cfg`:

* `CorruptTails = TRUE`: power lost while a frame's length but not all of its
  bytes reached the disk makes `open_with` refuse the log (`NeverRefused`);
  `wal.rs:281` says a corrupt tail is truncated.
* `DirSyncWorks = FALSE`: the ignored failure of a directory fsync loses later
  acknowledged puts with the rename (`AckedRecoverable`); `wal.rs:251` says the
  data is durable regardless.
* `FreshLog = TRUE`: nothing syncs the directory of a log that was just created,
  so power loss may take it (`AckedRecoverable`); `wal.rs:248` has first creation
  in mind.
* `open_with` serves records from the page cache that no fsync has covered; loss of
  power may take them until something behind them is acknowledged.
* The fence counter is seeded from in-progress keys only, so a fence that a
  surviving worker still holds is minted again (`engine.rs:78` says it is not).
  `StaleNeverCommits` and `Fencing` are about workers that die with the process. For a
  worker that outlives it, a stale token can commit on a strict log too: A holds fence
  1; B takes the key over and completes it; a crash reseeds the counter to 1; when the
  time-to-live has elapsed C recycles the key with fence 1, and A's token completes C's
  lease. (In the simulation, whose campaigns are shorter than the time-to-live, this
  does not happen; `engine_orphan` shows the same with a begin lost in group commit.)
* A backend that sends a byte within every `SOCKET_TIMEOUT` holds a forward of
  `server.rs` for ever, and with it the lock of a `Mutex<Gateway>`; one that is silent
  holds a forward of `onced-uring` for ever.
* After a put was cut short at the primary, a prune that finds the completion expired
  there drops it from the primary and keeps the lease on the replicas, which do not
  have the completion: the nodes differ until the key is put again.
* An identity evicted from a full limiter gets its limit again in the same window
  (`abuse.rs:92` says the eviction costs nothing); `BoundaryBurst` is stated from
  the request that last made the limiter track the identity.
* `abuse.rs:18` wants a monotonic clock from the gateway. `now_ms` (`server.rs:29`) is
  the wall clock, read before the limiter's lock is taken, so readings may go back
  from one `check` to the next. `BoundaryBurst`, `DeniesOnlyOverLimit` and
  `DistinctFloodFlagged` are stated for readings that do not. Without that the first is false: with a window of 2 and a
  limit of 2, readings 0, 0, 4, 0, 8, 0 let four requests of one instant through,
  because each step into a later window forgets the counts of the earlier one.
* The call that touches exactly `max_distinct` targets is denied; `velocity.rs:33`
  says "more than `max_distinct`". Beyond a budget of 45 a call may be denied with
  fewer than `max_distinct` targets: 45 of them are estimated at 46.02, which is over a
  budget of 46. `RepeatsNeverFlagged` makes that exception.
* Of a header the backend repeats, the cached outcome keeps the last value only, and
  the order of headers is lost (`gateway.rs:375`), where `README.md:20` calls the
  replay byte-identical; `ReplayAsServed` is stated for replies that repeat none.
* A reply cut short before its blank line is taken for whole and cached
  (`http.rs:174`), although the missing blank line tells; a status line cut from 500 to
  50 is then a final answer. So is a reply without a `Content-Length`, where nothing
  tells; reqwest takes that one too. `gateway.rs:262` means not to cache a failed call.
  `OutcomeWhole` is stated for the rest.
* `write_request` passes a `Transfer-Encoding` on next to the length it sets
  (`http.rs:144`), with a body that is not in chunks, and `parse_request` and
  `parse_response` do not decode one; `http.rs:4` calls chunks out of scope, but nothing
  rejects them. `DispatchedAsSent` and `ExecutedAsDispatched` leave such requests out.
* Through `onced-fast` the backend gets another `Host`, a target normalized by the URL
  parser, and an `Accept` the client did not send; `ExecutedAsDispatched` says so.
* `onced-fast` drops a header that is not visible ASCII (`lib.rs:206`): with such an
  `Idempotency-Key` the request is forwarded as one without a key.
* `onced-uring` keeps its keys in memory and forgets them at a restart;
  `onced-uring/src/main.rs:10` calls its correctness identical to that of the other transports.
* The fingerprint key that `main.rs:51` calls "different across restarts" is a hash
  of the log's prefix, and so the same after a restart.
* `verify` accepts the preceding window as well, so a solution passes in two windows;
  `pow.rs:28` says it is not replayable across windows.

## 4. The proofs

Nothing below bounds the keys, requests, shards, nodes, files, attempts or
milliseconds except through the constants, which are arbitrary. Where a theorem
needs a condition on the constants that the modules do not assume, it names it as
a hypothesis.

| module | theorem | states | under |
|---|---|---|---|
| `EngineProofs` | `StoreInvariant` | `TypeOK /\ EngineInv` | |
| | `TypeCorrect`, `IndexNeverDrifts`, `DurableCompletion`, `FencesDistinct` | `TypeOK`, `IndexIsLogReplay`, `AckedOutcomeHonoured`, `InProgressFencesDistinct` | |
| | `Fencing` | `StaleNeverCommits` | workers die with the process |
| | `StrictRefinement` | `ImplementsExactlyOnce` | and the log is strict |
| `SimulationProofs` | `NoSeedPanics`, `OracleFollows` | `NeverPanics`, `SimulationTracksEngine` | |
| `GatewayProofs` | `TypeCorrect`, `CountersStayBalanced` | `TypeOK`, `CountersBalance` | |
| | `ScrapesAreBracketed` | `ScrapeBracketed` | |
| | `ReplaysAreFaithful` | `ReplayFaithful` | no restart changes the number of shards |
| | `ClientsAgree`, `EffectIsSingle` | `AnswersAgree`, `SingleEffect` | restarts on logs and the same shards, `LeaseMs > 0` |
| `StoreProofs` | `WalTypeCorrect` | `TypeOK` | |
| | `LogAccepted`, `ChainUnbroken`, `AckedFoundAgain` | `NeverRefused`, `LogVerifies`, `AckedRecoverable` | `Durable` |
| | `LogRefinement` | `ImplementsRecordLog` | `Durable` |
| | `ReplTypeCorrect`, `EveryNodeHasAcked` | `ReplTypeOK`, `AckedOnEveryNode` | |
| `EdgeProofs` | `LimiterTyped`, `LimiterMemoryBounded`, `NoDoubleBurst`, `NoUnjustDenial` | `TypeOK`, `TrackedKeysBounded`, `BoundaryBurst`, `DeniesOnlyOverLimit` | |
| | `VelocityMemoryBounded`, `FloodsAreDenied`, `RepeatsAreAllowed` | `TrackedActorsBounded`, `DistinctFloodFlagged`, `RepeatsNeverFlagged` | |
| | `SketchInvariant`, `OneSidedError`, `ExactEstimate` | `CellsCoverTotals`, `NeverUnderestimates`, `ExactWhereAlone` | |
| | `SolutionsPass`, `SolutionsAreBound` | `SolvedAccepted`, `AcceptedAsBound` | |
| `TransportProofs` | `SentIsDispatched`, `DispatchedIsExecuted`, `OutcomesAreWhole`, `ReplaysAsServed` | `DispatchedAsSent`, `ExecutedAsDispatched`, `OutcomeWhole`, `ReplayAsServed` | |

The conditions are those under which the runs check the same properties. The code
meets `LeaseMs > 0` (`LEASE_MS` is 30_000, and 1_000 in the simulation). Without the
others the statements are false, and a run shows it: `engine_orphan` for `Fencing` in
group commit, `shard_recount` for `AnswersAgree`, `wal_poison` for `Durable`.

**Engine.** `AckedOutcomeHonoured` is not inductive: a crash replaces the index by
the replay of the file and some prefix of the buffer, so one has to know what each of
those prefixes holds. `EngineInv` therefore says (1) the index is the replay of file
and buffer; (2) a strict store buffers nothing; (3) fences in the index, in the
replay of the file and in the buffer are below the counter; (4) while an
acknowledged completion is in force, index and file hold it and no buffered record
is of its key. (4) is preserved because a record of the key can only be put after
`begin` found the completion expired, and `clock` is at least the reading that
`begin` was given; (3) because the counter is reseeded above what the recovered
log holds. The lemmas on `Replay` (of an appended record, of a concatenation, of a
compacted log) carry the argument; `PutKeepsInv` and `ReopenEstablishesInv` are
shared by the actions. `Fencing` adds `TokensMatchLeases`, and `StrictRefinement`
adds `AttemptsGivenOut`, which makes every granted attempt newer than the holder
and committer before it. `FencesDistinct` has to say the same of every prefix of
the buffer behind the file, since any of them may become the index.

**Simulation.** The steps are `Engine`'s, so `EngineInv` carries over. `SimInv` adds what
relates the oracle to memory and log: `OracleTracksEngine`; a completion on file is the
current one (`DurableIsCurrent`), so that a crash, after which the oracle keeps only
what was durable, leaves the two in agreement; and, for the assertions on a strict log,
that the key of a worker is still there with the worker's variant (`WorkersMatchKeys`)
and that each completed key was completed once (`CompletedOnce`).

**Gateway.** The invariants come in layers. `ShapeOK` is `TypeOK` without the bounds on
counters, and `Counted` relates each shard's counters to the requests it has in hand,
from which the bounds follow. `ReplayInv` follows an answer from the run that produced
it to the client that gets it: keys are only on the shard their hash names, two
requests between the phases on a shard have different tokens, a lease in the index
belongs to the request that holds its token, no request is of a later life than its
key, and what is stored is the answer of a run of that life. `LockInv` (with the lock
held one request is between the phases; and until some request is late, none in hand is
past its lease) excludes the takeover of a run that goes on. `AgreementInv`
adds that a request between the phases holds the lease of its key, that a final answer
once given stays in the index for the rest of the life, and that one attempt of a life
reached the backend. The actions that admit no request with a key, give no final answer
and store nothing are treated at once: they may drop entries, but each with the life of
its key (`Forgets`), and without a change of store only completions (`Keeps`). For the
scrape, `ScrapeFollows` says of the shards read so far that the sum of what they had
counted when the scrape began is at most what it has added up, and that at most the sum
of what they have counted since; a shard that is not in use counts nothing
(`ShardsInUse`). The sum over the shards is related to the sum over the first n of them,
a recursive function of n, whose properties follow from the smallest n that lacks them.

**WalStore.** `LogVerifies` says nothing of a process that is down, and
`AckedRecoverable` nothing of what is on disk. `WalInv` says that the file the path
names is `Recoverable`: what `open_with` replays of it is all of it but for one torn
frame, is ordered by put for each key, contains the synced part, and the synced part
alone replays to everything that was acknowledged. While the store is open, file and
buffer are one verified log, ordered by put. The order is what makes a longer prefix
replay to newer puts (`ReplayGrows`), so that loss of power, which keeps some prefix
behind the synced part, keeps every acknowledgement; `CutRecoverable` is that argument,
shared by failed flushes and loss of power; `CompactedProperty` says the compacted log
has each live key once and replays to the index. `LogRefinement` follows each action
through the refinement mapping: `Viewed` says that the mapped log is what is under the
chain and the index while the store is open, otherwise what `open_with` will replay, and
that a cut of the file is a cut of it. A put is then `Write`, `Acknowledge` or `Fail`, a
flush one of the last two, a restart `Fail`, a compaction `Compact` from its rename
on, and `FailToCompact` before. `Durable` is `PanicAborts`, `DirSyncWorks`,
not `FreshLog` and not `CorruptTails`; section 3 says what happens without each.

**ReplicatedStore.** `ReplInv` adds to `AckedOnEveryNode` that the list names each node
once, that no node is ahead of the last put, and that the nodes a put has passed have
it. A prune releases a node from a put only by finding a state of the key there that it
rejects, at the moment it drops that state (`owed`); a node it has not reached, or whose
state it keeps, still owes it.

**RateLimiter.** `BoundaryBurst` counts requests of the history, the code only two
counters. `CountersFollow` ties them: the counter of a tracked identity is in the window
of its last reading and counts its requests of that window and of the one before, since
it is tracked, if its readings are in order. `AllowedWithin` keeps of each allowed
request that the weighted estimate was within the limit when it was made. A trailing
window that reaches over a boundary then holds at most `limit` requests of the current
window and, by the weight, so few of the previous one that both stay below `2 * limit`.
`DeniesOnlyOverLimit` follows from `CountersFollow` alone: what weighed
against the caller were requests of its own in those two windows.

**Velocity.** `SketchesFollow` says that the registers of a tracked actor are some that
its calls in the current window hit, and where the readings are in order all of those
it hit since it is tracked; ranks only grow, so a register once occupied stays so in
its window (`ObservedProperty`). One target occupies one register, so that registers
bound targets from below whatever the hash, and the estimate is above the registers
always and next to them up to 44.

**CountMin.** Each counter covers the count of every key that hashes to it, and is
exact for a key alone in it.

**Pow.** `IssuedHolds` says of the challenge in hand how it was derived, `DigestsHold`
that digests belong to challenges that were derived for some client, request and window,
`VerifiedHolds` that the last verdict is the one its digests give; digests never change.
What is authenticated is a concatenation, and it is injective because windows (eight
bytes, one element in the model) and hashes have one length (`ChallengeInjective`),
although one identity may begin with another.

**Http, Transport.** The lemmas say what is read of a wire that was cut anywhere
(`PartHead`: the first of its headers, with the last one perhaps shorter; from the blank
line on, `BodyRead`: the message or an error), and what is read of what the gateway wrote
(`RequestReframed`, for the headers of `write_request` and of reqwest alike, and
`ResponseWritten`: the length it wrote comes first or is the only one).
`Kept` is a recursive function; its properties are proved by a smallest sequence without
them (`SequencesByAppending`). `OutcomeReturned` takes a message through the map and back.
`TransportInvariant` then says in which stage each variable is set and from what:
the cached outcome is that of the reply as received, and what was served and replayed are
its deliveries. `OutcomeWhole` and `ReplayAsServed` are not inductive without that, since
they do not say where `outcome` and `served` come from.

The modules' own assumptions are used as they stand: `DurationsAssumption` (lease and
time-to-live fit a `u64`), `EngineAssumption` (finitely many keys, `NoOutcome` is no
outcome), `GatewayAssumption`, `WalAssumption`, `ReplicationAssumption`,
`SimulationAssumption`, `SketchAssumption`, `LimiterAssumption` (windows and tables are
not empty), `VelocityAssumption` (and where the estimate of a HyperLogLog lies, see
section 2), `PowAssumption` (identities and hashes are sequences
of bytes, hashes of one length), `HttpAssumption` (the values the gateway writes are
text; no number is `Cut` or `Missing`), `TransportAssumption`.

Only model-checked: the liveness properties `BeginNeverAwaitsForward`,
`EveryRequestAnswered` and `KeyNotWedged`, since the prover does not handle fairness and `ENABLED`. Every invariant, action property
and refinement that a passing run checks is also proved. No module uses a `RECURSIVE`
operator. The library's induction theorems take an operator, which no installed prover can
instantiate; where an induction is needed, a set of counterexamples and its smallest
element stand in for it (`ExtremaLemmas`).

## 5. Not modelled

* Bytes: the record format and its checksum, the characters of a header or a target,
  methods and versions. The chunks behind a `Transfer-Encoding`, which `http.rs` does
  not read; that the header is passed on is modelled.
* SHA-256, HMAC and the hash of the chain are ideal; the canonical encoding behind
  a fingerprint is taken to be injective.
* The accuracy of HyperLogLog for large cardinalities.
* `/healthz` and the text of `/metrics`.
* The runtimes: thread pools, the accept loops, tokio, hyper, reqwest, io_uring.
* The benchmark and the fuzz targets, which drive modelled code.

## 6. Plan

Done, in this order: `KeyStates`, `Engine`, `ExactlyOnce` and the refinement,
`EngineProofs`, `Gateway`, `WalStore`, `ReplicatedStore`, `RateLimiter`,
`Velocity`, `CountMin` and its proofs; then shards, routing and the scrape in
`Gateway`, `Simulation`, `Http`, `Transport`, `Pow`, and `RecordLog` with the
refinement by `WalStore`.

Then the proofs: of `ReplicatedStore`, `SimulationProofs`, `GatewayProofs`, of
`WalStore` with the refinement of `RecordLog`, the fences in `EngineProofs`; the limiters
and proof of work in `EdgeProofs`, the scrape in `GatewayProofs`, `TransportProofs`.

Next: a proof that `Gateway` on a strict `Engine` implements `ExactlyOnce`, which would
compose what is now proved of each.

## 7. Running

    tlc -workers 2 -config engine_strict.cfg MCEngine
    tlapm EngineProofs.tla

Operators introduced by "Mutant of X" are variants of X with a plausible mistake.
No specification uses them: put in the place of X, each makes TLC report the
property that `PROJECT.json` pairs it with.
