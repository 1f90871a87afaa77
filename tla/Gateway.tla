------------------------------- MODULE Gateway -------------------------------
(***************************************************************************)
(* The gateway under concurrent requests (onced-gateway gateway.rs,        *)
(* router.rs and server.rs, and the async driver of onced-fast and         *)
(* onced-uring): each request reads the clock, passes the abuse stage, is  *)
(* routed to a shard, runs begin_phase under that shard's lock, forwards   *)
(* to the backend, runs complete_phase under the lock and is answered.     *)
(* The Router drops the lock while it forwards; a Mutex<Gateway>, which is *)
(* a single shard, holds it (holdLock).  /metrics reads one shard after    *)
(* the other.                                                              *)
(*                                                                         *)
(* The engine of a shard is on a strict log, so its index survives a crash *)
(* as it is (Engine proves it: EngineInv with SyncEach), or on a           *)
(* MemoryStore; begin and complete are the decisions of KeyStates.  A      *)
(* response is named by the request whose forward produced it, so Outcomes *)
(* is the set Requests.                                                    *)
(***************************************************************************)
EXTENDS KeyStates, FiniteSetsExt

CONSTANTS
    Requests,   \* the requests clients send
    NoKey,      \* the key of a request without the Idempotency-Key header
    ShardCounts,\* the numbers of shards a router may be started with
    Hashes,     \* the hashes of keys
    Restarts,   \* what a restart may find: the "same" shards on their logs,
                \* empty "memory" stores, or a "recount" of the shards
    MaxClock    \* bound: the last reading of the clock

ASSUME GatewayAssumption ==
    /\ Outcomes = Requests
    /\ IsFiniteSet(Requests)
    /\ NoKey \notin Keys
    /\ ShardCounts \subseteq Nat \ {0}
    /\ IsFiniteSet(ShardCounts)
    /\ 1 \in ShardCounts
    /\ Hashes \subseteq Nat
    /\ Restarts \subseteq {"same", "memory", "recount"}
    /\ MaxClock \in Nat
    /\ MaxClock + LeaseMs <= U64Max

\* Every shard there may be.
Shards == 0..(Max(ShardCounts) - 1)

VARIABLES
    index,      \* for every shard, its engine's state of every key
    nextFence,  \* for every shard, Engine.next_fence
    metrics,    \* for every shard, its Metrics
    holdLock,   \* Mutex<Gateway>: one shard, locked across the forward
    restart,    \* which of Restarts this deployment is
    shardCount, \* shards.len()
    hash,       \* the hash of every key; never changes
    nextShard,  \* Router.next_shard, modulo the number of shards
    denied,     \* Router.denied
    scrape,     \* aggregate_metrics: the shards it has read and the total
    clock,      \* the wall clock
    pc,         \* where each request is
    req,        \* its key, its fingerprint and the now_ms it was given
    home,       \* route_shard: the shard it was sent to
    token,      \* the ForwardTicket: the fence of its RunToken, or 0
    forwarded,  \* what the forward returned
    answer,     \* how it is answered, and with whose response
    backend,    \* whether the backend was sent it, and executed it
    \* History, read by no action:
    life,       \* how often each key was recycled after a completion
    lifeOf,     \* the life of its key a request was admitted to
    overrun     \* a request was not through within LeaseMs of its arrival

engineVars == <<index, nextFence, life>>
routerVars == <<holdLock, restart, shardCount, hash, denied, scrape>>
requestVars == <<pc, req, home, token, forwarded, answer, backend, lifeOf>>
vars == <<engineVars, metrics, routerVars, nextShard, clock, overrun, requestVars>>

Counters == {"requests_total", "created", "replayed", "in_progress",
             "mismatch", "upstream_error", "passthrough"}

\* The requests counted under an outcome.
OutcomeSum(m) ==
    m["created"] + m["replayed"] + m["in_progress"] + m["mismatch"]
        + m["upstream_error"] + m["passthrough"]

\* No fingerprint is computed for a request without a key.
Arrivals(times) ==
    [key: Keys, fp: Fingerprints, at: times]
        \union [key: {NoKey}, fp: {NoKey}, at: times]

Results == {"ok", "5xx", "err"}

NoAnswer == [status |-> "none"]

Answers ==
    [status: {"in_progress", "mismatch", "denied", "upstream_error"}]
        \union [status: {"created", "replayed", "passthrough", "5xx"},
                from: Requests]
        \union {NoAnswer}

TypeOK ==
    /\ index \in [Shards -> [Keys -> KeyState \union {Absent}]]
    /\ nextFence \in [Shards -> Nat \ {0}]
    /\ metrics \in [Shards -> [Counters -> 0..Cardinality(Requests)]]
    /\ holdLock \in BOOLEAN
    /\ restart \in Restarts
    /\ shardCount \in ShardCounts
    /\ hash \in [Keys -> Hashes]
    /\ nextShard \in Shards
    /\ denied \in 0..Cardinality(Requests)
    /\ scrape \in [read: 0..(Max(ShardCounts) + 1),
                   total: [Counters -> Nat], denied: Nat,
                   before: [Shards -> [Counters -> Nat]]]
    /\ clock \in 0..MaxClock
    /\ pc \in [Requests -> {"idle", "arrived", "forwarding", "answered",
                            "cancelled", "lost"}]
    /\ req \in [Requests -> Arrivals(0..MaxClock)]
    /\ home \in [Requests -> Shards]
    /\ token \in [Requests -> Nat]
    /\ forwarded \in [Requests -> Results \union {"none"}]
    /\ answer \in [Requests -> Answers]
    /\ backend \in [Requests -> {"none", "sent", "ran"}]
    /\ life \in [Keys -> Nat]
    /\ lifeOf \in [Requests -> Nat]
    /\ overrun \in BOOLEAN

-----------------------------------------------------------------------------
\* A Mutex<Gateway> is a single shard.
MayCount(n) == holdLock => n = 1

NoCounts == [s \in Shards |-> [c \in Counters |-> 0]]

NoScrape == [read   |-> 0,
             total  |-> [c \in Counters |-> 0],
             denied |-> 0,
             before |-> NoCounts]

Init ==
    /\ index = [s \in Shards |-> [k \in Keys |-> Absent]]
    /\ nextFence = [s \in Shards |-> 1]
    /\ metrics = NoCounts
    /\ holdLock \in BOOLEAN
    /\ restart \in Restarts
    /\ shardCount \in {n \in ShardCounts : MayCount(n)}
    /\ hash \in [Keys -> Hashes]
    /\ nextShard = 0
    /\ denied = 0
    /\ scrape = NoScrape
    /\ clock = 0
    /\ pc = [r \in Requests |-> "idle"]
    /\ req \in [Requests -> Arrivals({0})]
    /\ home = [r \in Requests |-> 0]
    /\ token = [r \in Requests |-> 0]
    /\ forwarded = [r \in Requests |-> "none"]
    /\ answer = [r \in Requests |-> NoAnswer]
    /\ backend = [r \in Requests |-> "none"]
    /\ life = [k \in Keys |-> 0]
    /\ lifeOf = [r \in Requests |-> 0]
    /\ overrun = FALSE

\* The counters cs of shard s are incremented.
Count(s, cs) ==
    metrics' = [metrics EXCEPT ![s] =
                    [c \in Counters |-> IF c \in cs THEN @[c] + 1 ELSE @[c]]]

\* Mutant of LockFree: a failed forward leaves the lock behind.
LockLeaked ==
    holdLock => \A q \in Requests : pc[q] # "forwarding" /\ forwarded[q] # "err"

\* Mutant of LockFree: the Router too is locked across the forward.
LockKept == \A q \in Requests : pc[q] # "forwarding"

\* A Mutex<Gateway> is locked from begin_phase to complete_phase.
LockFree == holdLock => \A q \in Requests : pc[q] # "forwarding"

-----------------------------------------------------------------------------
\* The transport has parsed the request and reads the clock.  What it read is
\* the now_ms of both phases.
Arrive(r) ==
    /\ pc[r] = "idle"
    /\ pc' = [pc EXCEPT ![r] = "arrived"]
    /\ req' = [req EXCEPT ![r].at = clock]
    /\ UNCHANGED <<engineVars, metrics, routerVars, nextShard, clock, overrun,
                   home, token, forwarded, answer, backend, lifeOf>>

\* The abuse stage denies the request.  Its verdict is left open here.
Deny(r) ==
    /\ pc[r] = "arrived"
    /\ LockFree
    /\ denied' = denied + 1
    /\ answer' = [answer EXCEPT ![r] = [status |-> "denied"]]
    /\ pc' = [pc EXCEPT ![r] = "answered"]
    /\ UNCHANGED <<engineVars, metrics, holdLock, restart, shardCount, hash, scrape,
                   nextShard, clock, overrun, req, home, token, forwarded,
                   backend, lifeOf>>

\* route_shard, and begin_phase of a request without a key: forward it, with
\* no token, on behalf of the shard the cursor points at.
BeginKeyless(r) ==
    /\ pc[r] = "arrived"
    /\ LockFree
    /\ req[r].key = NoKey
    /\ home' = [home EXCEPT ![r] = nextShard]
    /\ nextShard' = (nextShard + 1) % shardCount
    /\ Count(nextShard, {"requests_total"})
    /\ pc' = [pc EXCEPT ![r] = "forwarding"]
    /\ backend' = [backend EXCEPT ![r] = "sent"]
    /\ UNCHANGED <<engineVars, routerVars, clock, overrun, req, token, forwarded,
                   answer, lifeOf>>

\* The shard a request with a key is routed to.
RouteShard(r) == hash[req[r].key] % shardCount

\* begin_phase when Engine::begin answers Run.
BeginRun(r) ==
    LET k == req[r].key
        s == RouteShard(r)
    IN  /\ pc[r] = "arrived"
        /\ LockFree
        /\ k # NoKey
        /\ BeginDecision(index[s][k], req[r].fp, req[r].at) = "Start"
        /\ index' = [index EXCEPT ![s][k] =
                        StartState(nextFence[s], req[r].fp, req[r].at, 0)]
        /\ nextFence' = [nextFence EXCEPT ![s] = @ + 1]
        /\ home' = [home EXCEPT ![r] = s]
        /\ token' = [token EXCEPT ![r] = nextFence[s]]
        /\ life' = IF index[s][k].tag = "Completed"
                   THEN [life EXCEPT ![k] = @ + 1] ELSE life
        /\ lifeOf' = [lifeOf EXCEPT ![r] = life'[k]]
        /\ Count(s, {"requests_total"})
        /\ pc' = [pc EXCEPT ![r] = "forwarding"]
        /\ backend' = [backend EXCEPT ![r] = "sent"]
        /\ UNCHANGED <<routerVars, nextShard, clock, overrun, req, forwarded, answer>>

\* begin_phase when Engine::begin answers Replay, InProgress or Mismatch: the
\* response is known, and the backend is not called.
BeginDone(r) ==
    LET k == req[r].key
        s == RouteShard(r)
        decision == BeginDecision(index[s][k], req[r].fp, req[r].at)
        done == CASE decision = "Replay" ->
                        [status |-> "replayed", from |-> index[s][k].outcome]
                  [] decision = "InProgress" -> [status |-> "in_progress"]
                  [] decision = "Mismatch" -> [status |-> "mismatch"]
    IN  /\ pc[r] = "arrived"
        /\ LockFree
        /\ k # NoKey
        /\ decision # "Start"
        /\ home' = [home EXCEPT ![r] = s]
        /\ Count(s, {"requests_total", done.status})
        /\ answer' = [answer EXCEPT ![r] = done]
        /\ lifeOf' = [lifeOf EXCEPT ![r] = life[k]]
        /\ pc' = [pc EXCEPT ![r] = "answered"]
        /\ UNCHANGED <<engineVars, routerVars, nextShard, clock, overrun, req,
                       token, forwarded, backend>>

\* The backend executes a request it was sent, whether or not the gateway
\* still waits for it.
BackendRuns(r) ==
    /\ backend[r] = "sent"
    /\ backend' = [backend EXCEPT ![r] = "ran"]
    /\ UNCHANGED <<engineVars, metrics, routerVars, nextShard, clock, overrun, pc,
                   req, home, token, forwarded, answer, lifeOf>>

\* What the forward can return: the final answer of a backend that ran the
\* request, a server error, or an I/O error (connect, timeout or parse).
MayReturn(r, result) == result = "ok" => backend[r] = "ran"

\* Mutant of Commits: a server error is cached too.
CommitsServerErrors(r, result) ==
    /\ req[r].key # NoKey
    /\ result # "err"
    /\ CompleteDecision(index[home[r]][req[r].key], token[r]) = "Ok"

\* Mutant of Commits: nothing is cached.
CommitsNothing(r, result) == FALSE

\* Whether complete_phase commits the response: only a final answer to an
\* idempotent request goes to Engine::complete, which may refuse it.
Commits(r, result) ==
    /\ req[r].key # NoKey
    /\ result = "ok"
    /\ CompleteDecision(index[home[r]][req[r].key], token[r]) = "Ok"

\* Mutant of OutcomeCounter: a server error is served and not counted.
UncountedServerError(r, result) ==
    CASE result = "err" -> "upstream_error"
      [] req[r].key = NoKey /\ result # "err" -> "passthrough"
      [] req[r].key # NoKey /\ result = "5xx" -> "none"
      [] req[r].key # NoKey /\ result = "ok" -> "created"

\* The counter complete_phase increments, whatever Engine::complete answered.
OutcomeCounter(r, result) ==
    CASE result = "err" -> "upstream_error"
      [] req[r].key = NoKey /\ result # "err" -> "passthrough"
      [] req[r].key # NoKey /\ result = "5xx" -> "upstream_error"
      [] req[r].key # NoKey /\ result = "ok" -> "created"

\* The response complete_phase serves: the one of its own forward.
Served(r, result) ==
    CASE result = "err" -> [status |-> "upstream_error"]
      [] result = "5xx" -> [status |-> "5xx", from |-> r]
      [] result = "ok" -> [status |-> OutcomeCounter(r, result), from |-> r]

\* Mutant of CompleteShard: the second phase asks the cursor again.
CompleteShardAnew(r) == IF req[r].key = NoKey THEN nextShard ELSE home[r]

\* complete_on runs on the shard begin_on ran on.
CompleteShard(r) == home[r]

\* The forward returns and complete_phase runs.  The refusal of
\* Engine::complete is ignored; a server error or a failed forward leaves the
\* key in progress.
CompletePhase(r, result) ==
    LET k == req[r].key
        s == CompleteShard(r)
    IN  /\ pc[r] = "forwarding"
        /\ MayReturn(r, result)
        /\ forwarded' = [forwarded EXCEPT ![r] = result]
        /\ index' = IF Commits(r, result)
                    THEN [index EXCEPT ![s][k] =
                            Completed(@.fingerprint, r, req[r].at)]
                    ELSE index
        /\ Count(s, {OutcomeCounter(r, result)})
        /\ answer' = [answer EXCEPT ![r] = Served(r, result)]
        /\ token' = [token EXCEPT ![r] = 0]
        /\ pc' = [pc EXCEPT ![r] = "answered"]
        /\ UNCHANGED <<nextFence, life, routerVars, nextShard, clock, overrun, req,
                       home, backend, lifeOf>>

\* The client of the async driver goes away: the future is dropped at its only
\* await, and complete_phase never runs.
Cancel(r) ==
    /\ ~holdLock
    /\ pc[r] = "forwarding"
    /\ pc' = [pc EXCEPT ![r] = "cancelled"]
    /\ token' = [token EXCEPT ![r] = 0]
    /\ UNCHANGED <<engineVars, metrics, routerVars, nextShard, clock, overrun, req,
                   home, forwarded, answer, backend, lifeOf>>

-----------------------------------------------------------------------------
\* Metrics::merge: counter by counter.
Merge(a, b) == [c \in Counters |-> a[c] + b[c]]

\* aggregate_metrics, for a request for /metrics: one shard is locked, its
\* counters are merged into the total, and it is unlocked before the next.  The
\* field before is history: every shard's counters when the first was locked.
ScrapeShard ==
    LET s == scrape.read
    IN  /\ LockFree
        /\ s < shardCount
        /\ scrape' = [scrape EXCEPT
                !.read = s + 1,
                !.total = Merge(@, metrics[s]),
                !.before = IF s = 0 THEN metrics ELSE @]
        /\ UNCHANGED <<engineVars, metrics, holdLock, restart, shardCount, hash, denied,
                       nextShard, clock, overrun, requestVars>>

\* The router's own counter is read last, and the total is rendered.
ScrapeDenied ==
    /\ scrape.read = shardCount
    /\ scrape' = [scrape EXCEPT !.read = shardCount + 1, !.denied = denied]
    /\ UNCHANGED <<engineVars, metrics, holdLock, restart, shardCount, hash, denied,
                   nextShard, clock, overrun, requestVars>>

\* The background sweep of one shard, with the reading of the clock it took
\* before it waited for the lock.
PruneExpired(s, now) ==
    LET dropped == {k \in Keys : ~PruneKeeps(index[s][k], now)}
    IN  /\ now <= clock
        /\ LockFree
        /\ index' = [index EXCEPT ![s] =
                        [k \in Keys |-> IF k \in dropped THEN Absent ELSE @[k]]]
        /\ life' = [k \in Keys |-> IF k \in dropped THEN life[k] + 1 ELSE life[k]]
        /\ UNCHANGED <<nextFence, metrics, routerVars, nextShard, clock, overrun,
                       requestVars>>

-----------------------------------------------------------------------------
\* What the engine of shard s finds in its store after a restart.
RecoveredIndex(s) ==
    IF restart = "memory" THEN [k \in Keys |-> Absent] ELSE index[s]

\* Mutant of RecoveredFence: the counter is seeded with the largest fence.
RecoveredFenceOffByOne(ix) ==
    LET fences == {ix[k].fence : k \in {j \in Keys : ix[j].tag = "InProgress"}}
    IN  Max(fences \union {0})

\* The fence counter of an engine built on the index ix.
RecoveredFence(ix) ==
    LET fences == {ix[k].fence : k \in {j \in Keys : ix[j].tag = "InProgress"}}
    IN  1 + Max(fences \union {0})

\* The process dies and restarts: requests in hand are lost, the counters
\* restart at zero, and the engines are rebuilt on what their stores hold.
\* Another number of shards maps the keys to other shards.
Crash ==
    /\ index' = [s \in Shards |-> RecoveredIndex(s)]
    /\ nextFence' = [s \in Shards |-> RecoveredFence(index'[s])]
    /\ shardCount' \in (IF restart = "recount" THEN {n \in ShardCounts : MayCount(n)}
                        ELSE {shardCount})
    /\ metrics' = NoCounts
    /\ denied' = 0
    /\ scrape' = NoScrape
    /\ nextShard' = 0
    /\ pc' = [r \in Requests |->
                IF pc[r] \in {"idle", "answered"} THEN pc[r] ELSE "lost"]
    /\ token' = [r \in Requests |-> 0]
    /\ UNCHANGED <<life, holdLock, restart, hash, clock, overrun, req, home, forwarded,
                   answer, backend, lifeOf>>

Tick ==
    /\ clock < MaxClock
    /\ clock' = clock + 1
    /\ overrun' = (overrun \/ \E r \in Requests :
                                /\ pc[r] \in {"arrived", "forwarding"}
                                /\ clock' >= req[r].at + LeaseMs)
    /\ UNCHANGED <<engineVars, metrics, routerVars, nextShard, requestVars>>

Next ==
    \/ \E r \in Requests :
        \/ Arrive(r) \/ Deny(r) \/ BeginKeyless(r) \/ BeginRun(r)
        \/ BeginDone(r) \/ BackendRuns(r) \/ Cancel(r)
        \/ \E result \in Results : CompletePhase(r, result)
    \/ \E s \in 0..(shardCount - 1), now \in 0..MaxClock : PruneExpired(s, now)
    \/ ScrapeShard
    \/ ScrapeDenied
    \/ Crash
    \/ Tick

\* The threads or tasks of the server are scheduled, and time passes.  Nothing
\* is assumed of the backend: a forward may never return.
Fairness ==
    /\ \A r \in Requests :
        WF_vars(Deny(r) \/ BeginKeyless(r) \/ BeginRun(r) \/ BeginDone(r))
    /\ WF_vars(Tick)

Spec == Init /\ [][Next]_vars
FairSpec == Spec /\ Fairness

-----------------------------------------------------------------------------
SameKeyAndLife(r, q) ==
    req[r].key = req[q].key /\ req[r].key # NoKey /\ lifeOf[r] = lifeOf[q]

\* A replayed response is the final answer of a backend that ran a request
\* with the same key and the same content, in the same life of the key: no
\* server error, no refused run, nothing of another key or of an expired life
\* is ever replayed.
ReplayFaithful ==
    \A r \in Requests :
        answer[r].status = "replayed" =>
            LET q == answer[r].from
            IN  /\ SameKeyAndLife(r, q)
                /\ req[q].fp = req[r].fp
                /\ backend[q] = "ran"
                /\ forwarded[q] = "ok"

\* All clients that get a final answer for a key get the same one until the
\* key is recycled, whether they were first, retried, or raced each other,
\* across crashes, cancelled requests and failed forwards: with the lock held
\* during the forward always, and without it as long as no request has taken
\* longer than a lease.
AnswersAgree ==
    holdLock \/ ~overrun => \A r, q \in Requests :
        /\ SameKeyAndLife(r, q)
        /\ answer[r].status \in {"created", "replayed"}
        /\ answer[q].status \in {"created", "replayed"}
        => answer[r].from = answer[q].from

\* The backend executes a key a second time only after the gateway gave up on
\* the first run: its forward failed or returned a server error, its client
\* went away, or the process died (with the lock held during the forward, or
\* as long as no request has taken longer than a lease).
GaveUp(r) == pc[r] \in {"cancelled", "lost"} \/ forwarded[r] \in {"5xx", "err"}

SingleEffect ==
    holdLock \/ ~overrun => \A r, q \in Requests :
        /\ r # q
        /\ SameKeyAndLife(r, q)
        /\ backend[r] = "ran"
        /\ backend[q] = "ran"
        => GaveUp(r) \/ GaveUp(q)

\* Every request counted by begin_phase is counted under exactly one outcome,
\* on the same shard, by the time it leaves complete_phase, so the counters of a
\* shard differ by its requests between the two phases and the ones cancelled
\* there.
CountersBalance ==
    \A s \in Shards :
        metrics[s]["requests_total"]
            = OutcomeSum(metrics[s])
                + Cardinality({r \in Requests :
                                /\ home[r] = s
                                /\ pc[r] \in {"forwarding", "cancelled"}})

\* A counter of the metrics m summed over the first n shards, for every n, and
\* over all of them.
Sums(m, c) ==
    LET sum[n \in 0..Max(ShardCounts)] ==
            IF n = 0 THEN 0 ELSE sum[n - 1] + m[n - 1][c]
    IN  sum

Total(m, c) == Sums(m, c)[Max(ShardCounts)]

\* What /metrics reports is never out of the question, although every shard
\* goes on counting while the others are read: each counter is between its
\* value when the scrape began and its value now, and no more outcomes are
\* reported than requests.
ScrapeBracketed ==
    scrape.read = shardCount + 1 =>
        /\ \A c \in Counters : scrape.total[c] \in Total(scrape.before, c)..Total(metrics, c)
        /\ OutcomeSum(scrape.total) <= scrape.total["requests_total"]
        /\ scrape.denied <= denied

\* "If it overran and a retry took over, complete() returns an error and the
\* takeover's result is the one served": a response tagged created is the
\* outcome the key is left with.
ServedIsCommitted ==
    [][\A r \in Requests :
            pc[r] = "forwarding" /\ answer'[r].status = "created" =>
                /\ index'[home[r]][req[r].key].tag = "Completed"
                /\ index'[home[r]][req[r].key].outcome = answer'[r].from]_vars

\* The Router drops the shard's lock before it forwards, so no request waits for
\* the forward of another: one that arrived gets through begin_phase although
\* forwards, of its own key too, never return.
BeginNeverAwaitsForward ==
    \A r \in Requests :
        pc[r] = "arrived" /\ ~holdLock ~> pc[r] # "arrived"

\* Every forward returns, or its request is cancelled.  The total timeout of
\* onced-fast's client guarantees it; the timeout of server.rs is one per read
\* and onced-uring has none, so that there it is up to the backend.
ForwardsEnd ==
    \A r \in Requests : pc[r] = "forwarding" ~> pc[r] # "forwarding"

\* Where forwards end, every request that arrived is answered, unless its client
\* goes away or the process dies under it: nobody waits for ever for a shard's
\* lock, not even where the lock is held across the forward and forwards fail.
EveryRequestAnswered ==
    ForwardsEnd => \A r \in Requests :
        pc[r] = "arrived" ~> pc[r] \in {"answered", "cancelled", "lost"}

\* An abandoned key does not stay wedged: it is completed, or the time comes
\* when a retry of the same request would run it (the leases that end within
\* the modelled time).
KeyNotWedged ==
    \A k \in Keys, s \in Shards :
        index[s][k].tag = "InProgress" /\ index[s][k].leaseExpiresAt <= MaxClock ~>
            \/ index[s][k].tag # "InProgress"
            \/ BeginDecision(index[s][k], index[s][k].fingerprint, clock) = "Start"

=============================================================================
