------------------------------- MODULE Engine -------------------------------
(***************************************************************************)
(* The idempotency engine over its write-ahead log (onced-core engine.rs,  *)
(* store.rs and wal.rs), one shard, at the granularity of whole records:   *)
(* begin, complete, flush, prune_expired, and the crash of the process     *)
(* followed by the reopening of the log.                                   *)
(*                                                                         *)
(* Every call passes its own now_ms, and the calls come in any order of    *)
(* now_ms: the callers read the clock before they take the shard's lock.   *)
(***************************************************************************)
EXTENDS KeyStates, Sequences, FiniteSets, SequencesExt

CONSTANTS
    SyncEach,             \* strict WAL: fsync in every put; else group commit
    WorkersOutliveCrash,  \* run tokens survive the crash of the engine
    MaxAttempts,          \* bound: how many attempts are ever started
    NoOutcome

ASSUME EngineAssumption ==
    /\ IsFiniteSet(Keys)
    /\ SyncEach \in BOOLEAN
    /\ WorkersOutliveCrash \in BOOLEAN
    /\ MaxAttempts \in Nat
    /\ NoOutcome \notin Outcomes

VARIABLES
    index,      \* WalStore.index: the state of every key, Absent if none
    disk,       \* the records of the log file
    pending,    \* WalStore.pending: the records put and not yet flushed
    nextFence,  \* Engine.next_fence
    tokens,     \* the RunTokens workers hold
    \* History, read by no action:
    attempts,   \* how many attempts were started
    committer,  \* the attempt whose complete() was last accepted on each key
    acked,      \* the last completion of each key made durable by a put or flush
    clock       \* the latest now_ms any call was given

storeVars == <<index, disk, pending>>
history == <<attempts, committer, acked, clock>>
vars == <<storeVars, nextFence, tokens, history>>

Records == [key: Keys, state: KeyState]
Tokens == [key: Keys, fence: Nat, attempt: 1..MaxAttempts]

TypeOK ==
    /\ index \in [Keys -> KeyState \union {Absent}]
    /\ disk \in Seq(Records)
    /\ pending \in Seq(Records)
    /\ nextFence \in Nat \ {0}
    /\ tokens \in SUBSET Tokens
    /\ attempts \in 0..MaxAttempts
    /\ committer \in [Keys -> 0..MaxAttempts]
    /\ acked \in [Keys -> CompletedStates \union {Absent}]
    /\ clock \in Instants

-----------------------------------------------------------------------------
\* The index that replaying a log builds: the last record of a key wins.
Replay(log) ==
    [k \in Keys |->
        LET at == {i \in DOMAIN log : log[i].key = k}
        IN  IF at = {} THEN Absent ELSE log[Max(at)].state]

\* Mutant of MaxInProgressFence: the store recovers no fence.
NoFenceRecovered(ix) == 0

\* The largest fence of an in-progress key, 0 if there is none.
MaxInProgressFence(ix) ==
    LET fences == {ix[k].fence : k \in {j \in Keys : ix[j].tag = "InProgress"}}
    IN  IF fences = {} THEN 0 ELSE Max(fences)

\* The logs compaction may write for an index: one record for each entry, in
\* the order the hash map yields them.
CompactedLogs(ix) ==
    {[i \in DOMAIN ks |-> [key |-> ks[i], state |-> ix[ks[i]]]] :
        ks \in SetToSeqs({k \in Keys : ix[k] # Absent})}

\* A put or flush has returned: the completions in the index ix are durable.
Acknowledged(ix) ==
    [k \in Keys |-> IF ix[k].tag = "Completed" THEN ix[k] ELSE acked[k]]

Later(now) == IF now > clock THEN now ELSE clock

Init ==
    /\ index = [k \in Keys |-> Absent]
    /\ disk = <<>>
    /\ pending = <<>>
    /\ nextFence = MaxInProgressFence(index) + 1
    /\ tokens = {}
    /\ attempts = 0
    /\ committer = [k \in Keys |-> 0]
    /\ acked = [k \in Keys |-> Absent]
    /\ clock = 0

-----------------------------------------------------------------------------
\* WalStore::put: buffer the record, update the index, and in strict mode
\* write and fsync the buffer before returning.
Put(k, s) ==
    LET buffered == Append(pending, [key |-> k, state |-> s])
    IN  /\ index' = [index EXCEPT ![k] = s]
        /\ disk' = IF SyncEach THEN disk \o buffered ELSE disk
        /\ pending' = IF SyncEach THEN <<>> ELSE buffered
        /\ acked' = IF SyncEach THEN Acknowledged(index') ELSE acked

\* Engine::begin, and Engine::start when the request may run.
Begin(k, fp, now) ==
    /\ clock' = Later(now)
    /\ \/ /\ BeginDecision(index[k], fp, now) = "Start"
          /\ attempts < MaxAttempts
          /\ Put(k, StartState(nextFence, fp, now, attempts + 1))
          /\ nextFence' = nextFence + 1
          /\ attempts' = attempts + 1
          /\ tokens' = tokens \union
                {[key |-> k, fence |-> nextFence, attempt |-> attempts + 1]}
          /\ UNCHANGED committer
       \/ /\ BeginDecision(index[k], fp, now) # "Start"
          /\ UNCHANGED <<storeVars, nextFence, tokens, attempts, committer,
                         acked>>

\* Engine::complete, which consumes the token whatever it answers.
Complete(t, o, now) ==
    /\ t \in tokens
    /\ tokens' = tokens \ {t}
    /\ clock' = Later(now)
    /\ \/ /\ CompleteDecision(index[t.key], t.fence) = "Ok"
          /\ Put(t.key, Completed(index[t.key].fingerprint, o, now))
          /\ committer' = [committer EXCEPT ![t.key] = t.attempt]
       \/ /\ CompleteDecision(index[t.key], t.fence) # "Ok"
          /\ UNCHANGED <<storeVars, committer, acked>>
    /\ UNCHANGED <<nextFence, attempts>>

\* Mutant of Flush: the buffer is not cleared once it is durable.
FlushKeepsBuffer ==
    /\ pending # <<>>
    /\ disk' = disk \o pending
    /\ acked' = Acknowledged(index)
    /\ UNCHANGED <<index, pending, nextFence, tokens, attempts, committer, clock>>

\* Engine::flush (WalStore::flush_pending, which returns at once if nothing
\* is buffered).
Flush ==
    /\ pending # <<>>
    /\ disk' = disk \o pending
    /\ pending' = <<>>
    /\ acked' = Acknowledged(index)
    /\ UNCHANGED <<index, nextFence, tokens, attempts, committer, clock>>

\* Mutant of PruneExpired: compaction leaves the buffer behind.
PruneKeepsBuffer(now) ==
    /\ index' = [k \in Keys |->
                    IF PruneKeeps(index[k], now) THEN index[k] ELSE Absent]
    /\ disk' \in CompactedLogs(index')
    /\ clock' = Later(now)
    /\ UNCHANGED <<pending, nextFence, tokens, attempts, committer, acked>>

\* Engine::prune_expired: WalStore::compact filters the index, rewrites the
\* log from it and drops the buffer.
PruneExpired(now) ==
    /\ index' = [k \in Keys |->
                    IF PruneKeeps(index[k], now) THEN index[k] ELSE Absent]
    /\ disk' \in CompactedLogs(index')
    /\ pending' = <<>>
    /\ clock' = Later(now)
    /\ UNCHANGED <<nextFence, tokens, attempts, committer, acked>>

-----------------------------------------------------------------------------
\* Mutant of Reopen: the counter is seeded with the largest recovered fence.
ReopenOffByOne(log, survivors) ==
    /\ disk' = log
    /\ index' = Replay(log)
    /\ pending' = <<>>
    /\ nextFence' = MaxInProgressFence(index')
    /\ tokens' = IF WorkersOutliveCrash THEN survivors ELSE {}

\* The process dies and reopens the given log: WalStore::open_with replays
\* it, Engine::with_ttl seeds the fence counter from the replayed index.
Reopen(log, survivors) ==
    /\ disk' = log
    /\ index' = Replay(log)
    /\ pending' = <<>>
    /\ nextFence' = MaxInProgressFence(index') + 1
    /\ tokens' = IF WorkersOutliveCrash THEN survivors ELSE {}

\* A crash between calls, or in the middle of a flush that had written the
\* first n records of the buffer.
Crash ==
    /\ \E n \in 0..Len(pending) : Reopen(disk \o SubSeq(pending, 1, n), tokens)
    /\ UNCHANGED history

\* A crash in the put of a strict begin, after the record reached the file
\* and before the token was handed out.
CrashInStart(k, fp, now) ==
    /\ SyncEach
    /\ BeginDecision(index[k], fp, now) = "Start"
    /\ attempts < MaxAttempts
    /\ Reopen(Append(disk, [key |-> k, state |-> StartState(nextFence, fp, now, attempts + 1)]),
              tokens)
    /\ attempts' = attempts + 1
    /\ clock' = Later(now)
    /\ UNCHANGED <<committer, acked>>

\* A crash in the put of a strict complete, after the record reached the file
\* and before the answer.
CrashInComplete(t, o, now) ==
    /\ SyncEach
    /\ t \in tokens
    /\ CompleteDecision(index[t.key], t.fence) = "Ok"
    /\ Reopen(Append(disk, [key   |-> t.key,
                            state |-> Completed(index[t.key].fingerprint, o, now)]),
              tokens \ {t})
    /\ committer' = [committer EXCEPT ![t.key] = t.attempt]
    /\ clock' = Later(now)
    /\ UNCHANGED <<attempts, acked>>

Next ==
    \/ \E k \in Keys, fp \in Fingerprints, now \in Instants :
            Begin(k, fp, now) \/ CrashInStart(k, fp, now)
    \/ \E t \in tokens, o \in Outcomes, now \in Instants :
            Complete(t, o, now) \/ CrashInComplete(t, o, now)
    \/ \E now \in Instants : PruneExpired(now)
    \/ Flush
    \/ Crash

Spec == Init /\ [][Next]_vars

-----------------------------------------------------------------------------
\* What is served from memory is what the log and the buffer would rebuild:
\* put, flush, compaction and recovery never let the index of WalStore drift
\* from the records it stands for.
IndexIsLogReplay == index = Replay(disk \o pending)

\* A completion that was made durable (by a strict put or by a flush) answers
\* every retry, and is what a reopened log yields, until its time-to-live has
\* elapsed: no takeover, compaction, crash or torn flush loses or alters it.
AckedOutcomeHonoured ==
    \A k \in Keys :
        acked[k] # Absent /\ clock < ExpiresAt(acked[k])
            => index[k] = acked[k] /\ Replay(disk)[k] = acked[k]

\* Two keys in progress never carry the same fence: with_ttl seeds the counter
\* above every lease the log recovered.
InProgressFencesDistinct ==
    \A j, k \in Keys :
        /\ index[j].tag = "InProgress"
        /\ index[k].tag = "InProgress"
        /\ index[j].fence = index[k].fence
        => j = k

\* The inductive strengthening of the three invariants above.  A crash in the
\* middle of a flush keeps the file and a prefix of the buffer, so fences and
\* acknowledged completions are tracked in each of the three places they live.
FencesBelowNext ==
    /\ \A k \in Keys : index[k].tag = "InProgress" => index[k].fence < nextFence
    /\ \A k \in Keys : Replay(disk)[k].tag = "InProgress"
                            => Replay(disk)[k].fence < nextFence
    /\ \A i \in DOMAIN pending : pending[i].state.tag = "InProgress"
                                    => pending[i].state.fence < nextFence

AckedOutcomeSettled ==
    \A k \in Keys :
        acked[k] # Absent /\ clock < ExpiresAt(acked[k])
            => /\ index[k] = acked[k]
               /\ Replay(disk)[k] = acked[k]
               /\ \A i \in DOMAIN pending : pending[i].key # k

\* The state of the store is always one from which a crash recovers: the
\* index is the replay of file and buffer, a strict store buffers nothing, the
\* counter is above every fence a recovery could meet, and no buffered record
\* threatens an acknowledged completion.
EngineInv ==
    /\ IndexIsLogReplay
    /\ SyncEach => pending = <<>>
    /\ FencesBelowNext
    /\ AckedOutcomeSettled

\* While workers die with the process, a live token that matches the fence of
\* its key's lease is the token minted with that lease.
TokensMatchLeases ==
    \A t \in tokens :
        /\ t.fence < nextFence
        /\ (/\ index[t.key].tag = "InProgress"
            /\ index[t.key].fence = t.fence) => index[t.key].attempt = t.attempt

\* Attempts are numbered in the order they start, and every number in use has
\* been given out.
AttemptsGivenOut ==
    \A k \in Keys :
        /\ index[k].tag = "InProgress" => index[k].attempt \in 1..attempts
        /\ committer[k] <= attempts

\* A stalled or orphaned worker is refused: complete() accepts a token only for
\* the lease that the begin() which minted the token recorded, never for a lease
\* another attempt recorded later, across takeovers, recycling and crashes.
StaleNeverCommits ==
    [][\A k \in Keys :
            committer'[k] # committer[k] =>
                /\ index[k].tag = "InProgress"
                /\ committer'[k] = index[k].attempt]_vars

\* The engine on a strict log implements ExactlyOnce: an outcome is in force
\* while the index holds it, and the attempt that recorded the lease of an
\* in-progress key is its holder.
EO == INSTANCE ExactlyOnce WITH
    Attempts <- 1..MaxAttempts,
    outcome <- [k \in Keys |-> IF index[k].tag = "Completed"
                               THEN index[k].outcome ELSE NoOutcome],
    holder <- [k \in Keys |-> IF index[k].tag = "InProgress"
                              THEN index[k].attempt ELSE 0]

\* Every step of the engine, crashes included, is a step ExactlyOnce allows.
ImplementsExactlyOnce == EO!Spec

=============================================================================
