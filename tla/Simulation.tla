----------------------------- MODULE Simulation -----------------------------
(***************************************************************************)
(* The deterministic simulation (onced-sim lib.rs): workers retry over a   *)
(* few keys against the engine, with crashes, jumps of the clock and late  *)
(* completions, while an oracle keeps what it has seen committed and       *)
(* panics when the engine answers otherwise.  SyncEach tells the two       *)
(* durability disciplines apart.                                           *)
(*                                                                         *)
(* The random choice of the next operation is a nondeterministic one, so   *)
(* the model covers every seed.  The workers outlive the engine, and one   *)
(* clock that never goes back is passed to every call; instants are        *)
(* counted from the first reading.                                         *)
(***************************************************************************)
EXTENDS Engine

\* There is a request to make, and outcomes outlive the reading they are
\* committed at (the simulation keeps the engine's default of 24 hours).
ASSUME SimulationAssumption == Fingerprints # {} /\ TtlMs > 0

VARIABLES
    nowMs,          \* now_ms
    workers,        \* Inflight: what the worker of each attempt will commit
    committed,      \* oracle: the outcome a replay must return, or NoOutcome
    durable,        \* oracle: the outcome that was made durable, or NoOutcome
    committedFp,    \* oracle: the variants that produced the outcome of a key
    completes,      \* oracle: the successful completions of each key
    panicked        \* an assertion of the simulation failed

oracleVars == <<committed, durable, committedFp, completes, panicked>>
simVars == <<nowMs, workers, oracleVars>>

SimInit ==
    /\ Init
    /\ nowMs = 0
    /\ workers = <<>>
    /\ committed = [k \in Keys |-> NoOutcome]
    /\ durable = [k \in Keys |-> NoOutcome]
    /\ committedFp = [k \in Keys |-> {}]
    /\ completes = [k \in Keys |-> 0]
    /\ panicked = FALSE

-----------------------------------------------------------------------------
\* The fingerprints begin is called with: group commit uses one for each key.
Variants == IF SyncEach THEN Fingerprints ELSE {CHOOSE f \in Fingerprints : TRUE}

\* The bodies of earlier outcomes are not used again.
FreshOutcomes == Outcomes \ {workers[a].outcome : a \in DOMAIN workers}

\* do_begin, with the assertions on a replay.
DoBegin(k, variant) ==
    LET decision == BeginDecision(index[k], variant, nowMs)
    IN  /\ Begin(k, variant, nowMs)
        /\ \/ /\ decision = "Start"
              /\ \E o \in FreshOutcomes :
                    workers' = Append(workers, [outcome |-> o, variant |-> variant])
              /\ UNCHANGED panicked
           \/ /\ decision # "Start"
              /\ panicked' = (decision = "Replay" /\
                                \/ committed[k] # index[k].outcome
                                \/ committedFp[k] # {variant})
              /\ UNCHANGED workers
        /\ UNCHANGED <<nowMs, committed, durable, committedFp, completes>>

NoOutcomes == [k \in Keys |-> NoOutcome]

\* mark_durable for the keys that have an outcome in `outcomes`.
MarkDurable(outcomes) ==
    durable' = [k \in Keys |-> IF durable[k] # NoOutcome THEN durable[k]
                               ELSE outcomes[k]]

\* The assertion of mark_durable fails for some key of `outcomes`.
DurableChanged(outcomes) ==
    \E k \in Keys : /\ NoOutcome \notin {outcomes[k], durable[k]}
                    /\ outcomes[k] # durable[k]

\* do_complete when the engine accepts the completion.
DoCompleteOk(t) ==
    LET k == t.key
        w == workers[t.attempt]
    IN  /\ CompleteDecision(index[k], t.fence) = "Ok"
        /\ committed' = [committed EXCEPT ![k] = w.outcome]
        /\ committedFp' = [committedFp EXCEPT ![k] = {w.variant}]
        /\ \/ /\ SyncEach
              /\ completes' = [completes EXCEPT ![k] = @ + 1]
              /\ MarkDurable([NoOutcomes EXCEPT ![k] = w.outcome])
              /\ panicked' = (\/ completes'[k] # 1
                              \/ DurableChanged([NoOutcomes EXCEPT ![k] = w.outcome]))
           \/ /\ ~SyncEach
              /\ UNCHANGED <<completes, durable, panicked>>

\* do_complete when the engine refuses it.
DoCompleteRefused(t) ==
    LET answer == CompleteDecision(index[t.key], t.fence)
    IN  /\ answer # "Ok"
        /\ panicked' = (\/ answer = "AlreadyCompleted" /\ committed[t.key] = NoOutcome
                        \/ answer = "Unknown" /\ SyncEach)
        /\ UNCHANGED <<committed, durable, committedFp, completes>>

\* do_complete
DoComplete(t) ==
    /\ Complete(t, workers[t.attempt].outcome, nowMs)
    /\ DoCompleteOk(t) \/ DoCompleteRefused(t)
    /\ UNCHANGED <<nowMs, workers>>

\* Mutant of DoFlush: the simulation forgets to flush the engine.
DoFlushOracleOnly ==
    /\ ~SyncEach
    /\ MarkDurable(committed)
    /\ panicked' = DurableChanged(committed)
    /\ UNCHANGED <<vars, nowMs, workers, committed, committedFp, completes>>

\* do_flush, a step of group commit only.
DoFlush ==
    /\ ~SyncEach
    /\ Flush \/ (pending = <<>> /\ UNCHANGED vars)
    /\ MarkDurable(committed)
    /\ panicked' = DurableChanged(committed)
    /\ UNCHANGED <<nowMs, workers, committed, committedFp, completes>>

\* do_advance_clock: a small step, or one past the lease.  A campaign is
\* shorter than the time-to-live of an outcome.
DoAdvanceClock ==
    /\ \E jump \in 1..(LeaseMs \div 2) \union LeaseMs..(2 * LeaseMs - 1) :
        /\ jump > 0
        /\ nowMs' = nowMs + jump
    /\ nowMs' < TtlMs
    /\ UNCHANGED <<vars, workers, oracleVars>>

\* do_crash: the engine is dropped with what it had buffered, the log is
\* reopened, and every key the oracle takes for durable is retried.
DoCrash ==
    /\ index' = Replay(disk)
    /\ pending' = <<>>
    /\ nextFence' = MaxInProgressFence(index') + 1
    /\ UNCHANGED <<disk, tokens, history>>
    /\ committed' = IF SyncEach THEN committed ELSE durable
    /\ panicked' = \E k \in Keys, fp \in Fingerprints :
            /\ committed'[k] # NoOutcome
            /\ fp \in committedFp[k]
            /\ \/ BeginDecision(index'[k], fp, nowMs) # "Replay"
               \/ index'[k].outcome # committed'[k]
    /\ UNCHANGED <<nowMs, workers, durable, committedFp, completes>>

\* step, until an assertion has failed.
SimNext ==
    /\ ~panicked
    /\ \/ \E k \in Keys, variant \in Variants : DoBegin(k, variant)
       \/ \E t \in tokens : DoComplete(t)
       \/ DoFlush
       \/ DoAdvanceClock
       \/ DoCrash

SimSpec == SimInit /\ [][SimNext]_<<vars, simVars>>

-----------------------------------------------------------------------------
\* No seed makes the simulation panic: replays return what was committed and
\* only to the fingerprint that produced it, a durable outcome never changes
\* and is replayed after every crash, a strict log lets a key complete once and
\* never orphans a token, with workers that outlive every crash.
NeverPanics == ~panicked

OutcomeIn(s) == IF s.tag = "Completed" THEN s.outcome ELSE NoOutcome

\* The oracle follows the engine exactly, so its assertions leave nothing out:
\* what it takes for committed is what memory holds, what it takes for durable
\* is what the log would recover, and the variant it remembers is the
\* fingerprint stored with the outcome.
OracleTracksEngine ==
    \A k \in Keys :
        /\ committed[k] = OutcomeIn(index[k])
        /\ durable[k] = OutcomeIn(Replay(disk)[k])
        /\ index[k].tag = "Completed" => committedFp[k] = {index[k].fingerprint}

=============================================================================
