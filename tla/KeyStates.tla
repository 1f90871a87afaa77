------------------------------ MODULE KeyStates ------------------------------
(***************************************************************************)
(* The lifecycle of one idempotency key (onced-core lib.rs and engine.rs): *)
(* the stored states, and the decisions Engine::begin, Engine::complete    *)
(* and Engine::prune_expired take by looking at one stored state.  Nothing *)
(* here has variables; Engine and the modules above it act on these        *)
(* decisions.                                                              *)
(*                                                                         *)
(* Milliseconds are the numbers 0..U64Max, and additions on them saturate  *)
(* at U64Max as u64::saturating_add does.                                  *)
(***************************************************************************)
EXTENDS Naturals

CONSTANTS
    Keys,           \* idempotency keys
    Fingerprints,   \* digests of requests
    Outcomes,       \* cached responses
    LeaseMs,        \* how long a worker may hold a key
    TtlMs,          \* how long a completed outcome is honoured
    U64Max          \* the largest value of a u64

ASSUME DurationsAssumption ==
    /\ U64Max \in Nat
    /\ LeaseMs \in 0..U64Max
    /\ TtlMs \in 0..U64Max

Instants == 0..U64Max

SaturatingAdd(a, b) == IF a + b > U64Max THEN U64Max ELSE a + b

-----------------------------------------------------------------------------
(***************************************************************************)
(* KeyState, and Absent for the None that Store::get answers.  The field   *)
(* attempt of an in-progress state is history: it numbers the attempt that *)
(* wrote the state, and no decision below reads it.                        *)
(***************************************************************************)
Absent == [tag |-> "Absent"]

InProgress(fence, fp, expires, a) ==
    [tag |-> "InProgress", fence |-> fence, fingerprint |-> fp,
     leaseExpiresAt |-> expires, attempt |-> a]

Completed(fp, o, at) ==
    [tag |-> "Completed", fingerprint |-> fp, outcome |-> o,
     completedAt |-> at]

InProgressStates ==
    [tag: {"InProgress"}, fence: Nat, fingerprint: Fingerprints,
     leaseExpiresAt: Instants, attempt: Nat]

CompletedStates ==
    [tag: {"Completed"}, fingerprint: Fingerprints, outcome: Outcomes,
     completedAt: Instants]

KeyState == InProgressStates \union CompletedStates

-----------------------------------------------------------------------------
\* The instant from which a completed outcome is no longer honoured.
ExpiresAt(s) == SaturatingAdd(s.completedAt, TtlMs)

\* Mutant of BeginDecision: an in-progress key is never taken over.
BeginWithoutTakeover(s, fp, now) ==
    CASE s.tag = "Absent" -> "Start"
      [] s.tag = "Completed" ->
            IF now >= ExpiresAt(s) THEN "Start"
            ELSE IF s.fingerprint = fp THEN "Replay" ELSE "Mismatch"
      [] s.tag = "InProgress" ->
            IF s.fingerprint # fp THEN "Mismatch" ELSE "InProgress"

\* What Engine::begin does with a request bearing fingerprint fp at `now`,
\* given the stored state s of its key.
BeginDecision(s, fp, now) ==
    CASE s.tag = "Absent" -> "Start"
      [] s.tag = "Completed" ->
            IF now >= ExpiresAt(s) THEN "Start"
            ELSE IF s.fingerprint = fp THEN "Replay" ELSE "Mismatch"
      [] s.tag = "InProgress" ->
            IF s.fingerprint # fp THEN "Mismatch"
            ELSE IF now >= s.leaseExpiresAt THEN "Start" ELSE "InProgress"

\* Mutant of StartState: the lease is already over when it is granted.
StartExpired(fence, fp, now, a) == InProgress(fence, fp, now, a)

\* The state a fresh attempt a is recorded with.
StartState(fence, fp, now, a) ==
    InProgress(fence, fp, SaturatingAdd(now, LeaseMs), a)

\* Mutant of CompleteDecision: the fence of the token is not compared.
CompleteUnfenced(s, fence) ==
    CASE s.tag = "Absent" -> "Unknown"
      [] s.tag = "Completed" -> "AlreadyCompleted"
      [] s.tag = "InProgress" -> "Ok"

\* Mutant of CompleteDecision: a late worker overwrites a completed key.
CompleteOverwrites(s, fence) ==
    CASE s.tag = "Absent" -> "Unknown"
      [] s.tag = "Completed" -> "Ok"
      [] s.tag = "InProgress" -> IF s.fence = fence THEN "Ok" ELSE "StaleFence"

\* What Engine::complete answers to a token carrying `fence`.
CompleteDecision(s, fence) ==
    CASE s.tag = "Absent" -> "Unknown"
      [] s.tag = "Completed" -> "AlreadyCompleted"
      [] s.tag = "InProgress" -> IF s.fence = fence THEN "Ok" ELSE "StaleFence"

\* Mutant of PruneKeeps: the sweep measures the lease, not the time-to-live.
PruneByLease(s, now) ==
    s.tag = "Completed" => now < SaturatingAdd(s.completedAt, LeaseMs)

\* Whether Engine::prune_expired keeps a stored state at `now`.
PruneKeeps(s, now) == s.tag = "Completed" => now < ExpiresAt(s)

=============================================================================
