--------------------------- MODULE SimulationProofs ---------------------------
(***************************************************************************)
(* Theorems about Simulation: no schedule of the deterministic simulation  *)
(* makes one of its assertions fail, on a strict and on a group-commit     *)
(* log, for any number of keys, request variants and attempts.             *)
(***************************************************************************)
EXTENDS MCEngine, EngineProofs

-----------------------------------------------------------------------------
\* What the workers and the oracle hold, next to TypeOK of the engine.
SimTypeOK ==
    /\ TypeOK
    /\ nowMs \in Nat /\ nowMs < TtlMs
    /\ workers \in Seq([outcome: Outcomes, variant: Variants])
    /\ Len(workers) = attempts
    /\ committed \in [Keys -> Outcomes \union {NoOutcome}]
    /\ durable \in [Keys -> Outcomes \union {NoOutcome}]
    /\ committedFp \in [Keys -> SUBSET Fingerprints]
    /\ completes \in [Keys -> Nat]

\* A completion the log holds is the one memory holds: no later record of its
\* key is buffered.
DurableIsCurrent ==
    \A k \in Keys :
        Replay(disk)[k].tag = "Completed" => index[k] = Replay(disk)[k]

\* States carry fingerprints that begin was called with.
VariantsStored ==
    \A k \in Keys :
        /\ index[k].tag # "Absent" => index[k].fingerprint \in Variants
        /\ Replay(disk)[k].tag # "Absent" => Replay(disk)[k].fingerprint \in Variants

\* A worker has its token's attempt; on a strict log the key of a token is
\* never forgotten and never changes its fingerprint.
WorkersMatchKeys ==
    \A t \in tokens :
        /\ t.attempt <= attempts
        /\ SyncEach => /\ index[t.key].tag # "Absent"
                       /\ index[t.key].fingerprint = workers[t.attempt].variant

\* On a strict log the oracle has counted the completion of each completed key.
CompletedOnce ==
    SyncEach => \A k \in Keys :
                    completes[k] = IF index[k].tag = "Completed" THEN 1 ELSE 0

SimInv ==
    /\ EngineInv
    /\ OracleTracksEngine
    /\ DurableIsCurrent
    /\ VariantsStored
    /\ WorkersMatchKeys
    /\ CompletedOnce
    /\ NeverPanics

-----------------------------------------------------------------------------
\* The calls of the simulation are calls the engine accepts.
LEMMA CallTypes ==
    ASSUME SimTypeOK
    PROVE  nowMs \in Instants /\ Variants \subseteq Fingerprints
<1>1. nowMs \in Instants
  BY DurationsAssumption DEF SimTypeOK, Instants
<1>2. (CHOOSE f \in Fingerprints : TRUE) \in Fingerprints
  BY SimulationAssumption
<1>3. QED
  BY <1>1, <1>2 DEF Variants

\* A campaign ends before any outcome expires.
LEMMA NotExpired ==
    ASSUME SimTypeOK, NEW s \in CompletedStates
    PROVE  ~ (nowMs >= ExpiresAt(s))
<1>1. s.completedAt \in 0..U64Max /\ nowMs \in Nat /\ nowMs < TtlMs
  BY DEF SimTypeOK, CompletedStates, Instants
<1>2. QED
  BY <1>1, DurationsAssumption DEF ExpiresAt, SaturatingAdd

\* What Engine::begin decides during a campaign: a completed key is replayed or
\* refused, never started again.
LEMMA CampaignDecision ==
    ASSUME SimTypeOK, NEW s \in KeyState \union {Absent}, NEW fp
    PROVE  /\ BeginDecision(s, fp, nowMs) = "Start" =>
                /\ s.tag # "Completed"
                /\ s.tag = "InProgress" => s.fingerprint = fp
           /\ BeginDecision(s, fp, nowMs) = "Replay" <=>
                s.tag = "Completed" /\ s.fingerprint = fp
<1>1. s.tag = "Completed" => ~ (nowMs >= ExpiresAt(s))
  BY NotExpired, Tags
<1>2. s.tag \in {"Absent", "InProgress", "Completed"}
  BY Tags
<1>3. QED
  BY <1>1, <1>2 DEF BeginDecision

\* On a strict log the file alone rebuilds the index, before a put and after
\* it; a put of group commit leaves the file alone.
LEMMA PutRecovers ==
    ASSUME TypeOK, EngineInv, TypeOK', EngineInv',
           NEW k \in Keys, NEW s \in KeyState, Put(k, s)
    PROVE  /\ index' = [index EXCEPT ![k] = s]
           /\ SyncEach => Replay(disk) = index /\ Replay(disk') = index'
           /\ ~ SyncEach => disk' = disk
<1>1. disk \in Seq(Records) /\ disk' \in Seq(Records)
  BY DEF TypeOK
<1>2. disk \o <<>> = disk /\ disk' \o <<>> = disk'
  BY <1>1
<1>3. QED
  BY <1>2 DEF Put, EngineInv, IndexIsLogReplay

\* do_begin when the engine starts an attempt.
LEMMA DoBeginStarts ==
    ASSUME SimTypeOK, SimInv, NEW k \in Keys, NEW variant \in Variants,
           DoBegin(k, variant), TypeOK', EngineInv',
           BeginDecision(index[k], variant, nowMs) = "Start"
    PROVE  SimTypeOK' /\ SimInv'
<1> DEFINE s == StartState(nextFence, variant, nowMs, attempts + 1)
           t == [key |-> k, fence |-> nextFence, attempt |-> attempts + 1]
<1>0. TypeOK /\ EngineInv
  BY DEF SimTypeOK, SimInv
<1>a. /\ index \in [Keys -> KeyState \union {Absent}] /\ attempts \in Nat
      /\ nextFence \in Nat /\ tokens \subseteq Tokens
      /\ workers \in Seq([outcome: Outcomes, variant: Variants])
      /\ Len(workers) = attempts
  BY EngineAssumption DEF SimTypeOK, TypeOK
<1>1. /\ s \in KeyState /\ s.tag = "InProgress" /\ s.fingerprint = variant
  <2>1. nowMs \in Instants /\ variant \in Fingerprints
    BY CallTypes
  <2>2. QED
    BY <1>a, <2>1, StartStateType DEF StartState, InProgress
<1>2. /\ Put(k, s) /\ attempts' = attempts + 1 /\ tokens' = tokens \union {t}
      /\ nowMs' = nowMs /\ committed' = committed /\ durable' = durable
      /\ committedFp' = committedFp /\ completes' = completes /\ panicked' = panicked
      /\ \E o \in FreshOutcomes :
            workers' = Append(workers, [outcome |-> o, variant |-> variant])
  BY DEF DoBegin, Begin
<1>3. t.key = k /\ t.attempt = attempts + 1
  OBVIOUS
<1> HIDE DEF s, t
<1>4. PICK w \in [outcome: Outcomes, variant: Variants] :
            workers' = Append(workers, w) /\ w.variant = variant
  BY <1>2 DEF FreshOutcomes
<1>5. /\ workers' \in Seq([outcome: Outcomes, variant: Variants])
      /\ Len(workers') = attempts' /\ workers'[attempts + 1].variant = variant
      /\ \A a \in 1..attempts : workers'[a] = workers[a]
  BY <1>a, <1>2, <1>4
<1>6. SimTypeOK'
  <2>1. Variants' = Variants
    OBVIOUS
  <2>2. QED
    BY <1>2, <1>5 DEF SimTypeOK
<1>7. /\ index' = [index EXCEPT ![k] = s]
      /\ SyncEach => Replay(disk) = index /\ Replay(disk') = index'
      /\ ~ SyncEach => disk' = disk
  BY <1>0, <1>1, <1>2, PutRecovers
<1>8. /\ index[k].tag # "Completed"
      /\ index[k].tag = "InProgress" => index[k].fingerprint = variant
      /\ index[k].tag \in {"Absent", "InProgress", "Completed"}
  BY <1>a, CampaignDecision, Tags
<1>9. \A j \in Keys : index'[j] = IF j = k THEN s ELSE index[j]
  BY <1>a, <1>7
<1>10. OracleTracksEngine'
  <2> SUFFICES ASSUME NEW j \in Keys
               PROVE  /\ committed'[j] = OutcomeIn(index'[j])
                      /\ durable'[j] = OutcomeIn(Replay(disk')[j])
                      /\ index'[j].tag = "Completed" =>
                            committedFp'[j] = {index'[j].fingerprint}
    BY DEF OracleTracksEngine, OutcomeIn
  <2>1. /\ committed[j] = OutcomeIn(index[j])
        /\ durable[j] = OutcomeIn(Replay(disk)[j])
        /\ index[j].tag = "Completed" => committedFp[j] = {index[j].fingerprint}
    BY DEF SimInv, OracleTracksEngine
  <2>2. OutcomeIn(index'[j]) = OutcomeIn(index[j])
    BY <1>1, <1>8, <1>9 DEF OutcomeIn
  <2>3. OutcomeIn(Replay(disk')[j]) = OutcomeIn(Replay(disk)[j])
    BY <1>7, <2>2, EngineAssumption
  <2>4. QED
    BY <1>1, <1>2, <1>9, <2>1, <2>2, <2>3
<1>11. DurableIsCurrent'
  BY <1>7, <1>8, <1>9 DEF SimInv, DurableIsCurrent
<1>12. VariantsStored'
  BY <1>1, <1>7, <1>9 DEF SimInv, VariantsStored
<1>13. WorkersMatchKeys'
  <2>1. ASSUME NEW u \in tokens'
        PROVE  /\ u.attempt <= attempts'
               /\ SyncEach => /\ index'[u.key].tag # "Absent"
                              /\ index'[u.key].fingerprint = workers'[u.attempt].variant
    <3>1. CASE u = t
      BY <1>a, <1>1, <1>2, <1>3, <1>5, <1>9, <3>1
    <3>2. CASE u \in tokens
      <4>1. u.key \in Keys /\ u.attempt \in 1..attempts
        BY <1>a, <3>2 DEF Tokens, SimInv, WorkersMatchKeys
      <4>2. SyncEach => /\ index[u.key].tag # "Absent"
                        /\ index[u.key].fingerprint = workers[u.attempt].variant
        BY <3>2 DEF SimInv, WorkersMatchKeys
      <4>3. workers'[u.attempt] = workers[u.attempt]
        BY <1>5, <4>1
      <4>4. QED
        BY <1>a, <1>1, <1>2, <1>8, <1>9, <4>1, <4>2, <4>3, SMTT(30)
    <3>3. QED
      BY <1>2, <3>1, <3>2
  <2>2. QED
    BY <2>1 DEF WorkersMatchKeys
<1>14. CompletedOnce'
  BY <1>1, <1>2, <1>8, <1>9 DEF SimInv, CompletedOnce
<1>15. NeverPanics'
  BY <1>2 DEF SimInv, NeverPanics
<1>16. QED
  BY <1>6, <1>10, <1>11, <1>12, <1>13, <1>14, <1>15 DEF SimInv

\* do_begin when the engine replays, refuses or asks to wait.
LEMMA DoBeginAnswers ==
    ASSUME SimTypeOK, SimInv, NEW k \in Keys, NEW variant \in Variants,
           DoBegin(k, variant), TypeOK', EngineInv',
           BeginDecision(index[k], variant, nowMs) # "Start"
    PROVE  SimTypeOK' /\ SimInv'
<1>1. /\ UNCHANGED <<index, disk, pending, tokens, attempts, nowMs, workers,
                     committed, durable, committedFp, completes>>
      /\ panicked' = (/\ BeginDecision(index[k], variant, nowMs) = "Replay"
                      /\ \/ committed[k] # index[k].outcome
                         \/ committedFp[k] # {variant})
  BY DEF DoBegin, Begin, storeVars
<1>2. index[k] \in KeyState \union {Absent}
  BY DEF SimTypeOK, TypeOK
<1>3. ~ panicked'
  <2>1. BeginDecision(index[k], variant, nowMs) = "Replay" =>
            index[k].tag = "Completed" /\ index[k].fingerprint = variant
    BY <1>2, CampaignDecision
  <2>2. QED
    BY <1>1, <2>1 DEF SimInv, OracleTracksEngine, OutcomeIn
<1>4. SimTypeOK'
  BY <1>1 DEF SimTypeOK
<1>5. OracleTracksEngine' /\ DurableIsCurrent' /\ VariantsStored'
  BY <1>1 DEF SimInv, OracleTracksEngine, DurableIsCurrent, VariantsStored
<1>6. WorkersMatchKeys' /\ CompletedOnce'
  BY <1>1 DEF SimInv, WorkersMatchKeys, CompletedOnce
<1>7. QED
  BY <1>3, <1>4, <1>5, <1>6 DEF SimInv, NeverPanics

\* The worker of a token, and the variant it was started for.
LEMMA TokenWorker ==
    ASSUME SimTypeOK, SimInv, NEW t \in tokens
    PROVE  /\ t.key \in Keys /\ t.attempt \in 1..attempts
           /\ workers[t.attempt].outcome \in Outcomes
           /\ workers[t.attempt].variant \in Variants
           /\ index[t.key] # Absent => workers[t.attempt].variant = index[t.key].fingerprint
<1>1. t.key \in Keys /\ t.attempt \in 1..attempts /\ attempts \in Nat
  BY EngineAssumption DEF SimTypeOK, TypeOK, Tokens, SimInv, WorkersMatchKeys
<1>2. workers[t.attempt] \in [outcome: Outcomes, variant: Variants]
  <2> DEFINE W == [outcome: Outcomes, variant: Variants]
  <2>1. workers \in Seq(W) /\ t.attempt \in 1..Len(workers)
    BY <1>1 DEF SimTypeOK
  <2> HIDE DEF W
  <2>2. workers[t.attempt] \in W
    BY <2>1
  <2>3. QED
    BY <2>2 DEF W
<1>3. ASSUME index[t.key] # Absent
      PROVE  workers[t.attempt].variant = index[t.key].fingerprint
  <2>1. CASE SyncEach
    BY <2>1 DEF SimInv, WorkersMatchKeys
  <2>2. CASE ~ SyncEach
    <3>1. index[t.key].tag # "Absent"
      BY <1>1, <1>3, Tags DEF SimTypeOK, TypeOK
    <3>2. index[t.key].fingerprint \in Variants
      BY <1>1, <3>1 DEF SimInv, VariantsStored
    <3>3. QED
      BY <1>2, <2>2, <3>2 DEF Variants
  <2>3. QED
    BY <2>1, <2>2, EngineAssumption
<1>4. QED
  BY <1>1, <1>2, <1>3

\* do_complete when the engine accepts the outcome.
LEMMA DoCompleteAccepted ==
    ASSUME SimTypeOK, SimInv, NEW t \in tokens, DoComplete(t), TypeOK', EngineInv',
           CompleteDecision(index[t.key], t.fence) = "Ok"
    PROVE  SimTypeOK' /\ SimInv'
<1> DEFINE k == t.key
           w == workers[t.attempt]
           s == Completed(index[k].fingerprint, w.outcome, nowMs)
<1>0. TypeOK /\ EngineInv
  BY DEF SimTypeOK, SimInv
<1>a. /\ index \in [Keys -> KeyState \union {Absent}]
      /\ committed \in [Keys -> Outcomes \union {NoOutcome}]
      /\ durable \in [Keys -> Outcomes \union {NoOutcome}]
      /\ committedFp \in [Keys -> SUBSET Fingerprints]
      /\ completes \in [Keys -> Nat]
  BY DEF SimTypeOK, TypeOK
<1>b. /\ k \in Keys /\ w.outcome \in Outcomes /\ w.variant \in Variants
      /\ index[k] # Absent => w.variant = index[k].fingerprint
  BY TokenWorker
<1>1. index[k].tag = "InProgress" /\ index[k] # Absent
  BY <1>a, <1>b, Tags DEF CompleteDecision, Absent
<1>2. /\ s \in KeyState /\ s.tag = "Completed" /\ s.outcome = w.outcome
      /\ s.fingerprint = w.variant /\ w.variant \in Fingerprints
  <2>1. nowMs \in Instants /\ w.variant \in Fingerprints
    BY <1>b, CallTypes
  <2>2. QED
    BY <1>b, <1>1, <2>1, CompletedType DEF Completed
<1>3. /\ Put(k, s) /\ tokens' = tokens \ {t} /\ attempts' = attempts
      /\ nowMs' = nowMs /\ workers' = workers
  BY DEF DoComplete, Complete
<1>4. DoCompleteOk(t)
  BY DEF DoComplete, DoCompleteRefused
<1>5. /\ committed' = [committed EXCEPT ![k] = w.outcome]
      /\ committedFp' = [committedFp EXCEPT ![k] = {w.variant}]
  BY <1>4 DEF DoCompleteOk
<1>6. SyncEach =>
        /\ completes' = [completes EXCEPT ![k] = @ + 1]
        /\ MarkDurable([NoOutcomes EXCEPT ![k] = w.outcome])
        /\ panicked' = (\/ completes'[k] # 1
                        \/ DurableChanged([NoOutcomes EXCEPT ![k] = w.outcome]))
  BY <1>4 DEF DoCompleteOk
<1>7. ~ SyncEach => UNCHANGED <<completes, durable, panicked>>
  BY <1>4 DEF DoCompleteOk
<1> HIDE DEF k, w, s
<1>8. /\ index' = [index EXCEPT ![k] = s]
      /\ SyncEach => Replay(disk) = index /\ Replay(disk') = index'
      /\ ~ SyncEach => disk' = disk
  BY <1>0, <1>b, <1>2, <1>3, PutRecovers
<1>9. \A j \in Keys : index'[j] = IF j = k THEN s ELSE index[j]
  BY <1>a, <1>8
<1>10. \A j \in Keys : [NoOutcomes EXCEPT ![k] = w.outcome][j]
                            = IF j = k THEN w.outcome ELSE NoOutcome
  BY <1>b DEF NoOutcomes
<1>11. SyncEach => /\ durable' \in [Keys -> Outcomes \union {NoOutcome}]
                   /\ durable[k] = NoOutcome
                   /\ \A j \in Keys : durable'[j] = IF j = k THEN w.outcome
                                                    ELSE durable[j]
  <2> SUFFICES ASSUME SyncEach
               PROVE  /\ durable' \in [Keys -> Outcomes \union {NoOutcome}]
                      /\ durable[k] = NoOutcome
                      /\ \A j \in Keys : durable'[j] = IF j = k THEN w.outcome
                                                    ELSE durable[j]
    OBVIOUS
  <2>1. durable[k] = NoOutcome
    BY <1>b, <1>1, <1>8 DEF SimInv, OracleTracksEngine, OutcomeIn
  <2>2. durable' = [j \in Keys |->
                        IF durable[j] # NoOutcome THEN durable[j]
                        ELSE [NoOutcomes EXCEPT ![k] = w.outcome][j]]
    BY <1>6 DEF MarkDurable
  <2>3. QED
    BY <1>a, <1>b, <1>10, <2>1, <2>2
<1>12. ~ panicked'
  <2>1. CASE SyncEach
    <3>1. completes[k] = 0
      BY <1>b, <1>1, <2>1 DEF SimInv, CompletedOnce
    <3>2. completes'[k] = 1
      BY <1>a, <1>b, <1>6, <2>1, <3>1
    <3>3. ~ DurableChanged([NoOutcomes EXCEPT ![k] = w.outcome])
      BY <1>10, <1>11, <2>1 DEF DurableChanged
    <3>4. QED
      BY <1>6, <2>1, <3>2, <3>3
  <2>2. CASE ~ SyncEach
    BY <1>7, <2>2 DEF SimInv, NeverPanics
  <2>3. QED
    BY <2>1, <2>2
<1>13. SimTypeOK'
  <2>1. /\ committed' \in [Keys -> Outcomes \union {NoOutcome}]
        /\ committedFp' \in [Keys -> SUBSET Fingerprints]
    BY <1>a, <1>b, <1>2, <1>5
  <2>2. /\ durable' \in [Keys -> Outcomes \union {NoOutcome}]
        /\ completes' \in [Keys -> Nat]
    <3>1. CASE SyncEach
      <4>1. completes' = [completes EXCEPT ![k] = completes[k] + 1]
        BY <1>6, <3>1
      <4>2. completes[k] + 1 \in Nat
        BY <1>a, <1>b
      <4>3. QED
        BY <1>a, <1>11, <3>1, <4>1, <4>2
    <3>2. CASE ~ SyncEach
      BY <1>a, <1>7, <3>2
    <3>3. QED
      BY <3>1, <3>2
  <2>3. QED
    BY <1>3, <2>1, <2>2 DEF SimTypeOK
<1>14. OracleTracksEngine'
  <2> SUFFICES ASSUME NEW j \in Keys
               PROVE  /\ committed'[j] = OutcomeIn(index'[j])
                      /\ durable'[j] = OutcomeIn(Replay(disk')[j])
                      /\ index'[j].tag = "Completed" =>
                            committedFp'[j] = {index'[j].fingerprint}
    BY DEF OracleTracksEngine, OutcomeIn
  <2>1. /\ committed[j] = OutcomeIn(index[j])
        /\ durable[j] = OutcomeIn(Replay(disk)[j])
        /\ index[j].tag = "Completed" => committedFp[j] = {index[j].fingerprint}
    BY DEF SimInv, OracleTracksEngine
  <2>2. OutcomeIn(index'[j]) = IF j = k THEN w.outcome ELSE OutcomeIn(index[j])
    BY <1>2, <1>9 DEF OutcomeIn
  <2>3. committed'[j] = OutcomeIn(index'[j])
    BY <1>a, <1>5, <2>1, <2>2
  <2>4. durable'[j] = OutcomeIn(Replay(disk')[j])
    BY <1>7, <1>8, <1>11, <2>1, <2>2, EngineAssumption
  <2>5. QED
    BY <1>2, <1>5, <1>9, <1>a, <2>1, <2>3, <2>4
<1>15. DurableIsCurrent'
  <2>1. CASE SyncEach
    BY <1>8, <2>1 DEF DurableIsCurrent
  <2>2. CASE ~ SyncEach
    BY <1>1, <1>8, <1>9, <2>2 DEF SimInv, DurableIsCurrent
  <2>3. QED
    BY <2>1, <2>2, EngineAssumption
<1>16. VariantsStored'
  BY <1>b, <1>2, <1>8, <1>9, EngineAssumption, ZenonT(30) DEF SimInv, VariantsStored
<1>17. WorkersMatchKeys'
  <2>1. \A u \in tokens' : u \in tokens /\ u.key \in Keys
    BY <1>3, TokenWorker
  <2>2. QED
    BY <1>b, <1>1, <1>2, <1>3, <1>9, <2>1 DEF SimInv, WorkersMatchKeys
<1>18. CompletedOnce'
  BY <1>1, <1>2, <1>6, <1>9, <1>a, <1>b DEF SimInv, CompletedOnce
<1>19. QED
  BY <1>12, <1>13, <1>14, <1>15, <1>16, <1>17, <1>18 DEF SimInv, NeverPanics

\* do_complete when the engine refuses the outcome.
LEMMA DoCompleteAnswers ==
    ASSUME SimTypeOK, SimInv, NEW t \in tokens, DoComplete(t), TypeOK', EngineInv',
           CompleteDecision(index[t.key], t.fence) # "Ok"
    PROVE  SimTypeOK' /\ SimInv'
<1>1. /\ UNCHANGED <<index, disk, pending, attempts, nowMs, workers,
                     committed, durable, committedFp, completes>>
      /\ tokens' = tokens \ {t}
  BY DEF DoComplete, DoCompleteOk, DoCompleteRefused, Complete, storeVars
<1>2. panicked' = (\/ /\ CompleteDecision(index[t.key], t.fence) = "AlreadyCompleted"
                      /\ committed[t.key] = NoOutcome
                   \/ /\ CompleteDecision(index[t.key], t.fence) = "Unknown"
                      /\ SyncEach)
  BY DEF DoComplete, DoCompleteOk, DoCompleteRefused
<1>3. t.key \in Keys /\ index[t.key] \in KeyState \union {Absent}
  BY TokenWorker DEF SimTypeOK, TypeOK
<1>4. ~ panicked'
  <2>1. CASE index[t.key].tag = "Completed"
    <3>1. index[t.key].outcome \in Outcomes
      BY <1>3, <2>1, Tags DEF CompletedStates
    <3>2. committed[t.key] # NoOutcome
      BY <1>3, <2>1, <3>1, EngineAssumption DEF SimInv, OracleTracksEngine, OutcomeIn
    <3>3. CompleteDecision(index[t.key], t.fence) # "Unknown"
      BY <2>1 DEF CompleteDecision
    <3>4. QED
      BY <1>2, <3>2, <3>3
  <2>2. CASE index[t.key].tag = "Absent"
    <3>1. CompleteDecision(index[t.key], t.fence) = "Unknown"
      BY <2>2 DEF CompleteDecision
    <3>2. ~ SyncEach
      BY <2>2 DEF SimInv, WorkersMatchKeys
    <3>3. QED
      BY <1>2, <3>1, <3>2
  <2>3. CASE index[t.key].tag = "InProgress"
    BY <1>2, <2>3 DEF CompleteDecision
  <2>4. QED
    BY <1>3, <2>1, <2>2, <2>3, Tags
<1>5. SimTypeOK'
  BY <1>1 DEF SimTypeOK
<1>6. OracleTracksEngine' /\ DurableIsCurrent' /\ VariantsStored'
  BY <1>1 DEF SimInv, OracleTracksEngine, DurableIsCurrent, VariantsStored
<1>7. WorkersMatchKeys' /\ CompletedOnce'
  BY <1>1 DEF SimInv, WorkersMatchKeys, CompletedOnce
<1>8. QED
  BY <1>4, <1>5, <1>6, <1>7 DEF SimInv, NeverPanics

\* do_flush: what becomes durable is what the oracle took for committed.
LEMMA DoFlushKeeps ==
    ASSUME SimTypeOK, SimInv, DoFlush, TypeOK', EngineInv'
    PROVE  SimTypeOK' /\ SimInv'
<1>0. TypeOK /\ EngineInv
  BY DEF SimTypeOK, SimInv
<1>a. /\ disk \in Seq(Records) /\ disk' \in Seq(Records)
      /\ index \in [Keys -> KeyState \union {Absent}]
      /\ durable \in [Keys -> Outcomes \union {NoOutcome}]
      /\ committed \in [Keys -> Outcomes \union {NoOutcome}]
  BY DEF SimTypeOK, TypeOK
<1>1. /\ UNCHANGED <<index, tokens, attempts, nowMs, workers, committed, committedFp,
                     completes>>
      /\ pending' = <<>> /\ ~ SyncEach
  BY DEF DoFlush, Flush, vars, storeVars, history
<1>2. Replay(disk') = index
  <2>1. disk' \o <<>> = disk'
    BY <1>a
  <2>2. QED
    BY <1>1, <2>1 DEF EngineInv, IndexIsLogReplay
<1>3. \A k \in Keys : /\ committed[k] = OutcomeIn(index[k])
                      /\ durable[k] = OutcomeIn(Replay(disk)[k])
                      /\ index[k].tag = "Completed" =>
                            committedFp[k] = {index[k].fingerprint}
  BY DEF SimInv, OracleTracksEngine
<1>4. \A k \in Keys : durable[k] # NoOutcome => durable[k] = committed[k]
  BY <1>3 DEF SimInv, DurableIsCurrent, OutcomeIn
<1>5. durable' = committed
  <2>1. durable' = [k \in Keys |-> IF durable[k] # NoOutcome THEN durable[k]
                                   ELSE committed[k]]
    BY DEF DoFlush, MarkDurable
  <2>2. QED
    BY <1>a, <1>4, <2>1
<1>6. ~ panicked'
  BY <1>4 DEF DoFlush, DurableChanged
<1>7. SimTypeOK'
  BY <1>1, <1>5 DEF SimTypeOK
<1>8. OracleTracksEngine'
  BY <1>1, <1>2, <1>3, <1>5 DEF OracleTracksEngine, OutcomeIn
<1>9. DurableIsCurrent' /\ VariantsStored'
  BY <1>1, <1>2 DEF SimInv, DurableIsCurrent, VariantsStored
<1>10. WorkersMatchKeys' /\ CompletedOnce'
  BY <1>1 DEF SimInv, WorkersMatchKeys, CompletedOnce
<1>11. QED
  BY <1>6, <1>7, <1>8, <1>9, <1>10 DEF SimInv, NeverPanics

\* do_crash leaves the engine in a state it recovers from.
LEMMA DoCrashRecovers ==
    ASSUME SimTypeOK, SimInv, DoCrash
    PROVE  TypeOK' /\ EngineInv'
<1>0. TypeOK /\ EngineInv
  BY DEF SimTypeOK, SimInv
<1>1. StoreTypeOK
  BY <1>0 DEF TypeOK, StoreTypeOK
<1>2. /\ disk' = disk /\ index' = Replay(disk) /\ pending' = <<>>
      /\ nextFence' = MaxInProgressFence(Replay(disk)) + 1
      /\ acked' = acked /\ clock' = clock /\ tokens' = tokens
      /\ attempts' = attempts /\ committer' = committer
  BY DEF DoCrash, history
<1>3. disk \in Seq(Records) /\ nextFence \in Nat /\ clock' \in Instants
  BY <1>0, <1>2 DEF TypeOK
<1>4. \A k \in Keys : Replay(disk)[k].tag = "InProgress"
                            => Replay(disk)[k].fence <= nextFence
  <2> SUFFICES ASSUME NEW k \in Keys, Replay(disk)[k].tag = "InProgress"
               PROVE  Replay(disk)[k].fence <= nextFence
    OBVIOUS
  <2>1. Replay(disk)[k] \in InProgressStates
    BY <1>3, ReplayType, Tags
  <2>2. Replay(disk)[k].fence < nextFence
    BY <1>0 DEF EngineInv, FencesBelowNext
  <2>3. QED
    BY <1>3, <2>1, <2>2 DEF InProgressStates
<1>5. \A k \in Keys : acked[k] # Absent /\ clock' < ExpiresAt(acked[k])
                            => Replay(disk)[k] = acked[k]
  BY <1>0, <1>2 DEF EngineInv, AckedOutcomeSettled
<1>6. StoreTypeOK' /\ EngineInv'
  BY <1>1, <1>2, <1>3, <1>4, <1>5, ReopenEstablishesInv
<1>7. QED
  BY <1>0, <1>2, <1>6 DEF TypeOK, StoreTypeOK

\* do_crash: every key the oracle takes for durable is replayed.
LEMMA DoCrashKeeps ==
    ASSUME SimTypeOK, SimInv, DoCrash, TypeOK', EngineInv'
    PROVE  SimTypeOK' /\ SimInv'
<1>0. TypeOK /\ EngineInv
  BY DEF SimTypeOK, SimInv
<1>1. /\ UNCHANGED <<disk, tokens, attempts, nowMs, workers, durable, committedFp,
                     completes>>
      /\ index' = Replay(disk)
      /\ committed' = IF SyncEach THEN committed ELSE durable
  BY DEF DoCrash, history
<1>2. index' \in [Keys -> KeyState \union {Absent}]
  BY DEF TypeOK
<1>3. SyncEach => index' = index
  <2>1. disk \o <<>> = disk
    BY <1>0 DEF TypeOK
  <2>2. QED
    BY <1>0, <1>1, <2>1 DEF EngineInv, IndexIsLogReplay
<1>4. \A k \in Keys : index'[k].tag = "Completed" => index[k] = index'[k]
  BY <1>1 DEF SimInv, DurableIsCurrent
<1>5. SimTypeOK'
  BY <1>1 DEF SimTypeOK
<1>6. OracleTracksEngine'
  <2> SUFFICES ASSUME NEW k \in Keys
               PROVE  /\ committed'[k] = OutcomeIn(index'[k])
                      /\ durable'[k] = OutcomeIn(Replay(disk')[k])
                      /\ index'[k].tag = "Completed" =>
                            committedFp'[k] = {index'[k].fingerprint}
    BY DEF OracleTracksEngine, OutcomeIn
  <2>1. /\ committed[k] = OutcomeIn(index[k])
        /\ durable[k] = OutcomeIn(Replay(disk)[k])
        /\ index[k].tag = "Completed" => committedFp[k] = {index[k].fingerprint}
    BY DEF SimInv, OracleTracksEngine
  <2>2. QED
    BY <1>1, <1>3, <1>4, <2>1, EngineAssumption
<1>7. DurableIsCurrent' /\ VariantsStored'
  BY <1>1 DEF SimInv, DurableIsCurrent, VariantsStored
<1>8. WorkersMatchKeys' /\ CompletedOnce'
  BY <1>1, <1>3 DEF SimInv, WorkersMatchKeys, CompletedOnce
<1>9. ~ panicked'
  <2>1. ASSUME NEW k \in Keys, NEW fp \in Fingerprints,
               committed'[k] # NoOutcome, fp \in committedFp[k]
        PROVE  /\ BeginDecision(index'[k], fp, nowMs) = "Replay"
               /\ index'[k].outcome = committed'[k]
    <3>1. index'[k].tag = "Completed" /\ index'[k].outcome = committed'[k]
      BY <1>6, <2>1 DEF OracleTracksEngine, OutcomeIn
    <3>2. fp = index'[k].fingerprint
      BY <1>1, <1>6, <2>1, <3>1 DEF OracleTracksEngine
    <3>3. BeginDecision(index'[k], fp, nowMs) = "Replay"
      BY <1>2, <3>1, <3>2, CampaignDecision
    <3>4. QED
      BY <3>1, <3>3
  <2>2. QED
    BY <2>1 DEF DoCrash
<1>10. QED
  BY <1>5, <1>6, <1>7, <1>8, <1>9 DEF SimInv, NeverPanics

\* SimInv is inductive: one step for every operation of the simulation.
LEMMA SimInvNext ==
    ASSUME SimTypeOK, SimInv, [SimNext]_<<vars, simVars>>
    PROVE  SimTypeOK' /\ SimInv'
<1>0. TypeOK /\ EngineInv
  BY DEF SimTypeOK, SimInv
<1>a. [Next]_vars => TypeOK' /\ EngineInv'
  BY <1>0, EngineInvNext, TypeOKNext
<1>1. ASSUME NEW k \in Keys, NEW variant \in Variants, DoBegin(k, variant)
      PROVE  SimTypeOK' /\ SimInv'
  <2>1. Next
    BY <1>1, CallTypes DEF Next, DoBegin
  <2>2. QED
    BY <1>1, <1>a, <2>1, DoBeginStarts, DoBeginAnswers
<1>2. ASSUME NEW t \in tokens, DoComplete(t) PROVE SimTypeOK' /\ SimInv'
  <2>1. Next
    BY <1>2, CallTypes, TokenWorker DEF Next, DoComplete
  <2>2. QED
    BY <1>2, <1>a, <2>1, DoCompleteAccepted, DoCompleteAnswers
<1>3. CASE DoFlush
  <2>1. [Next]_vars
    BY <1>3 DEF DoFlush, Next
  <2>2. QED
    BY <1>3, <1>a, <2>1, DoFlushKeeps
<1>4. CASE DoAdvanceClock \/ UNCHANGED <<vars, simVars>>
  <2>1. /\ UNCHANGED <<vars, workers, oracleVars>>
        /\ nowMs' \in Nat /\ nowMs' < TtlMs
    <3>1. CASE DoAdvanceClock
      <4>1. PICK jump \in 1..(LeaseMs \div 2) \union LeaseMs..(2 * LeaseMs - 1) :
                jump > 0 /\ nowMs' = nowMs + jump
        BY <3>1 DEF DoAdvanceClock
      <4>2. jump \in Nat /\ nowMs \in Nat
        BY <4>1, DurationsAssumption DEF SimTypeOK
      <4>3. QED
        BY <3>1, <4>1, <4>2 DEF DoAdvanceClock
    <3>2. CASE UNCHANGED <<vars, simVars>>
      BY <3>2 DEF simVars, SimTypeOK
    <3>3. QED
      BY <1>4, <3>1, <3>2
  <2>2. TypeOK' /\ EngineInv'
    BY <1>a, <2>1
  <2>3. /\ UNCHANGED <<index, disk, pending, tokens, attempts, workers, committed,
                       durable, committedFp, completes, panicked>>
    BY <2>1 DEF vars, storeVars, history, oracleVars
  <2>4. SimTypeOK'
    BY <2>1, <2>2, <2>3 DEF SimTypeOK
  <2>5. OracleTracksEngine' /\ DurableIsCurrent' /\ VariantsStored'
    BY <2>3 DEF SimInv, OracleTracksEngine, DurableIsCurrent, VariantsStored
  <2>6. WorkersMatchKeys' /\ CompletedOnce' /\ NeverPanics'
    BY <2>3 DEF SimInv, WorkersMatchKeys, CompletedOnce, NeverPanics
  <2>7. QED
    BY <2>2, <2>4, <2>5, <2>6 DEF SimInv
<1>5. CASE DoCrash
  BY <1>5, DoCrashRecovers, DoCrashKeeps
<1>6. QED
  BY <1>1, <1>2, <1>3, <1>4, <1>5 DEF SimNext

\* The initial state of a campaign.
LEMMA SimInvInit == SimInit => SimTypeOK /\ SimInv
<1> SUFFICES ASSUME SimInit PROVE SimTypeOK /\ SimInv
  OBVIOUS
<1>1. TypeOK /\ EngineInv
  BY EngineInvInit DEF SimInit
<1>2. /\ index = [k \in Keys |-> Absent] /\ disk = <<>> /\ tokens = {} /\ attempts = 0
  BY DEF SimInit, Init
<1>3. Replay(disk) = index
  BY <1>2, ReplayEmpty
<1>4. SimTypeOK
  BY <1>1, <1>2, SimulationAssumption, DurationsAssumption DEF SimInit, SimTypeOK
<1>5. \A k \in Keys : index[k].tag = "Absent"
  BY <1>2 DEF Absent
<1>6. SimInv
  BY <1>1, <1>2, <1>3, <1>5
     DEF SimInit, SimInv, OracleTracksEngine, OutcomeIn, DurableIsCurrent,
         VariantsStored, WorkersMatchKeys, CompletedOnce, NeverPanics
<1>7. QED
  BY <1>4, <1>6

-----------------------------------------------------------------------------
\* No seed of the simulation makes one of its assertions fail, whichever
\* discipline the log has, for every number of keys, variants and attempts.
THEOREM NoSeedPanics == SimSpec => []NeverPanics
<1>1. SimTypeOK /\ SimInv => NeverPanics
  BY DEF SimInv
<1>2. QED
  BY <1>1, SimInvInit, SimInvNext, PTL DEF SimSpec

\* The oracle follows the engine exactly wherever the simulation drives it.
THEOREM OracleFollows == MCSpec => []SimulationTracksEngine
<1> DEFINE Inv == driver = "simulation" => SimTypeOK /\ SimInv
<1>1. MCInit => Inv
  BY SimInvInit DEF MCInit
<1>2. Inv /\ [MCNext /\ UNCHANGED driver]_<<vars, simVars, driver>> => Inv'
  <2> SUFFICES ASSUME Inv, [MCNext /\ UNCHANGED driver]_<<vars, simVars, driver>>,
                      driver' = "simulation"
               PROVE  (SimTypeOK /\ SimInv)'
    OBVIOUS
  <2>1. driver = "simulation"
    OBVIOUS
  <2>2. [SimNext]_<<vars, simVars>>
    BY <2>1 DEF MCNext
  <2>3. QED
    BY <2>1, <2>2, SimInvNext
<1>3. Inv => SimulationTracksEngine
  BY DEF SimInv, SimulationTracksEngine
<1>4. QED
  BY <1>1, <1>2, <1>3, PTL DEF MCSpec

=============================================================================
