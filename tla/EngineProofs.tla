---------------------------- MODULE EngineProofs ----------------------------
(***************************************************************************)
(* Theorems about Engine, for every set of keys, fingerprints and          *)
(* outcomes, every lease and time-to-live and any number of attempts.      *)
(***************************************************************************)
EXTENDS Engine, StateLemmas

-----------------------------------------------------------------------------
(***************************************************************************)
(* What replaying a log yields.                                            *)
(***************************************************************************)

\* The positions of the records of key k in a log.
Positions(log, k) == {i \in DOMAIN log : log[i].key = k}

\* What replaying a log yields for one key, in terms of the key's positions.
LEMMA ReplayAt ==
    ASSUME NEW log, NEW k \in Keys
    PROVE  Replay(log)[k] = IF Positions(log, k) = {} THEN Absent
                            ELSE log[Max(Positions(log, k))].state
BY DEF Replay, Positions

\* The last record of a key is one of its records.
LEMMA LastPosition ==
    ASSUME NEW log \in Seq(Records), NEW k \in Keys, Positions(log, k) # {}
    PROVE  Max(Positions(log, k)) \in Positions(log, k)
<1>1. Positions(log, k) \in SUBSET Nat /\ Len(log) \in Nat
  BY DEF Positions
<1>2. \A i \in Positions(log, k) : i <= Len(log)
  BY DEF Positions
<1>3. QED
  BY <1>1, <1>2, MaxProperty

\* Replay yields an index.
LEMMA ReplayType ==
    ASSUME NEW log \in Seq(Records)
    PROVE  Replay(log) \in [Keys -> KeyState \union {Absent}]
<1>1. ASSUME NEW k \in Keys PROVE Replay(log)[k] \in KeyState \union {Absent}
  <2>1. CASE Positions(log, k) = {}
    BY <2>1, ReplayAt
  <2>2. CASE Positions(log, k) # {}
    <3>1. Max(Positions(log, k)) \in DOMAIN log
      BY <2>2, LastPosition DEF Positions
    <3>2. log[Max(Positions(log, k))] \in Records
      BY <3>1
    <3>3. QED
      BY <2>2, <3>2, ReplayAt DEF Records
  <2>3. QED
    BY <2>1, <2>2
<1>2. Replay(log) = [k \in Keys |-> Replay(log)[k]]
  BY DEF Replay
<1>3. QED
  BY <1>1, <1>2

\* An empty log yields an empty index.
LEMMA ReplayEmpty == Replay(<<>>) = [k \in Keys |-> Absent]
BY DEF Replay

\* Appending a record sets the state of its key and nothing else.
LEMMA ReplayAppend ==
    ASSUME NEW log \in Seq(Records), NEW r \in Records
    PROVE  Replay(Append(log, r)) = [Replay(log) EXCEPT ![r.key] = r.state]
<1> DEFINE new == Append(log, r)
<1>1. new \in Seq(Records) /\ Len(new) = Len(log) + 1 /\ r.key \in Keys
  BY DEF Records
<1>2. ASSUME NEW k \in Keys, k # r.key PROVE Replay(new)[k] = Replay(log)[k]
  <2>1. Positions(new, k) = Positions(log, k)
    BY <1>2 DEF Positions
  <2>2. CASE Positions(log, k) = {}
    BY <2>1, <2>2, ReplayAt
  <2>3. CASE Positions(log, k) # {}
    <3>1. Max(Positions(log, k)) \in 1..Len(log)
      BY <2>3, LastPosition DEF Positions
    <3>2. new[Max(Positions(log, k))] = log[Max(Positions(log, k))]
      BY <3>1
    <3> HIDE DEF new
    <3>3. QED
      BY <2>1, <2>3, <3>2, ReplayAt
  <2>4. QED
    BY <2>2, <2>3
<1>3. Replay(new)[r.key] = r.state
  <2>1. Len(new) \in Positions(new, r.key)
    BY <1>1 DEF Positions
  <2>2. \A i \in Positions(new, r.key) : i <= Len(new)
    BY DEF Positions
  <2>3. Positions(new, r.key) \in SUBSET Nat /\ Len(new) \in Nat
    BY <1>1 DEF Positions
  <2>4. Max(Positions(new, r.key)) = Len(new)
    <3> HIDE DEF new
    <3>1. /\ Max(Positions(new, r.key)) \in Positions(new, r.key)
          /\ \A x \in Positions(new, r.key) : x <= Max(Positions(new, r.key))
      BY <2>1, <2>2, <2>3, MaxProperty
    <3>2. QED
      BY <3>1, <2>1, <2>2, <2>3
  <2>5. new[Len(new)] = r
    BY <1>1
  <2> HIDE DEF new
  <2>6. QED
    BY <1>1, <2>1, <2>4, <2>5, ReplayAt
<1>4. QED
  BY <1>1, <1>2, <1>3 DEF Replay

\* Records of other keys do not disturb a key, wherever a log is cut.
LEMMA ReplayOther ==
    ASSUME NEW log \in Seq(Records), NEW s \in Seq(Records), NEW k \in Keys,
           \A i \in DOMAIN s : s[i].key # k
    PROVE  Replay(log \o s)[k] = Replay(log)[k]
<1> DEFINE new == log \o s
<1>1. new \in Seq(Records) /\ Len(new) = Len(log) + Len(s)
  OBVIOUS
<1>2. \A i \in 1..Len(log) : new[i] = log[i]
  OBVIOUS
<1>3. \A i \in (Len(log) + 1)..Len(new) :
            i - Len(log) \in DOMAIN s /\ new[i] = s[i - Len(log)]
  BY <1>1
<1> SUFFICES Replay(new)[k] = Replay(log)[k]
  OBVIOUS
<1> HIDE DEF new
<1>4. Positions(new, k) = Positions(log, k)
  <2>1. DOMAIN new = 1..Len(new) /\ DOMAIN log = 1..Len(log)
    BY <1>1
  <2>2. ASSUME NEW i \in DOMAIN new, i \notin DOMAIN log PROVE new[i].key # k
    <3>1. i \in (Len(log) + 1)..Len(new)
      BY <2>1, <2>2, <1>1
    <3>2. QED
      BY <3>1, <1>3
  <2>3. DOMAIN log \subseteq DOMAIN new
    BY <2>1, <1>1
  <2>4. QED
    BY <2>1, <2>2, <2>3, <1>2 DEF Positions
<1>5. CASE Positions(log, k) = {}
  BY <1>4, <1>5, ReplayAt
<1>6. CASE Positions(log, k) # {}
  <2>1. Max(Positions(log, k)) \in 1..Len(log)
    BY <1>6, LastPosition DEF Positions
  <2>2. new[Max(Positions(log, k))] = log[Max(Positions(log, k))]
    BY <2>1, <1>2
  <2>3. QED
    BY <1>4, <1>6, <2>2, ReplayAt
<1>7. QED
  BY <1>5, <1>6

\* Appending any records to a log leaves a key as it was or gives it the state
\* of one of them.
LEMMA ReplayConcat ==
    ASSUME NEW log \in Seq(Records), NEW s \in Seq(Records), NEW k \in Keys
    PROVE  \/ Replay(log \o s)[k] = Replay(log)[k]
           \/ \E i \in DOMAIN s : Replay(log \o s)[k] = s[i].state
<1> DEFINE new == log \o s
<1>1. CASE \A i \in DOMAIN s : s[i].key # k
  BY <1>1, ReplayOther
<1>2. CASE \E i \in DOMAIN s : s[i].key = k
  <2>1. PICK i \in DOMAIN s : s[i].key = k
    BY <1>2
  <2>2. new \in Seq(Records) /\ Len(new) = Len(log) + Len(s)
    OBVIOUS
  <2>3. Len(log) + i \in Positions(new, k)
    BY <2>1, <2>2 DEF Positions
  <2>4. Positions(new, k) \in SUBSET Nat /\ Len(new) \in Nat
        /\ \A x \in Positions(new, k) : x <= Len(new)
    BY <2>2 DEF Positions
  <2> DEFINE m == Max(Positions(new, k))
  <2>5. m \in Positions(new, k) /\ Len(log) + i <= m
    <3> HIDE DEF new
    <3>1. QED
      BY <2>3, <2>4, MaxProperty
  <2>6. m \in 1..Len(new) /\ m - Len(log) \in DOMAIN s
    <3> HIDE DEF m, new
    <3>0. DOMAIN new = 1..Len(new)
      BY <2>2
    <3>1. m \in 1..Len(new)
      BY <2>5, <3>0 DEF Positions
    <3>2. i \in Nat \ {0} /\ DOMAIN s = 1..Len(s) /\ Len(log) \in Nat
      BY <2>1
    <3>3. QED
      BY <2>2, <2>5, <3>1, <3>2
  <2>7. new[m] = s[m - Len(log)]
    <3> HIDE DEF m
    <3>1. QED
      BY <2>6, <2>2, <2>5
  <2>8. Replay(new)[k] = new[m].state
    <3> HIDE DEF new
    <3>1. QED
      BY <2>3, ReplayAt
  <2>9. QED
    BY <2>6, <2>7, <2>8
<1>3. QED
  BY <1>1, <1>2

\* A compacted log is a log, and yields the index it was written from.
LEMMA ReplayCompacted ==
    ASSUME NEW ix \in [Keys -> KeyState \union {Absent}],
           NEW log \in CompactedLogs(ix), IsFiniteSet(Keys)
    PROVE  log \in Seq(Records) /\ Replay(log) = ix
<1> DEFINE S == {k \in Keys : ix[k] # Absent}
<1>1. IsFiniteSet(S) /\ Cardinality(S) \in Nat
  BY FS_Subset, FS_CardinalityType
<1>2. PICK ks \in SetToSeqs(S) :
            log = [i \in DOMAIN ks |-> [key |-> ks[i], state |-> ix[ks[i]]]]
  BY DEF CompactedLogs
<1> DEFINE n == Cardinality(S)
<1>3. /\ ks \in [1..n -> S]
      /\ \A i, j \in 1..n : i # j => ks[i] # ks[j]
  BY <1>2 DEF SetToSeqs
<1>4. \A k \in S : \E i \in 1..n : ks[i] = k
  <2> HIDE DEF S
  <2>1. ks \in Injection(1..n, S)
    BY <1>3 DEF Injection, IsInjective
  <2>2. IsFiniteSet(1..n) /\ Cardinality(1..n) = n
    BY <1>1, FS_Interval
  <2>3. QED
    BY <2>1, <2>2, <1>1, FS_Injection DEF Surjection
<1>5. \A k \in S : k \in Keys /\ ix[k] \in KeyState
  OBVIOUS
<1>6. \A k \in Keys : k \notin S => ix[k] = Absent
  OBVIOUS
<1>7. n \in Nat
  BY <1>1
<1> HIDE DEF n, S
<1>8. DOMAIN log = 1..n /\ log = [i \in 1..n |-> log[i]]
  BY <1>2, <1>3
<1>9. \A i \in 1..n : ks[i] \in S
  BY <1>3
<1>10. ASSUME NEW i \in 1..n
       PROVE  log[i].key = ks[i] /\ log[i].state = ix[ks[i]] /\ log[i] \in Records
  <2>1. log[i] = [key |-> ks[i], state |-> ix[ks[i]]]
    BY <1>2, <1>3
  <2>2. QED
    BY <1>5, <1>9, <2>1 DEF Records
<1>11. log \in Seq(Records)
  <2>1. \A i \in 1..n : log[i] \in Records
    BY <1>10
  <2>2. QED
    BY <1>7, <1>8, <2>1
<1>12. ASSUME NEW k \in Keys PROVE Replay(log)[k] = ix[k]
  <2>1. CASE k \notin S
    <3>1. Positions(log, k) = {}
      BY <1>8, <1>9, <1>10, <2>1 DEF Positions
    <3>2. QED
      BY <1>6, <2>1, <3>1, ReplayAt
  <2>2. CASE k \in S
    <3>1. Positions(log, k) # {}
      BY <1>4, <1>8, <1>10, <2>2 DEF Positions
    <3>2. Max(Positions(log, k)) \in Positions(log, k)
      BY <1>11, <3>1, LastPosition
    <3>3. log[Max(Positions(log, k))].state = ix[k]
      BY <1>8, <1>10, <3>2 DEF Positions
    <3>4. QED
      BY <3>1, <3>3, ReplayAt
  <2>3. QED
    BY <2>1, <2>2
<1>13. Replay(log) = [k \in Keys |-> Replay(log)[k]]
  BY DEF Replay
<1>14. QED
  BY <1>11, <1>12, <1>13

\* The counter Engine::with_ttl seeds is above every recovered lease.
LEMMA MaxFenceProperty ==
    ASSUME NEW ix \in [Keys -> KeyState \union {Absent}], NEW b \in Nat,
           \A k \in Keys : ix[k].tag = "InProgress" => ix[k].fence <= b
    PROVE  /\ MaxInProgressFence(ix) \in Nat
           /\ \A k \in Keys :
                ix[k].tag = "InProgress" => ix[k].fence <= MaxInProgressFence(ix)
<1> DEFINE leased == {j \in Keys : ix[j].tag = "InProgress"}
           F == {ix[k].fence : k \in leased}
<1>1. \A k \in leased : ix[k] \in InProgressStates
  BY Tags
<1>2. F \in SUBSET Nat /\ \A x \in F : x <= b
  BY <1>1 DEF InProgressStates
<1>3. MaxInProgressFence(ix) = IF F = {} THEN 0 ELSE Max(F)
  BY DEF MaxInProgressFence
<1>4. CASE F = {}
  BY <1>3, <1>4
<1>5. CASE F # {}
  <2>1. \A k \in Keys : ix[k].tag = "InProgress" => ix[k].fence \in F
    OBVIOUS
  <2> HIDE DEF F
  <2>2. Max(F) \in F /\ \A x \in F : x <= Max(F)
    BY <1>2, <1>5, MaxProperty
  <2>3. QED
    BY <1>2, <1>3, <1>5, <2>1, <2>2
<1>6. QED
  BY <1>4, <1>5

-----------------------------------------------------------------------------
(***************************************************************************)
(* The invariant of the store.                                             *)
(***************************************************************************)

\* The part of TypeOK about the store, the fence counter and the history that
\* the lemmas below re-establish.
StoreTypeOK ==
    /\ index \in [Keys -> KeyState \union {Absent}]
    /\ disk \in Seq(Records)
    /\ pending \in Seq(Records)
    /\ nextFence \in Nat \ {0}
    /\ acked \in [Keys -> CompletedStates \union {Absent}]
    /\ clock \in Instants

\* The latest reading of the clock is a reading, and bounds both.
LEMMA LaterProperty ==
    ASSUME NEW now \in Instants, clock \in Instants
    PROVE  Later(now) \in Instants /\ Later(now) >= now /\ Later(now) >= clock
BY DurationsAssumption DEF Later, Instants

\* WalStore::put keeps the invariant if the state it writes has a fence below
\* the counter and its key has no completion in force at `now`.
LEMMA PutKeepsInv ==
    ASSUME StoreTypeOK, EngineInv,
           NEW k \in Keys, NEW s \in KeyState, NEW now \in Instants,
           Put(k, s), clock' = Later(now),
           nextFence' \in Nat \ {0}, nextFence' >= nextFence,
           s.tag = "InProgress" => s.fence < nextFence',
           index[k].tag = "Completed" => now >= ExpiresAt(index[k])
    PROVE  StoreTypeOK' /\ EngineInv'
<1> DEFINE r == [key |-> k, state |-> s]
<1>1. r \in Records /\ r.key = k /\ r.state = s
  BY DEF Records
<1> HIDE DEF r
<1>2. /\ index \in [Keys -> KeyState \union {Absent}]
      /\ disk \in Seq(Records) /\ pending \in Seq(Records)
      /\ nextFence \in Nat \ {0}
      /\ acked \in [Keys -> CompletedStates \union {Absent}]
      /\ clock \in Instants
  BY DEF StoreTypeOK
<1>3. /\ index' = [index EXCEPT ![k] = s]
      /\ disk' = IF SyncEach THEN disk \o Append(pending, r) ELSE disk
      /\ pending' = IF SyncEach THEN <<>> ELSE Append(pending, r)
      /\ acked' = IF SyncEach THEN Acknowledged(index') ELSE acked
  BY DEF Put, r
<1>4. /\ clock' \in Instants /\ clock' >= now /\ clock' >= clock
  BY <1>2, LaterProperty
<1>5. index' \in [Keys -> KeyState \union {Absent}]
  BY <1>2, <1>3
<1>6. Append(pending, r) \in Seq(Records) /\ disk' \in Seq(Records)
      /\ pending' \in Seq(Records) /\ disk' \o pending' = Append(disk \o pending, r)
  BY <1>1, <1>2, <1>3
<1>7. IndexIsLogReplay'
  <2>1. disk \o pending \in Seq(Records)
    BY <1>2
  <2>2. Replay(Append(disk \o pending, r)) = [Replay(disk \o pending) EXCEPT ![k] = s]
    BY <1>1, <2>1, ReplayAppend
  <2>3. QED
    BY <1>3, <1>6, <2>2 DEF EngineInv, IndexIsLogReplay
<1>8. acked' \in [Keys -> CompletedStates \union {Absent}]
  BY <1>2, <1>3, <1>5, Tags DEF Acknowledged
<1>9. (SyncEach => pending = <<>>)'
  BY <1>3
<1>10. SyncEach => Replay(disk') = index'
  BY <1>3, <1>6, <1>7 DEF IndexIsLogReplay
<1>11. FencesBelowNext'
  <2>1. ASSUME NEW j \in Keys, index'[j].tag = "InProgress"
        PROVE  index'[j].fence < nextFence'
    <3>1. CASE j = k
      BY <3>1, <2>1, <1>2, <1>3
    <3>2. CASE j # k
      <4>1. index[j].fence < nextFence /\ index[j] \in InProgressStates
        BY <3>2, <2>1, <1>2, <1>3, Tags DEF EngineInv, FencesBelowNext
      <4>2. QED
        BY <4>1, <3>2, <1>2, <1>3 DEF InProgressStates
    <3>3. QED
      BY <3>1, <3>2
  <2>2. ASSUME NEW j \in Keys, Replay(disk')[j].tag = "InProgress"
        PROVE  Replay(disk')[j].fence < nextFence'
    <3>1. CASE SyncEach
      BY <3>1, <2>1, <2>2, <1>10
    <3>2. CASE ~ SyncEach
      <4>1. Replay(disk)[j].fence < nextFence /\ Replay(disk)[j] \in InProgressStates
        BY <3>2, <2>2, <1>2, <1>3, Tags, ReplayType DEF EngineInv, FencesBelowNext
      <4>2. QED
        BY <4>1, <3>2, <1>2, <1>3 DEF InProgressStates
    <3>3. QED
      BY <3>1, <3>2
  <2>3. ASSUME NEW i \in DOMAIN pending', pending'[i].state.tag = "InProgress"
        PROVE  pending'[i].state.fence < nextFence'
    <3>1. ~ SyncEach /\ pending' = Append(pending, r)
      BY <2>3, <1>3
    <3>2. CASE i = Len(pending) + 1
      BY <3>1, <3>2, <2>3, <1>1, <1>2
    <3>3. CASE i # Len(pending) + 1
      <4>1. i \in DOMAIN pending /\ pending'[i] = pending[i]
        BY <3>1, <3>3, <1>2
      <4>2. pending[i] \in Records
        BY <4>1, <1>2
      <4>3. pending[i].state \in InProgressStates
        BY <4>1, <4>2, <2>3, Tags DEF Records
      <4>4. pending[i].state.fence < nextFence
        BY <4>1, <2>3 DEF EngineInv, FencesBelowNext
      <4>5. QED
        BY <4>1, <4>3, <4>4, <1>2 DEF InProgressStates
    <3>4. QED
      BY <3>2, <3>3
  <2>4. QED
    BY <2>1, <2>2, <2>3 DEF FencesBelowNext
<1>12. AckedOutcomeSettled'
  <2>1. ASSUME NEW j \in Keys, acked[j] # Absent, clock' < ExpiresAt(acked[j])
        PROVE  /\ j # k /\ index[j] = acked[j] /\ Replay(disk)[j] = acked[j]
               /\ \A i \in DOMAIN pending : pending[i].key # j
               /\ index'[j] = acked[j] /\ acked[j].tag = "Completed"
    <3>1. acked[j] \in CompletedStates /\ acked[j].tag = "Completed"
      BY <2>1, <1>2 DEF CompletedStates
    <3>2. ExpiresAt(acked[j]) \in Instants
      BY <3>1, ExpiresAtType
    <3>3. clock < ExpiresAt(acked[j]) /\ now < ExpiresAt(acked[j])
      BY <2>1, <3>2, <1>2, <1>4, DurationsAssumption DEF Instants
    <3>4. index[j] = acked[j] /\ Replay(disk)[j] = acked[j]
          /\ \A i \in DOMAIN pending : pending[i].key # j
      BY <2>1, <3>3 DEF EngineInv, AckedOutcomeSettled
    <3>5. j # k
      BY <3>1, <3>2, <3>3, <3>4, DurationsAssumption DEF Instants
    <3>6. QED
      BY <3>1, <3>4, <3>5, <1>2, <1>3
  <2>2. SUFFICES ASSUME NEW j \in Keys, acked'[j] # Absent,
                        clock' < ExpiresAt(acked'[j])
                 PROVE  /\ index'[j] = acked'[j] /\ Replay(disk')[j] = acked'[j]
                        /\ \A i \in DOMAIN pending' : pending'[i].key # j
    BY DEF AckedOutcomeSettled, ExpiresAt
  <2>3. CASE SyncEach
    <3>1. acked'[j] = IF index'[j].tag = "Completed" THEN index'[j] ELSE acked[j]
      BY <2>3, <1>3 DEF Acknowledged
    <3>2. index'[j] = acked'[j]
      BY <3>1, <2>1, <2>2
    <3>3. pending' = <<>>
      BY <2>3, <1>3
    <3>4. QED
      BY <2>3, <3>2, <3>3, <1>10
  <2>4. CASE ~ SyncEach
    <3>1. acked' = acked /\ disk' = disk /\ pending' = Append(pending, r)
      BY <2>4, <1>3
    <3>2. /\ j # k /\ Replay(disk)[j] = acked[j] /\ index'[j] = acked[j]
          /\ \A i \in DOMAIN pending : pending[i].key # j
      BY <2>1, <2>2, <3>1
    <3>3. \A i \in DOMAIN pending' : pending'[i].key # j
      BY <3>1, <3>2, <1>1, <1>2
    <3>4. QED
      BY <3>1, <3>2, <3>3
  <2>5. QED
    BY <2>3, <2>4
<1>13. QED
  BY <1>4, <1>5, <1>6, <1>7, <1>8, <1>9, <1>11, <1>12
     DEF StoreTypeOK, EngineInv

\* Reopening a log establishes the invariant if the fences it recovers are
\* bounded and it still yields every completion in force.
LEMMA ReopenEstablishesInv ==
    ASSUME StoreTypeOK, NEW log \in Seq(Records),
           disk' = log, index' = Replay(log), pending' = <<>>,
           nextFence' = MaxInProgressFence(Replay(log)) + 1,
           acked' = acked, clock' \in Instants, NEW b \in Nat,
           \A k \in Keys : Replay(log)[k].tag = "InProgress"
                                => Replay(log)[k].fence <= b,
           \A k \in Keys : acked[k] # Absent /\ clock' < ExpiresAt(acked[k])
                                => Replay(log)[k] = acked[k]
    PROVE  StoreTypeOK' /\ EngineInv'
<1>1. /\ disk' = log /\ index' = Replay(log) /\ pending' = <<>>
      /\ nextFence' = MaxInProgressFence(Replay(log)) + 1
  OBVIOUS
<1>2. Replay(log) \in [Keys -> KeyState \union {Absent}]
  BY ReplayType
<1>3. /\ MaxInProgressFence(Replay(log)) \in Nat
      /\ \A k \in Keys : Replay(log)[k].tag = "InProgress"
                => Replay(log)[k].fence <= MaxInProgressFence(Replay(log))
  BY <1>2, MaxFenceProperty
<1>4. StoreTypeOK'
  BY <1>1, <1>2, <1>3 DEF StoreTypeOK
<1>5. IndexIsLogReplay'
  BY <1>1 DEF IndexIsLogReplay
<1>6. FencesBelowNext'
  <2>1. \A k \in Keys : Replay(log)[k].tag = "InProgress"
                => Replay(log)[k].fence \in Nat
    BY <1>2, Tags DEF InProgressStates
  <2>2. QED
    BY <1>1, <1>3, <2>1 DEF FencesBelowNext
<1>7. AckedOutcomeSettled'
  BY <1>1 DEF AckedOutcomeSettled, ExpiresAt
<1>8. QED
  BY <1>1, <1>4, <1>5, <1>6, <1>7 DEF EngineInv

\* A completion in force is not expired at an earlier reading of the clock.
LEMMA InForceEarlier ==
    ASSUME StoreTypeOK, NEW k \in Keys, acked[k] # Absent,
           NEW t \in Instants, t >= clock, t < ExpiresAt(acked[k])
    PROVE  /\ clock < ExpiresAt(acked[k])
           /\ acked[k] \in CompletedStates
           /\ acked[k].tag = "Completed"
           /\ ExpiresAt(acked[k]) \in Instants
<1>1. acked[k] \in CompletedStates /\ acked[k].tag = "Completed"
  BY DEF StoreTypeOK, CompletedStates
<1>2. ExpiresAt(acked[k]) \in Instants
  BY <1>1, ExpiresAtType
<1>3. QED
  BY <1>1, <1>2, DurationsAssumption DEF StoreTypeOK, Instants

\* The fences of Replay(disk) and of the buffer bound those of every log a
\* crash can leave.
LEMMA CrashFences ==
    ASSUME StoreTypeOK, EngineInv, NEW s \in Seq(Records),
           \A i \in DOMAIN s : s[i].state.tag = "InProgress"
                                    => s[i].state.fence <= nextFence
    PROVE  \A k \in Keys : Replay(disk \o s)[k].tag = "InProgress"
                                => Replay(disk \o s)[k].fence <= nextFence
<1> SUFFICES ASSUME NEW k \in Keys, Replay(disk \o s)[k].tag = "InProgress"
             PROVE  Replay(disk \o s)[k].fence <= nextFence
  OBVIOUS
<1>1. disk \in Seq(Records) /\ nextFence \in Nat
  BY DEF StoreTypeOK
<1>2. CASE Replay(disk \o s)[k] = Replay(disk)[k]
  <2>1. Replay(disk)[k] \in InProgressStates
    BY <1>1, <1>2, ReplayType, Tags
  <2>2. Replay(disk)[k].fence < nextFence
    BY <1>2 DEF EngineInv, FencesBelowNext
  <2>3. QED
    BY <1>1, <1>2, <2>1, <2>2 DEF InProgressStates
<1>3. CASE \E i \in DOMAIN s : Replay(disk \o s)[k] = s[i].state
  BY <1>3
<1>4. QED
  BY <1>1, <1>2, <1>3, ReplayConcat

\* EngineInv is inductive: one step for every action.
LEMMA EngineInvNext ==
    TypeOK /\ EngineInv /\ [Next]_vars => StoreTypeOK' /\ EngineInv'
<1> SUFFICES ASSUME TypeOK, EngineInv, [Next]_vars
             PROVE  StoreTypeOK' /\ EngineInv'
  OBVIOUS
<1>0. StoreTypeOK
  BY DEF TypeOK, StoreTypeOK
<1>a. /\ index \in [Keys -> KeyState \union {Absent}]
      /\ disk \in Seq(Records) /\ pending \in Seq(Records)
      /\ nextFence \in Nat \ {0} /\ attempts \in Nat
      /\ acked \in [Keys -> CompletedStates \union {Absent}]
      /\ clock \in Instants
  BY EngineAssumption DEF TypeOK
<1>1. ASSUME NEW k \in Keys, NEW fp \in Fingerprints, NEW now \in Instants,
             Begin(k, fp, now)
      PROVE  StoreTypeOK' /\ EngineInv'
  <2>1. CASE BeginDecision(index[k], fp, now) = "Start"
    <3> DEFINE s == StartState(nextFence, fp, now, attempts + 1)
    <3>1. s \in KeyState /\ s.tag = "InProgress" /\ s.fence = nextFence
      BY <1>a, StartStateType
    <3>2. Put(k, s) /\ clock' = Later(now) /\ nextFence' = nextFence + 1
      BY <1>1, <2>1 DEF Begin
    <3>3. index[k].tag = "Completed" => now >= ExpiresAt(index[k])
      BY <1>a, <2>1, StartFindsNothingInForce
    <3> HIDE DEF s
    <3>4. s.fence < nextFence' /\ nextFence' \in Nat \ {0} /\ nextFence' >= nextFence
      BY <1>a, <3>1, <3>2
    <3>5. QED
      BY <1>0, <3>1, <3>2, <3>3, <3>4, PutKeepsInv
  <2>2. CASE BeginDecision(index[k], fp, now) # "Start"
    <3>1. UNCHANGED <<index, disk, pending, nextFence, acked>> /\ clock' = Later(now)
      BY <1>1, <2>2 DEF Begin, storeVars
    <3>2. clock' \in Instants /\ clock' >= clock
      BY <1>a, <3>1, LaterProperty
    <3>3. StoreTypeOK'
      BY <1>0, <3>1, <3>2 DEF StoreTypeOK
    <3>4. IndexIsLogReplay' /\ FencesBelowNext' /\ (SyncEach => pending' = <<>>)
      BY <3>1 DEF EngineInv, IndexIsLogReplay, FencesBelowNext
    <3>5. AckedOutcomeSettled'
      BY <1>0, <3>1, <3>2, InForceEarlier DEF EngineInv, AckedOutcomeSettled, ExpiresAt
    <3>6. QED
      BY <3>3, <3>4, <3>5 DEF EngineInv
  <2>3. QED
    BY <2>1, <2>2
<1>2. ASSUME NEW t \in tokens, NEW o \in Outcomes, NEW now \in Instants,
             Complete(t, o, now)
      PROVE  StoreTypeOK' /\ EngineInv'
  <2>0. t.key \in Keys
    BY DEF TypeOK, Tokens
  <2>1. CASE CompleteDecision(index[t.key], t.fence) = "Ok"
    <3> DEFINE s == Completed(index[t.key].fingerprint, o, now)
    <3>1. index[t.key].tag = "InProgress"
      BY <1>a, <2>0, <2>1, Tags DEF CompleteDecision
    <3>2. index[t.key].fingerprint \in Fingerprints
      BY <1>a, <2>0, <3>1, Tags DEF InProgressStates
    <3>3. s \in KeyState /\ s.tag = "Completed"
      BY <3>2, CompletedType
    <3>4. Put(t.key, s) /\ clock' = Later(now) /\ nextFence' = nextFence
      BY <1>2, <2>1 DEF Complete
    <3> HIDE DEF s
    <3>5. QED
      BY <1>0, <1>a, <2>0, <3>1, <3>3, <3>4, PutKeepsInv
  <2>2. CASE CompleteDecision(index[t.key], t.fence) # "Ok"
    <3>1. UNCHANGED <<index, disk, pending, nextFence, acked>> /\ clock' = Later(now)
      BY <1>2, <2>2 DEF Complete, storeVars
    <3>2. clock' \in Instants /\ clock' >= clock
      BY <1>a, <3>1, LaterProperty
    <3>3. StoreTypeOK'
      BY <1>0, <3>1, <3>2 DEF StoreTypeOK
    <3>4. IndexIsLogReplay' /\ FencesBelowNext' /\ (SyncEach => pending' = <<>>)
      BY <3>1 DEF EngineInv, IndexIsLogReplay, FencesBelowNext
    <3>5. AckedOutcomeSettled'
      BY <1>0, <3>1, <3>2, InForceEarlier DEF EngineInv, AckedOutcomeSettled, ExpiresAt
    <3>6. QED
      BY <3>3, <3>4, <3>5 DEF EngineInv
  <2>3. QED
    BY <2>1, <2>2
<1>3. ASSUME NEW now \in Instants, PruneExpired(now)
      PROVE  StoreTypeOK' /\ EngineInv'
  <2>1. /\ index' = [k \in Keys |->
                        IF PruneKeeps(index[k], now) THEN index[k] ELSE Absent]
        /\ disk' \in CompactedLogs(index') /\ pending' = <<>>
        /\ clock' = Later(now) /\ nextFence' = nextFence /\ acked' = acked
    BY <1>3 DEF PruneExpired
  <2>2. index' \in [Keys -> KeyState \union {Absent}]
    BY <1>a, <2>1
  <2>3. disk' \in Seq(Records) /\ Replay(disk') = index'
    BY <2>1, <2>2, ReplayCompacted, EngineAssumption
  <2>4. clock' \in Instants /\ clock' >= clock /\ clock' >= now
    BY <1>a, <2>1, LaterProperty
  <2>5. StoreTypeOK'
    BY <1>a, <2>1, <2>2, <2>3, <2>4 DEF StoreTypeOK
  <2>6. IndexIsLogReplay'
    BY <2>1, <2>3 DEF IndexIsLogReplay
  <2>7. FencesBelowNext'
    <3>1. \A k \in Keys : index'[k].tag = "InProgress" => index'[k] = index[k]
      BY <2>1 DEF Absent
    <3>2. QED
      BY <2>1, <2>3, <3>1 DEF EngineInv, FencesBelowNext
  <2>8. AckedOutcomeSettled'
    <3>1. ASSUME NEW k \in Keys, acked[k] # Absent, clock' < ExpiresAt(acked[k])
          PROVE  index'[k] = acked[k]
      <4>1. /\ clock < ExpiresAt(acked[k]) /\ ExpiresAt(acked[k]) \in Instants
        BY <1>0, <2>4, <3>1, InForceEarlier
      <4>2. index[k] = acked[k]
        BY <3>1, <4>1 DEF EngineInv, AckedOutcomeSettled
      <4>3. now < ExpiresAt(acked[k])
        BY <2>4, <3>1, <4>1, DurationsAssumption DEF Instants
      <4>4. QED
        BY <2>1, <4>2, <4>3 DEF PruneKeeps
    <3>2. QED
      BY <2>1, <2>3, <3>1 DEF AckedOutcomeSettled, ExpiresAt
  <2>9. QED
    BY <2>1, <2>5, <2>6, <2>7, <2>8 DEF EngineInv
<1>4. CASE Flush
  <2>1. /\ disk' = disk \o pending /\ pending' = <<>> /\ index' = index
        /\ acked' = Acknowledged(index) /\ nextFence' = nextFence /\ clock' = clock
    BY <1>4 DEF Flush
  <2>2. disk' \in Seq(Records) /\ Replay(disk') = index
    BY <1>a, <2>1 DEF EngineInv, IndexIsLogReplay
  <2>3. acked' \in [Keys -> CompletedStates \union {Absent}]
    BY <1>a, <2>1, Tags DEF Acknowledged
  <2>4. StoreTypeOK'
    BY <1>a, <2>1, <2>2, <2>3 DEF StoreTypeOK
  <2>5. IndexIsLogReplay'
    BY <2>1, <2>2 DEF IndexIsLogReplay
  <2>6. FencesBelowNext'
    BY <2>1, <2>2 DEF EngineInv, FencesBelowNext
  <2>7. AckedOutcomeSettled'
    <3>1. \A k \in Keys : acked'[k] = IF index[k].tag = "Completed"
                                      THEN index[k] ELSE acked[k]
      BY <2>1 DEF Acknowledged
    <3>2. ASSUME NEW k \in Keys, acked'[k] # Absent, clock' < ExpiresAt(acked'[k])
          PROVE  index[k] = acked'[k]
      BY <2>1, <3>1, <3>2 DEF EngineInv, AckedOutcomeSettled
    <3>3. QED
      BY <2>1, <2>2, <3>2 DEF AckedOutcomeSettled, ExpiresAt
  <2>8. QED
    BY <2>1, <2>4, <2>5, <2>6, <2>7 DEF EngineInv
<1>5. CASE Crash
  <2>1. PICK n \in 0..Len(pending) : Reopen(disk \o SubSeq(pending, 1, n), tokens)
    BY <1>5 DEF Crash
  <2>2. acked' = acked /\ clock' = clock
    BY <1>5 DEF Crash, history
  <2> DEFINE s == SubSeq(pending, 1, n)
  <2>3. s \in Seq(Records) /\ \A i \in DOMAIN s : i \in DOMAIN pending /\ s[i] = pending[i]
    BY <1>a, <2>1
  <2> HIDE DEF s
  <2>4. disk \o s \in Seq(Records)
    BY <1>a, <2>3
  <2>5. \A i \in DOMAIN s : s[i].state.tag = "InProgress" => s[i].state.fence <= nextFence
    <3>1. ASSUME NEW i \in DOMAIN s, s[i].state.tag = "InProgress"
          PROVE  s[i].state.fence <= nextFence
      <4>1. s[i] \in Records /\ s[i] = pending[i] /\ i \in DOMAIN pending
        BY <2>3
      <4>2. s[i].state \in InProgressStates
        BY <3>1, <4>1, Tags DEF Records
      <4>3. s[i].state.fence < nextFence
        BY <3>1, <4>1 DEF EngineInv, FencesBelowNext
      <4>4. QED
        BY <1>a, <4>2, <4>3 DEF InProgressStates
    <3>2. QED
      BY <3>1
  <2>6. \A k \in Keys : Replay(disk \o s)[k].tag = "InProgress"
                            => Replay(disk \o s)[k].fence <= nextFence
    BY <1>0, <2>3, <2>5, CrashFences
  <2>7. ASSUME NEW k \in Keys, acked[k] # Absent, clock' < ExpiresAt(acked[k])
        PROVE  Replay(disk \o s)[k] = acked[k]
    <3>1. /\ Replay(disk)[k] = acked[k]
          /\ \A i \in DOMAIN pending : pending[i].key # k
      BY <2>2, <2>7 DEF EngineInv, AckedOutcomeSettled
    <3>2. \A i \in DOMAIN s : s[i].key # k
      BY <2>3, <3>1
    <3>3. QED
      BY <1>a, <2>3, <3>1, <3>2, ReplayOther
  <2>8. /\ disk' = disk \o s /\ index' = Replay(disk \o s) /\ pending' = <<>>
        /\ nextFence' = MaxInProgressFence(Replay(disk \o s)) + 1
    BY <2>1 DEF s, Reopen
  <2>9. QED
    BY <1>0, <1>a, <2>2, <2>4, <2>6, <2>7, <2>8, ReopenEstablishesInv
<1>6. ASSUME NEW k \in Keys, NEW s \in KeyState, NEW now \in Instants, NEW survivors,
             Reopen(Append(disk, [key |-> k, state |-> s]), survivors),
             s.tag = "InProgress" => s.fence <= nextFence,
             index[k].tag = "Completed" => now >= ExpiresAt(index[k]),
             acked' = acked, clock' = Later(now)
      PROVE  StoreTypeOK' /\ EngineInv'
  <2> DEFINE r == [key |-> k, state |-> s]
             log == Append(disk, r)
  <2>1. r \in Records /\ r.key = k /\ r.state = s
    BY DEF Records
  <2>0. /\ disk' = log /\ index' = Replay(log) /\ pending' = <<>>
        /\ nextFence' = MaxInProgressFence(Replay(log)) + 1
    BY <1>6 DEF Reopen
  <2> HIDE DEF r
  <2>2. log \in Seq(Records) /\ Replay(log) = [Replay(disk) EXCEPT ![k] = s]
    BY <1>a, <2>1, ReplayAppend
  <2> HIDE DEF log
  <2>3. Replay(disk) \in [Keys -> KeyState \union {Absent}]
    BY <1>a, ReplayType
  <2>4. clock' \in Instants /\ clock' >= clock /\ clock' >= now
    BY <1>6, <1>a, LaterProperty
  <2>5. ASSUME NEW j \in Keys, Replay(log)[j].tag = "InProgress"
        PROVE  Replay(log)[j].fence <= nextFence
    <3>1. CASE j = k
      BY <1>6, <2>2, <2>3, <2>5, <3>1
    <3>2. CASE j # k
      <4>1. Replay(log)[j] = Replay(disk)[j]
        BY <2>2, <2>3, <3>2
      <4>2. Replay(disk)[j] \in InProgressStates
        BY <2>3, <2>5, <4>1, Tags
      <4>3. Replay(disk)[j].fence < nextFence
        BY <2>5, <4>1 DEF EngineInv, FencesBelowNext
      <4>4. QED
        BY <1>a, <4>1, <4>2, <4>3 DEF InProgressStates
    <3>3. QED
      BY <3>1, <3>2
  <2>6. ASSUME NEW j \in Keys, acked[j] # Absent, clock' < ExpiresAt(acked[j])
        PROVE  Replay(log)[j] = acked[j]
    <3>1. /\ clock < ExpiresAt(acked[j]) /\ ExpiresAt(acked[j]) \in Instants
          /\ acked[j].tag = "Completed"
      BY <1>0, <2>4, <2>6, InForceEarlier
    <3>2. index[j] = acked[j] /\ Replay(disk)[j] = acked[j]
      BY <2>6, <3>1 DEF EngineInv, AckedOutcomeSettled
    <3>3. j # k
      BY <1>6, <2>4, <2>6, <3>1, <3>2, DurationsAssumption DEF Instants
    <3>4. QED
      BY <2>2, <2>3, <3>2, <3>3
  <2>7. QED
    BY <1>0, <1>a, <1>6, <2>0, <2>2, <2>4, <2>5, <2>6, ReopenEstablishesInv
<1>7. ASSUME NEW k \in Keys, NEW fp \in Fingerprints, NEW now \in Instants,
             CrashInStart(k, fp, now)
      PROVE  StoreTypeOK' /\ EngineInv'
  <2> DEFINE s == StartState(nextFence, fp, now, attempts + 1)
  <2>1. s \in KeyState /\ s.tag = "InProgress" /\ s.fence = nextFence
    BY <1>a, StartStateType
  <2>2. index[k].tag = "Completed" => now >= ExpiresAt(index[k])
    BY <1>a, <1>7, StartFindsNothingInForce DEF CrashInStart
  <2>3. /\ Reopen(Append(disk, [key |-> k, state |-> s]), tokens)
        /\ acked' = acked /\ clock' = Later(now)
    BY <1>7 DEF CrashInStart
  <2> HIDE DEF s
  <2>4. QED
    BY <1>6, <1>a, <2>1, <2>2, <2>3
<1>8. ASSUME NEW t \in tokens, NEW o \in Outcomes, NEW now \in Instants,
             CrashInComplete(t, o, now)
      PROVE  StoreTypeOK' /\ EngineInv'
  <2>0. t.key \in Keys
    BY DEF TypeOK, Tokens
  <2> DEFINE s == Completed(index[t.key].fingerprint, o, now)
  <2>1. index[t.key].tag = "InProgress"
    BY <1>a, <1>8, <2>0, Tags DEF CompleteDecision, CrashInComplete
  <2>2. index[t.key].fingerprint \in Fingerprints
    BY <1>a, <2>0, <2>1, Tags DEF InProgressStates
  <2>3. s \in KeyState /\ s.tag = "Completed"
    BY <2>2, CompletedType
  <2>4. /\ Reopen(Append(disk, [key |-> t.key, state |-> s]), tokens \ {t})
        /\ acked' = acked /\ clock' = Later(now)
    BY <1>8 DEF CrashInComplete
  <2> HIDE DEF s
  <2>5. QED
    BY <1>6, <2>0, <2>1, <2>3, <2>4
<1>9. CASE UNCHANGED vars
  BY <1>0, <1>9 DEF vars, storeVars, history, StoreTypeOK, EngineInv, IndexIsLogReplay,
                    FencesBelowNext, AckedOutcomeSettled, ExpiresAt
<1>10. QED
  BY <1>1, <1>2, <1>3, <1>4, <1>5, <1>7, <1>8, <1>9 DEF Next

\* The initial state of the store.
LEMMA EngineInvInit == Init => TypeOK /\ EngineInv
<1> SUFFICES ASSUME Init PROVE TypeOK /\ EngineInv
  OBVIOUS
<1>1. /\ index = [k \in Keys |-> Absent] /\ disk = <<>> /\ pending = <<>>
      /\ acked = [k \in Keys |-> Absent]
  BY DEF Init
<1>2. \A k \in Keys : index[k].tag # "InProgress"
  BY <1>1 DEF Absent
<1>3. MaxInProgressFence(index) = 0
  BY <1>2 DEF MaxInProgressFence
<1>4. TypeOK
  BY <1>1, <1>3, DurationsAssumption, EngineAssumption DEF Init, TypeOK, Instants
<1>5. Replay(disk) = index /\ disk \o pending = disk
  BY <1>1, ReplayEmpty
<1>6. EngineInv
  BY <1>1, <1>2, <1>5
     DEF EngineInv, IndexIsLogReplay, FencesBelowNext, AckedOutcomeSettled
<1>7. QED
  BY <1>4, <1>6

\* The rest of TypeOK: tokens and attempt numbers.
LEMMA TypeOKNext == TypeOK /\ EngineInv /\ [Next]_vars => TypeOK'
<1> SUFFICES ASSUME TypeOK, EngineInv, [Next]_vars PROVE TypeOK'
  OBVIOUS
<1>0. StoreTypeOK'
  BY EngineInvNext
<1>a. /\ nextFence \in Nat \ {0} /\ tokens \in SUBSET Tokens
      /\ attempts \in 0..MaxAttempts /\ committer \in [Keys -> 0..MaxAttempts]
      /\ MaxAttempts \in Nat
  BY EngineAssumption DEF TypeOK
<1> SUFFICES /\ tokens' \in SUBSET Tokens
             /\ attempts' \in 0..MaxAttempts
             /\ committer' \in [Keys -> 0..MaxAttempts]
  BY <1>0 DEF StoreTypeOK, TypeOK
<1>1. ASSUME NEW k \in Keys, NEW fp \in Fingerprints, NEW now \in Instants,
             Begin(k, fp, now) \/ CrashInStart(k, fp, now)
      PROVE  /\ tokens' \in SUBSET Tokens
             /\ attempts' \in 0..MaxAttempts
             /\ committer' \in [Keys -> 0..MaxAttempts]
  BY <1>1, <1>a DEF Begin, CrashInStart, Reopen, Tokens
<1>2. ASSUME NEW t \in tokens, NEW o \in Outcomes, NEW now \in Instants,
             Complete(t, o, now) \/ CrashInComplete(t, o, now)
      PROVE  /\ tokens' \in SUBSET Tokens
             /\ attempts' \in 0..MaxAttempts
             /\ committer' \in [Keys -> 0..MaxAttempts]
  <2>1. t.key \in Keys /\ t.attempt \in 0..MaxAttempts
    BY <1>a DEF Tokens
  <2>2. tokens' \subseteq tokens /\ attempts' = attempts
    BY <1>2 DEF Complete, CrashInComplete, Reopen
  <2>3. committer' = committer \/ committer' = [committer EXCEPT ![t.key] = t.attempt]
    BY <1>2 DEF Complete, CrashInComplete
  <2>4. QED
    BY <1>a, <2>1, <2>2, <2>3
<1>3. ASSUME NEW now \in Instants, PruneExpired(now)
      PROVE  /\ tokens' \in SUBSET Tokens
             /\ attempts' \in 0..MaxAttempts
             /\ committer' \in [Keys -> 0..MaxAttempts]
  BY <1>3, <1>a DEF PruneExpired
<1>4. CASE Flush
  BY <1>4, <1>a DEF Flush
<1>5. CASE Crash
  BY <1>5, <1>a DEF Crash, Reopen, history
<1>6. CASE UNCHANGED vars
  BY <1>6, <1>a DEF vars, history
<1>7. QED
  BY <1>1, <1>2, <1>3, <1>4, <1>5, <1>6 DEF Next

\* In every reachable state of the engine, strict or group commit, the state
\* is well formed and the invariant of the store holds.
THEOREM StoreInvariant == Spec => [](TypeOK /\ EngineInv)
<1>1. TypeOK /\ EngineInv /\ [Next]_vars => (TypeOK /\ EngineInv)'
  BY EngineInvNext, TypeOKNext
<1>2. QED
  BY <1>1, EngineInvInit, PTL DEF Spec

\* The variables of the engine always have their types: instants saturate
\* rather than overflow, and the recovered fence counter is a positive number.
THEOREM TypeCorrect == Spec => []TypeOK
BY StoreInvariant, PTL

\* WalStore's index always equals the replay of its log and buffer.
THEOREM IndexNeverDrifts == Spec => []IndexIsLogReplay
<1>1. TypeOK /\ EngineInv => IndexIsLogReplay
  BY DEF EngineInv
<1>2. QED
  BY <1>1, StoreInvariant, PTL

\* A completion acknowledged by a strict put or a flush is honoured until its
\* time-to-live has elapsed, whatever crashes, compactions and takeovers
\* happen in between.
THEOREM DurableCompletion == Spec => []AckedOutcomeHonoured
<1>1. TypeOK /\ EngineInv => AckedOutcomeHonoured
  BY DEF EngineInv, AckedOutcomeSettled, AckedOutcomeHonoured
<1>2. QED
  BY <1>1, StoreInvariant, PTL

-----------------------------------------------------------------------------
(***************************************************************************)
(* Fencing, when workers die with the process.                             *)
(***************************************************************************)

\* Matching fences mean matching attempts, in every reachable state.
LEMMA TokensMatchLeasesNext ==
    ASSUME ~ WorkersOutliveCrash
    PROVE  TypeOK /\ EngineInv /\ TokensMatchLeases /\ [Next]_vars
                => TokensMatchLeases'
<1> SUFFICES ASSUME TypeOK, EngineInv, TokensMatchLeases, [Next]_vars
             PROVE  TokensMatchLeases'
  OBVIOUS
<1>a. /\ index \in [Keys -> KeyState \union {Absent}]
      /\ nextFence \in Nat \ {0} /\ attempts \in Nat
      /\ tokens \in SUBSET Tokens
  BY EngineAssumption DEF TypeOK
<1>b. \A t \in tokens : t.key \in Keys /\ t.fence \in Nat
  BY <1>a DEF Tokens
<1>1. ASSUME NEW log, NEW survivors, Reopen(log, survivors) PROVE TokensMatchLeases'
  BY <1>1 DEF Reopen, TokensMatchLeases
<1>2. ASSUME NEW k \in Keys, NEW fp \in Fingerprints, NEW now \in Instants,
             Begin(k, fp, now)
      PROVE  TokensMatchLeases'
  <2>1. CASE BeginDecision(index[k], fp, now) = "Start"
    <3> DEFINE s == StartState(nextFence, fp, now, attempts + 1)
               new == [key |-> k, fence |-> nextFence, attempt |-> attempts + 1]
    <3>1. s.tag = "InProgress" /\ s.fence = nextFence /\ s.attempt = attempts + 1
      BY <1>a, StartStateType
    <3>2. /\ index' = [index EXCEPT ![k] = s] /\ nextFence' = nextFence + 1
          /\ tokens' = tokens \union {new}
      BY <1>2, <2>1 DEF Begin, Put
    <3>3. new.key = k /\ new.fence = nextFence /\ new.attempt = attempts + 1
      OBVIOUS
    <3> HIDE DEF s, new
    <3>4. ASSUME NEW t \in tokens'
          PROVE  /\ t.fence < nextFence'
                 /\ (/\ index'[t.key].tag = "InProgress"
                     /\ index'[t.key].fence = t.fence)
                        => index'[t.key].attempt = t.attempt
      <4>1. CASE t = new
        BY <1>a, <3>1, <3>2, <3>3, <4>1
      <4>2. CASE t \in tokens /\ t.key = k
        <5>1. t.fence < nextFence /\ t.fence \in Nat
          BY <1>b, <4>2 DEF TokensMatchLeases
        <5>2. index'[t.key].fence = nextFence
          BY <1>a, <3>1, <3>2, <4>2
        <5>3. QED
          BY <1>a, <3>2, <5>1, <5>2
      <4>3. CASE t \in tokens /\ t.key # k
        <5>1. t.fence < nextFence /\ t.fence \in Nat /\ index'[t.key] = index[t.key]
          BY <1>a, <1>b, <3>2, <4>3 DEF TokensMatchLeases
        <5>2. QED
          BY <1>a, <3>2, <4>3, <5>1 DEF TokensMatchLeases
      <4>4. QED
        BY <3>2, <4>1, <4>2, <4>3
    <3>5. QED
      BY <3>4 DEF TokensMatchLeases
  <2>2. CASE BeginDecision(index[k], fp, now) # "Start"
    BY <1>2, <2>2 DEF Begin, storeVars, TokensMatchLeases
  <2>3. QED
    BY <2>1, <2>2
<1>3. ASSUME NEW t \in tokens, NEW o \in Outcomes, NEW now \in Instants,
             Complete(t, o, now)
      PROVE  TokensMatchLeases'
  <2>1. CASE CompleteDecision(index[t.key], t.fence) = "Ok"
    <3> DEFINE s == Completed(index[t.key].fingerprint, o, now)
    <3>1. s.tag = "Completed"
      BY DEF Completed
    <3>2. /\ index' = [index EXCEPT ![t.key] = s] /\ nextFence' = nextFence
          /\ tokens' = tokens \ {t}
      BY <1>3, <2>1 DEF Complete, Put
    <3> HIDE DEF s
    <3>3. \A u \in tokens' : index'[u.key].tag = "InProgress"
                                => index'[u.key] = index[u.key]
      BY <1>a, <1>b, <3>1, <3>2
    <3>4. QED
      BY <3>2, <3>3 DEF TokensMatchLeases
  <2>2. CASE CompleteDecision(index[t.key], t.fence) # "Ok"
    BY <1>3, <2>2 DEF Complete, storeVars, TokensMatchLeases
  <2>3. QED
    BY <2>1, <2>2
<1>4. ASSUME NEW now \in Instants, PruneExpired(now) PROVE TokensMatchLeases'
  <2>1. \A k \in Keys : index'[k].tag = "InProgress" => index'[k] = index[k]
    BY <1>4 DEF PruneExpired, Absent
  <2>2. tokens' = tokens /\ nextFence' = nextFence
    BY <1>4 DEF PruneExpired
  <2>3. QED
    BY <1>b, <2>1, <2>2 DEF TokensMatchLeases
<1>5. CASE Flush
  BY <1>5 DEF Flush, TokensMatchLeases
<1>6. CASE Crash
  BY <1>1, <1>6 DEF Crash
<1>7. CASE UNCHANGED vars
  BY <1>7 DEF vars, storeVars, TokensMatchLeases
<1>8. QED
  BY <1>1, <1>2, <1>3, <1>4, <1>5, <1>6, <1>7 DEF Next, CrashInStart, CrashInComplete

\* An accepted complete() belongs to the attempt that recorded the lease.
LEMMA AcceptedMatches ==
    ASSUME TypeOK, TokensMatchLeases, NEW t \in tokens,
           CompleteDecision(index[t.key], t.fence) = "Ok"
    PROVE  /\ t.key \in Keys
           /\ index[t.key].tag = "InProgress"
           /\ index[t.key].attempt = t.attempt
<1>1. t.key \in Keys /\ index[t.key] \in KeyState \union {Absent}
  BY DEF TypeOK, Tokens
<1>2. index[t.key].tag = "InProgress" /\ index[t.key].fence = t.fence
  BY <1>1, Tags DEF CompleteDecision
<1>3. QED
  BY <1>1, <1>2 DEF TokensMatchLeases

\* Fencing: while workers die with the process, no stalled or orphaned token
\* ever commits, in strict mode and in group commit.
THEOREM Fencing ==
    ASSUME ~ WorkersOutliveCrash
    PROVE  Spec => StaleNeverCommits
<1>1. Init => TokensMatchLeases
  BY DEF Init, TokensMatchLeases
<1>2. TypeOK /\ EngineInv /\ TokensMatchLeases /\ [Next]_vars => TokensMatchLeases'
  BY TokensMatchLeasesNext
<1>3. TypeOK /\ TokensMatchLeases /\ [Next]_vars =>
        [\A k \in Keys :
            committer'[k] # committer[k] =>
                /\ index[k].tag = "InProgress"
                /\ committer'[k] = index[k].attempt]_vars
  <2> SUFFICES ASSUME TypeOK, TokensMatchLeases, [Next]_vars,
                      NEW k \in Keys, committer'[k] # committer[k]
               PROVE  index[k].tag = "InProgress" /\ committer'[k] = index[k].attempt
    OBVIOUS
  <2>1. PICK t \in tokens :
            /\ CompleteDecision(index[t.key], t.fence) = "Ok"
            /\ committer' = [committer EXCEPT ![t.key] = t.attempt]
    BY DEF Next, Begin, CrashInStart, Complete, CrashInComplete, PruneExpired, Flush,
           Crash, vars, history
  <2>2. committer \in [Keys -> 0..MaxAttempts]
    BY DEF TypeOK
  <2>3. k = t.key
    BY <2>1, <2>2
  <2>4. QED
    BY <2>1, <2>2, <2>3, AcceptedMatches
<1>4. QED
  BY <1>1, <1>2, <1>3, StoreInvariant, PTL DEF Spec, StaleNeverCommits

-----------------------------------------------------------------------------
(***************************************************************************)
(* The strict engine implements ExactlyOnce.                               *)
(***************************************************************************)

\* What a step of the strict engine does to the index, crashes included: it
\* starts an attempt, commits one, prunes, or leaves the index alone.
Starts(k, fp, now) ==
    /\ BeginDecision(index[k], fp, now) = "Start"
    /\ attempts < MaxAttempts
    /\ index' = [index EXCEPT ![k] = StartState(nextFence, fp, now, attempts + 1)]
    /\ attempts' = attempts + 1
    /\ committer' = committer

Commits(t, o, now) ==
    /\ CompleteDecision(index[t.key], t.fence) = "Ok"
    /\ index' = [index EXCEPT ![t.key] =
                    Completed(index[t.key].fingerprint, o, now)]
    /\ committer' = [committer EXCEPT ![t.key] = t.attempt]
    /\ attempts' = attempts

\* What a step of the strict engine does to the index: it starts an attempt,
\* commits one, prunes, or changes nothing ExactlyOnce can see; a crash inside
\* begin() or complete() has the effect of the call it cut short.
LEMMA StrictStep ==
    ASSUME SyncEach, TypeOK, EngineInv, [Next]_vars
    PROVE  \/ \E k \in Keys, fp \in Fingerprints, now \in Instants : Starts(k, fp, now)
           \/ \E t \in tokens, o \in Outcomes, now \in Instants : Commits(t, o, now)
           \/ \E now \in Instants : PruneExpired(now)
           \/ UNCHANGED <<index, attempts, committer>>
<1>a. disk \in Seq(Records) /\ pending = <<>> /\ Replay(disk) = index
      /\ nextFence \in Nat /\ attempts \in Nat
      /\ index \in [Keys -> KeyState \union {Absent}]
  BY EngineAssumption DEF TypeOK, EngineInv, IndexIsLogReplay
<1>b. ASSUME NEW k \in Keys, NEW s \in KeyState, NEW S,
             Reopen(Append(disk, [key |-> k, state |-> s]), S)
      PROVE  index' = [index EXCEPT ![k] = s]
  <2> DEFINE r == [key |-> k, state |-> s]
  <2>1. r \in Records /\ r.key = k /\ r.state = s
    BY DEF Records
  <2>2. index' = Replay(Append(disk, r))
    BY <1>b DEF Reopen
  <2> HIDE DEF r
  <2>3. QED
    BY <1>a, <2>1, <2>2, ReplayAppend
<1>1. ASSUME NEW k \in Keys, NEW fp \in Fingerprints, NEW now \in Instants,
             Begin(k, fp, now)
      PROVE  Starts(k, fp, now) \/ UNCHANGED <<index, attempts, committer>>
  BY <1>1 DEF Begin, Put, Starts, storeVars
<1>2. ASSUME NEW k \in Keys, NEW fp \in Fingerprints, NEW now \in Instants,
             CrashInStart(k, fp, now)
      PROVE  Starts(k, fp, now)
  <2>1. StartState(nextFence, fp, now, attempts + 1) \in KeyState
    BY <1>a, StartStateType
  <2>2. QED
    BY <1>2, <1>b, <2>1 DEF CrashInStart, Starts
<1>3. ASSUME NEW t \in tokens, NEW o \in Outcomes, NEW now \in Instants,
             Complete(t, o, now)
      PROVE  Commits(t, o, now) \/ UNCHANGED <<index, attempts, committer>>
  BY <1>3 DEF Complete, Put, Commits, storeVars
<1>4. ASSUME NEW t \in tokens, NEW o \in Outcomes, NEW now \in Instants,
             CrashInComplete(t, o, now)
      PROVE  Commits(t, o, now)
  <2>1. t.key \in Keys
    BY DEF TypeOK, Tokens
  <2>2. index[t.key].fingerprint \in Fingerprints
    BY <1>4, <1>a, <2>1, Tags DEF CrashInComplete, CompleteDecision, InProgressStates
  <2>3. Completed(index[t.key].fingerprint, o, now) \in KeyState
    BY <2>2, CompletedType
  <2>4. QED
    BY <1>4, <1>b, <2>1, <2>3 DEF CrashInComplete, Commits
<1>5. CASE Crash
  <2>1. PICK n \in 0..Len(pending) : Reopen(disk \o SubSeq(pending, 1, n), tokens)
    BY <1>5 DEF Crash
  <2>2. disk \o SubSeq(pending, 1, n) = disk
    BY <1>a, <2>1
  <2>3. index' = index
    BY <1>a, <2>1, <2>2 DEF Reopen
  <2>4. QED
    BY <1>5, <2>3 DEF Crash, history
<1>6. CASE Flush
  BY <1>6 DEF Flush
<1>7. CASE UNCHANGED vars
  BY <1>7 DEF vars, storeVars, history
<1>8. QED
  BY <1>1, <1>2, <1>3, <1>4, <1>5, <1>6, <1>7 DEF Next

\* Attempt numbers in use stay below the count of attempts.
LEMMA AttemptsGivenOutNext ==
    ASSUME SyncEach, TypeOK, EngineInv, TokensMatchLeases, AttemptsGivenOut, [Next]_vars
    PROVE  AttemptsGivenOut'
<1>a. /\ index \in [Keys -> KeyState \union {Absent}] /\ nextFence \in Nat
      /\ attempts \in Nat /\ committer \in [Keys -> 0..MaxAttempts]
  BY EngineAssumption DEF TypeOK
<1>1. ASSUME NEW k \in Keys, NEW fp \in Fingerprints, NEW now \in Instants,
             Starts(k, fp, now)
      PROVE  AttemptsGivenOut'
  <2> DEFINE s == StartState(nextFence, fp, now, attempts + 1)
  <2>1. s.tag = "InProgress" /\ s.attempt = attempts + 1
    BY <1>a, StartStateType
  <2>2. /\ index' = [index EXCEPT ![k] = s]
        /\ attempts' = attempts + 1 /\ committer' = committer
    BY <1>1 DEF Starts
  <2> HIDE DEF s
  <2>3. QED
    BY <1>a, <2>1, <2>2, EngineAssumption DEF AttemptsGivenOut
<1>2. ASSUME NEW t \in tokens, NEW o \in Outcomes, NEW now \in Instants,
             Commits(t, o, now)
      PROVE  AttemptsGivenOut'
  <2> DEFINE s == Completed(index[t.key].fingerprint, o, now)
  <2>1. s.tag = "Completed"
    BY DEF Completed
  <2>2. /\ index' = [index EXCEPT ![t.key] = s]
        /\ attempts' = attempts
        /\ committer' = [committer EXCEPT ![t.key] = t.attempt]
    BY <1>2 DEF Commits
  <2>3. t.key \in Keys /\ t.attempt \in 1..attempts
    BY <1>2, AcceptedMatches DEF Commits, AttemptsGivenOut
  <2> HIDE DEF s
  <2>4. QED
    BY <1>a, <2>1, <2>2, <2>3, EngineAssumption DEF AttemptsGivenOut
<1>3. ASSUME NEW now \in Instants, PruneExpired(now) PROVE AttemptsGivenOut'
  BY <1>3 DEF PruneExpired, AttemptsGivenOut, Absent
<1>4. CASE UNCHANGED <<index, attempts, committer>>
  BY <1>4 DEF AttemptsGivenOut
<1>5. QED
  BY <1>1, <1>2, <1>3, <1>4, StrictStep

\* The refinement mapping, named.
OutcomeOf(ix) ==
    [k \in Keys |-> IF ix[k].tag = "Completed" THEN ix[k].outcome ELSE NoOutcome]

HolderOf(ix) ==
    [k \in Keys |-> IF ix[k].tag = "InProgress" THEN ix[k].attempt ELSE 0]

\* Every step of the strict engine maps to a step of ExactlyOnce or to none.
LEMMA StrictStepRefines ==
    ASSUME SyncEach, TypeOK, EngineInv, TokensMatchLeases, AttemptsGivenOut, [Next]_vars
    PROVE  [EO!Next]_(EO!vars)
<1>a. /\ index \in [Keys -> KeyState \union {Absent}] /\ nextFence \in Nat
      /\ attempts \in Nat /\ committer \in [Keys -> 0..MaxAttempts]
      /\ MaxAttempts \in Nat /\ NoOutcome \notin Outcomes
  BY EngineAssumption DEF TypeOK
<1>b. \A k \in Keys : /\ index[k].tag = "Completed" => index[k].outcome \in Outcomes
                      /\ index[k].tag \in {"Absent", "InProgress", "Completed"}
  BY <1>a, Tags DEF CompletedStates
<1>1. ASSUME NEW k \in Keys, NEW fp \in Fingerprints, NEW now \in Instants,
             Starts(k, fp, now)
      PROVE  EO!Grant(k) \/ EO!Recycle(k)
  <2> DEFINE s == StartState(nextFence, fp, now, attempts + 1)
  <2>1. s.tag = "InProgress" /\ s.attempt = attempts + 1
    BY <1>a, StartStateType
  <2>2. /\ index' = [index EXCEPT ![k] = s] /\ committer' = committer
        /\ attempts + 1 \in 1..MaxAttempts
    BY <1>1, <1>a DEF Starts
  <2> HIDE DEF s
  <2>3. HolderOf(index') = [HolderOf(index) EXCEPT ![k] = attempts + 1]
    BY <1>a, <2>1, <2>2 DEF HolderOf
  <2>4. OutcomeOf(index') = [OutcomeOf(index) EXCEPT ![k] = NoOutcome]
    BY <1>a, <2>1, <2>2 DEF OutcomeOf
  <2>5. attempts + 1 > committer[k] /\ attempts + 1 > HolderOf(index)[k]
    BY <1>a DEF AttemptsGivenOut, HolderOf
  <2>6. CASE index[k].tag = "Completed"
    <3>1. OutcomeOf(index)[k] # NoOutcome
      BY <1>a, <1>b, <2>6 DEF OutcomeOf
    <3>2. QED
      BY <2>2, <2>3, <2>4, <2>5, <3>1 DEF EO!Recycle, OutcomeOf, HolderOf
  <2>7. CASE index[k].tag # "Completed"
    <3>1. OutcomeOf(index)[k] = NoOutcome /\ OutcomeOf(index') = OutcomeOf(index)
      BY <2>4, <2>7 DEF OutcomeOf
    <3>2. QED
      BY <2>2, <2>3, <2>5, <3>1 DEF EO!Grant, OutcomeOf, HolderOf
  <2>8. QED
    BY <2>6, <2>7
<1>2. ASSUME NEW t \in tokens, NEW o \in Outcomes, NEW now \in Instants,
             Commits(t, o, now)
      PROVE  EO!Commit(t.key, o) /\ t.key \in Keys
  <2> DEFINE s == Completed(index[t.key].fingerprint, o, now)
  <2>1. s.tag = "Completed" /\ s.outcome = o
    BY DEF Completed
  <2>2. /\ index' = [index EXCEPT ![t.key] = s]
        /\ committer' = [committer EXCEPT ![t.key] = t.attempt]
    BY <1>2 DEF Commits
  <2> HIDE DEF s
  <2>3. /\ t.key \in Keys /\ index[t.key].tag = "InProgress"
        /\ index[t.key].attempt = t.attempt /\ t.attempt \in 1..attempts
    BY <1>2, AcceptedMatches DEF Commits, AttemptsGivenOut
  <2>4. OutcomeOf(index') = [OutcomeOf(index) EXCEPT ![t.key] = o]
        /\ HolderOf(index') = [HolderOf(index) EXCEPT ![t.key] = 0]
    BY <1>a, <2>1, <2>2, <2>3 DEF OutcomeOf, HolderOf
  <2>5. OutcomeOf(index)[t.key] = NoOutcome /\ HolderOf(index)[t.key] = t.attempt
    BY <2>3 DEF OutcomeOf, HolderOf
  <2>6. HolderOf(index)[t.key] # 0
    BY <1>a, <2>3, <2>5
  <2>7. committer' = [committer EXCEPT ![t.key] = HolderOf(index)[t.key]]
    BY <2>2, <2>5
  <2>8. QED
    BY <2>3, <2>4, <2>5, <2>6, <2>7 DEF EO!Commit, OutcomeOf, HolderOf
<1>3. ASSUME NEW now \in Instants, PruneExpired(now)
      PROVE  \E S \in SUBSET Keys : EO!Forget(S)
  <2> DEFINE S == {k \in Keys : index[k].tag = "Completed" /\ ~ PruneKeeps(index[k], now)}
  <2>1. index' = [k \in Keys |-> IF PruneKeeps(index[k], now) THEN index[k] ELSE Absent]
        /\ committer' = committer
    BY <1>3 DEF PruneExpired
  <2>2. \A k \in Keys : k \notin S => index'[k] = index[k]
    BY <2>1 DEF PruneKeeps
  <2>3. \A k \in S : k \in Keys /\ index'[k] = Absent /\ index[k].tag = "Completed"
    BY <2>1
  <2>4. S \in SUBSET Keys
    OBVIOUS
  <2> HIDE DEF S
  <2>5. HolderOf(index') = HolderOf(index)
    BY <2>2, <2>3 DEF HolderOf, Absent
  <2>6. OutcomeOf(index') = [k \in Keys |-> IF k \in S THEN NoOutcome
                                            ELSE OutcomeOf(index)[k]]
    BY <2>2, <2>3 DEF OutcomeOf, Absent
  <2>7. \A k \in S : OutcomeOf(index)[k] # NoOutcome
    BY <1>a, <1>b, <2>3 DEF OutcomeOf
  <2>8. \E X \in SUBSET Keys :
            /\ \A k \in X : OutcomeOf(index)[k] # NoOutcome
            /\ OutcomeOf(index') = [k \in Keys |-> IF k \in X THEN NoOutcome
                                                   ELSE OutcomeOf(index)[k]]
    BY <2>4, <2>6, <2>7
  <2>9. QED
    BY <2>1, <2>5, <2>8 DEF EO!Forget, OutcomeOf, HolderOf
<1>4. CASE UNCHANGED <<index, attempts, committer>>
  BY <1>4 DEF EO!vars
<1>5. QED
  BY <1>1, <1>2, <1>3, <1>4, StrictStep DEF EO!Next

\* Exactly once, for every instance: the engine on a strict log whose workers
\* die with the process implements the abstract specification, crashes in the
\* middle of begin() and complete() included.
THEOREM StrictRefinement ==
    ASSUME SyncEach, ~ WorkersOutliveCrash
    PROVE  Spec => ImplementsExactlyOnce
<1> DEFINE Inv == TypeOK /\ EngineInv /\ TokensMatchLeases /\ AttemptsGivenOut
<1>1. Init => Inv
  <2>1. Init => TokensMatchLeases /\ AttemptsGivenOut
    BY DEF Init, TokensMatchLeases, AttemptsGivenOut, Absent
  <2>2. QED
    BY <2>1, EngineInvInit
<1>2. Inv /\ [Next]_vars => Inv'
  BY EngineInvNext, TypeOKNext, TokensMatchLeasesNext, AttemptsGivenOutNext
<1>3. Init => EO!Init
  BY DEF Init, EO!Init, Absent
<1>4. Inv /\ [Next]_vars => [EO!Next]_(EO!vars)
  BY StrictStepRefines
<1>5. QED
  BY <1>1, <1>2, <1>3, <1>4, PTL DEF Spec, ImplementsExactlyOnce, EO!Spec

-----------------------------------------------------------------------------
(***************************************************************************)
(* Fences of in-progress keys are distinct.                                *)
(***************************************************************************)

\* No two in-progress keys of the index ix carry the same fence.
DistinctIn(ix) ==
    \A j, k \in Keys :
        /\ ix[j].tag = "InProgress"
        /\ ix[k].tag = "InProgress"
        /\ ix[j].fence = ix[k].fence
        => j = k

\* The inductive form of InProgressFencesDistinct: fences are distinct in the
\* index that every crash would recover, and in the one memory holds.
RecoverableFencesDistinct ==
    \A n \in 0..Len(pending) : DistinctIn(Replay(disk \o SubSeq(pending, 1, n)))

\* A record whose fence is above those in use keeps the fences distinct.
LEMMA DistinctExtends ==
    ASSUME NEW ix \in [Keys -> KeyState \union {Absent}], DistinctIn(ix),
           NEW k \in Keys, NEW s \in KeyState,
           s.tag = "InProgress" =>
              \A j \in Keys : ix[j].tag = "InProgress" => ix[j].fence # s.fence
    PROVE  DistinctIn([ix EXCEPT ![k] = s])
BY DEF DistinctIn

\* A log with nothing buffered is recovered as it is.
LEMMA NothingBuffered ==
    ASSUME NEW log \in Seq(Records)
    PROVE  \A n \in 0..Len(<<>>) : log \o SubSeq(<<>>, 1, n) = log
OBVIOUS

\* The whole buffer and the file rebuild the index.
LEMMA DistinctNow ==
    ASSUME StoreTypeOK, EngineInv, RecoverableFencesDistinct
    PROVE  DistinctIn(index)
<1>1. pending \in Seq(Records) /\ disk \in Seq(Records)
  BY DEF StoreTypeOK
<1>2. Len(pending) \in 0..Len(pending) /\ SubSeq(pending, 1, Len(pending)) = pending
  BY <1>1
<1>3. QED
  BY <1>2 DEF RecoverableFencesDistinct, EngineInv, IndexIsLogReplay

\* A state whose buffer is empty recovers its index and no other.
LEMMA DistinctIfFlushed ==
    ASSUME disk' \in Seq(Records), pending' = <<>>, Replay(disk') = index',
           DistinctIn(index')
    PROVE  RecoverableFencesDistinct'
<1>1. \A n \in 0..Len(<<>>) : disk' \o SubSeq(<<>>, 1, n) = disk'
  BY NothingBuffered
<1>2. QED
  BY <1>1 DEF RecoverableFencesDistinct

\* WalStore::put keeps the fences of every recoverable index distinct.
LEMMA PutKeepsDistinct ==
    ASSUME StoreTypeOK, EngineInv, RecoverableFencesDistinct, StoreTypeOK', EngineInv',
           NEW k \in Keys, NEW s \in KeyState, Put(k, s),
           s.tag = "InProgress" =>
              \A j \in Keys : index[j].tag = "InProgress" => index[j].fence # s.fence
    PROVE  RecoverableFencesDistinct'
<1> DEFINE r == [key |-> k, state |-> s]
<1>1. /\ index \in [Keys -> KeyState \union {Absent}]
      /\ disk \in Seq(Records) /\ pending \in Seq(Records) /\ r \in Records
  BY DEF StoreTypeOK, Records
<1>2. index' = [index EXCEPT ![k] = s]
  BY DEF Put
<1>3. DistinctIn(index')
  BY <1>1, <1>2, DistinctNow, DistinctExtends
<1>4. CASE SyncEach
  <2>1. pending' = <<>> /\ disk' \in Seq(Records)
    BY <1>4 DEF EngineInv, StoreTypeOK
  <2>2. Replay(disk') = index'
    BY <2>1 DEF EngineInv, IndexIsLogReplay
  <2>3. QED
    BY <1>3, <2>1, <2>2, DistinctIfFlushed
<1>5. CASE ~ SyncEach
  <2>1. disk' = disk /\ pending' = Append(pending, r)
    BY <1>5 DEF Put
  <2> HIDE DEF r
  <2>2. Len(pending') = Len(pending) + 1 /\ Len(pending) \in Nat
    BY <1>1, <2>1
  <2>3. SUFFICES ASSUME NEW n \in 0..Len(pending')
                 PROVE  DistinctIn(Replay(disk' \o SubSeq(pending', 1, n)))
    BY DEF RecoverableFencesDistinct
  <2>4. CASE n = Len(pending')
    <3>1. SubSeq(pending', 1, n) = pending'
      BY <1>1, <2>1, <2>2, <2>4
    <3>2. Replay(disk' \o pending') = index'
      BY DEF EngineInv, IndexIsLogReplay
    <3>3. QED
      BY <1>3, <3>1, <3>2
  <2>5. CASE n # Len(pending')
    <3>1. n \in 0..Len(pending)
      BY <2>2, <2>3, <2>5
    <3>2. SubSeq(pending', 1, n) = SubSeq(pending, 1, n)
      BY <1>1, <2>1, <2>2, <3>1
    <3>3. QED
      BY <2>1, <3>1, <3>2 DEF RecoverableFencesDistinct
  <2>6. QED
    BY <2>4, <2>5
<1>6. QED
  BY <1>4, <1>5

\* A fence below the counter is not the one the next attempt is given.
LEMMA NextFenceFresh ==
    ASSUME TypeOK, EngineInv
    PROVE  \A j \in Keys : index[j].tag = "InProgress" => index[j].fence # nextFence
<1> SUFFICES ASSUME NEW j \in Keys, index[j].tag = "InProgress"
             PROVE  index[j].fence # nextFence
  OBVIOUS
<1>1. index[j] \in InProgressStates /\ nextFence \in Nat
  BY Tags DEF TypeOK
<1>2. index[j].fence < nextFence
  BY DEF EngineInv, FencesBelowNext
<1>3. QED
  BY <1>1, <1>2 DEF InProgressStates

\* Every action keeps the fences of every recoverable index distinct.
LEMMA RecoverableFencesDistinctNext ==
    ASSUME TypeOK, EngineInv, RecoverableFencesDistinct, [Next]_vars
    PROVE  RecoverableFencesDistinct'
<1>0. StoreTypeOK /\ StoreTypeOK' /\ EngineInv'
  BY EngineInvNext DEF TypeOK, StoreTypeOK
<1>a. /\ index \in [Keys -> KeyState \union {Absent}]
      /\ disk \in Seq(Records) /\ pending \in Seq(Records)
      /\ nextFence \in Nat /\ attempts \in Nat /\ disk' \in Seq(Records)
  BY <1>0, EngineAssumption DEF TypeOK, StoreTypeOK
<1>b. DistinctIn(index)
  BY <1>0, DistinctNow
<1>c. pending' = <<>> => Replay(disk') = index'
  <2>1. disk' \o <<>> = disk'
    BY <1>a
  <2>2. QED
    BY <1>0, <2>1 DEF EngineInv, IndexIsLogReplay
<1>1. ASSUME NEW k \in Keys, NEW fp \in Fingerprints, NEW now \in Instants,
             Begin(k, fp, now)
      PROVE  RecoverableFencesDistinct'
  <2>1. CASE BeginDecision(index[k], fp, now) = "Start"
    <3> DEFINE s == StartState(nextFence, fp, now, attempts + 1)
    <3>1. s \in KeyState /\ s.fence = nextFence
      BY <1>a, StartStateType
    <3>2. Put(k, s)
      BY <1>1, <2>1 DEF Begin
    <3> HIDE DEF s
    <3>3. QED
      BY <1>0, <3>1, <3>2, NextFenceFresh, PutKeepsDistinct
  <2>2. CASE BeginDecision(index[k], fp, now) # "Start"
    BY <1>1, <2>2 DEF Begin, storeVars, RecoverableFencesDistinct
  <2>3. QED
    BY <2>1, <2>2
<1>2. ASSUME NEW t \in tokens, NEW o \in Outcomes, NEW now \in Instants,
             CompleteDecision(index[t.key], t.fence) = "Ok"
      PROVE  /\ t.key \in Keys
             /\ Completed(index[t.key].fingerprint, o, now) \in KeyState
             /\ Completed(index[t.key].fingerprint, o, now).tag = "Completed"
  <2>1. t.key \in Keys
    BY DEF TypeOK, Tokens
  <2>2. index[t.key].fingerprint \in Fingerprints
    BY <1>2, <1>a, <2>1, Tags DEF CompleteDecision, InProgressStates
  <2>3. QED
    BY <2>1, <2>2, CompletedType
<1>3. ASSUME NEW t \in tokens, NEW o \in Outcomes, NEW now \in Instants,
             Complete(t, o, now)
      PROVE  RecoverableFencesDistinct'
  <2>1. CASE CompleteDecision(index[t.key], t.fence) = "Ok"
    <3> DEFINE s == Completed(index[t.key].fingerprint, o, now)
    <3>1. t.key \in Keys /\ s \in KeyState /\ s.tag = "Completed"
      BY <1>2, <2>1
    <3>2. Put(t.key, s)
      BY <1>3, <2>1 DEF Complete
    <3> HIDE DEF s
    <3>3. QED
      BY <1>0, <3>1, <3>2, PutKeepsDistinct
  <2>2. CASE CompleteDecision(index[t.key], t.fence) # "Ok"
    BY <1>3, <2>2 DEF Complete, storeVars, RecoverableFencesDistinct
  <2>3. QED
    BY <2>1, <2>2
<1>4. ASSUME NEW now \in Instants, PruneExpired(now) PROVE RecoverableFencesDistinct'
  <2>1. pending' = <<>>
    BY <1>4 DEF PruneExpired
  <2>2. \A k \in Keys : index'[k].tag = "InProgress" => index'[k] = index[k]
    BY <1>4 DEF PruneExpired, Absent
  <2>3. DistinctIn(index')
    BY <1>b, <2>2 DEF DistinctIn
  <2>4. QED
    BY <1>a, <1>c, <2>1, <2>3, DistinctIfFlushed
<1>5. CASE Flush
  <2>1. pending' = <<>> /\ index' = index
    BY <1>5 DEF Flush
  <2>2. QED
    BY <1>a, <1>b, <1>c, <2>1, DistinctIfFlushed
<1>6. CASE Crash
  <2>1. PICK n \in 0..Len(pending) : Reopen(disk \o SubSeq(pending, 1, n), tokens)
    BY <1>6 DEF Crash
  <2>2. pending' = <<>> /\ index' = Replay(disk \o SubSeq(pending, 1, n))
    BY <2>1 DEF Reopen
  <2>3. DistinctIn(index')
    BY <2>1, <2>2 DEF RecoverableFencesDistinct
  <2>4. QED
    BY <1>a, <1>c, <2>2, <2>3, DistinctIfFlushed
<1>7. ASSUME NEW k \in Keys, NEW s \in KeyState, NEW S, SyncEach,
             Reopen(Append(disk, [key |-> k, state |-> s]), S),
             s.tag = "InProgress" => s.fence = nextFence
      PROVE  RecoverableFencesDistinct'
  <2> DEFINE r == [key |-> k, state |-> s]
  <2>1. r \in Records /\ r.key = k /\ r.state = s
    BY DEF Records
  <2>2. index' = Replay(Append(disk, r)) /\ pending' = <<>>
    BY <1>7 DEF Reopen
  <2> HIDE DEF r
  <2>3. pending = <<>>
    BY <1>7 DEF EngineInv
  <2>4. Replay(disk) = index
    BY <1>a, <2>3 DEF EngineInv, IndexIsLogReplay
  <2>5. index' = [index EXCEPT ![k] = s]
    BY <1>a, <2>1, <2>2, <2>4, ReplayAppend
  <2>6. DistinctIn(index')
    BY <1>7, <1>a, <1>b, <2>5, NextFenceFresh, DistinctExtends
  <2>7. QED
    BY <1>a, <1>c, <2>2, <2>6, DistinctIfFlushed
<1>8. ASSUME NEW k \in Keys, NEW fp \in Fingerprints, NEW now \in Instants,
             CrashInStart(k, fp, now)
      PROVE  RecoverableFencesDistinct'
  <2> DEFINE s == StartState(nextFence, fp, now, attempts + 1)
  <2>1. s \in KeyState /\ s.fence = nextFence
    BY <1>a, StartStateType
  <2>2. SyncEach /\ Reopen(Append(disk, [key |-> k, state |-> s]), tokens)
    BY <1>8 DEF CrashInStart
  <2> HIDE DEF s
  <2>3. QED
    BY <1>7, <2>1, <2>2
<1>9. ASSUME NEW t \in tokens, NEW o \in Outcomes, NEW now \in Instants,
             CrashInComplete(t, o, now)
      PROVE  RecoverableFencesDistinct'
  <2> DEFINE s == Completed(index[t.key].fingerprint, o, now)
  <2>1. t.key \in Keys /\ s \in KeyState /\ s.tag = "Completed"
    BY <1>2, <1>9 DEF CrashInComplete
  <2>2. SyncEach /\ Reopen(Append(disk, [key |-> t.key, state |-> s]), tokens \ {t})
    BY <1>9 DEF CrashInComplete
  <2> HIDE DEF s
  <2>3. QED
    BY <1>7, <2>1, <2>2
<1>10. CASE UNCHANGED vars
  BY <1>10 DEF vars, storeVars, RecoverableFencesDistinct
<1>11. QED
  BY <1>1, <1>3, <1>4, <1>5, <1>6, <1>8, <1>9, <1>10 DEF Next

\* Two keys in progress never carry the same fence, in strict and in group
\* commit, whether or not workers outlive a crash: the counter that with_ttl
\* seeds from the recovered leases never repeats the fence of a live one.
THEOREM FencesDistinct == Spec => []InProgressFencesDistinct
<1>1. Init => TypeOK /\ EngineInv
  BY EngineInvInit
<1>2. Init => RecoverableFencesDistinct
  <2> SUFFICES ASSUME Init PROVE RecoverableFencesDistinct
    OBVIOUS
  <2>1. disk = <<>> /\ pending = <<>> /\ <<>> \in Seq(Records)
    BY DEF Init
  <2>2. \A n \in 0..Len(<<>>) : disk \o SubSeq(<<>>, 1, n) = disk
    BY <2>1, NothingBuffered
  <2>3. DistinctIn(Replay(disk))
    BY <2>1, ReplayEmpty DEF DistinctIn, Absent
  <2>4. QED
    BY <2>1, <2>2, <2>3 DEF RecoverableFencesDistinct
<1>3. TypeOK /\ EngineInv /\ RecoverableFencesDistinct /\ [Next]_vars
        => (TypeOK /\ EngineInv /\ RecoverableFencesDistinct)'
  BY EngineInvNext, TypeOKNext, RecoverableFencesDistinctNext
<1>4. TypeOK /\ EngineInv /\ RecoverableFencesDistinct => InProgressFencesDistinct
  <2>1. TypeOK => StoreTypeOK
    BY DEF TypeOK, StoreTypeOK
  <2>2. QED
    BY <2>1, DistinctNow DEF DistinctIn, InProgressFencesDistinct
<1>5. QED
  BY <1>1, <1>2, <1>3, <1>4, PTL DEF Spec

=============================================================================
