---------------------------- MODULE GatewayProofs ----------------------------
(***************************************************************************)
(* Theorems about Gateway: type correctness, the balance of the counters,  *)
(* what clients are told and what a scrape of /metrics reports, for any    *)
(* number of requests, keys and shards, any lease and any time-to-live.    *)
(***************************************************************************)
EXTENDS Gateway, StateLemmas

-----------------------------------------------------------------------------
(***************************************************************************)
(* Type correctness.                                                       *)
(***************************************************************************)

\* TypeOK, with counters that may have any value.
ShapeOK ==
    /\ index \in [Shards -> [Keys -> KeyState \union {Absent}]]
    /\ nextFence \in [Shards -> Nat \ {0}]
    /\ metrics \in [Shards -> [Counters -> Nat]]
    /\ holdLock \in BOOLEAN
    /\ restart \in Restarts
    /\ shardCount \in ShardCounts
    /\ hash \in [Keys -> Hashes]
    /\ nextShard \in Shards
    /\ denied \in Nat
    /\ scrape \in [read: 0..(Max(ShardCounts) + 1),
                   total: [Counters -> Nat], denied: Nat,
                   before: [Shards -> [Counters -> Nat]]]
    /\ clock \in 0..MaxClock
    /\ pc \in [Requests -> {"idle", "arrived", "forwarding", "answered",
                            "cancelled", "lost"}]
    /\ req \in [Requests -> Arrivals(0..MaxClock)]
    /\ home \in [Requests -> Shards]
    /\ token \in [Requests -> Nat]
    /\ forwarded \in [Requests -> Results \union {"none"}]
    /\ answer \in [Requests -> Answers]
    /\ backend \in [Requests -> {"none", "sent", "ran"}]
    /\ life \in [Keys -> Nat]
    /\ lifeOf \in [Requests -> Nat]
    /\ overrun \in BOOLEAN

\* Requests are routed to shards there are, whatever the hash or the cursor.
LEMMA ShardFacts ==
    ASSUME NEW n \in ShardCounts
    PROVE  /\ n \in Nat \ {0}
           /\ Max(ShardCounts) \in Nat \ {0} /\ n <= Max(ShardCounts)
           /\ Shards \subseteq Nat /\ 0 \in Shards
           /\ 0..(n - 1) \subseteq Shards
           /\ \A a \in Nat : a % n \in Shards
<1>1. ShardCounts \in SUBSET Nat /\ ShardCounts # {} /\ n \in Nat \ {0}
  BY GatewayAssumption
<1>2. Max(ShardCounts) \in ShardCounts /\ \A x \in ShardCounts : x <= Max(ShardCounts)
  BY <1>1, GatewayAssumption, FiniteMax
<1>3. Max(ShardCounts) \in Nat \ {0} /\ n <= Max(ShardCounts)
  BY <1>2, GatewayAssumption
<1> DEFINE m == Max(ShardCounts)
<1>4. m \in Nat \ {0} /\ n <= m /\ Shards = 0..(m - 1)
  BY <1>3 DEF Shards
<1> HIDE DEF m
<1>5. Shards \subseteq Nat /\ 0 \in Shards /\ 0..(n - 1) \subseteq Shards
  BY <1>1, <1>4
<1>6. \A a \in Nat : a % n \in 0..(n - 1)
  BY <1>1
<1>7. QED
  BY <1>1, <1>3, <1>5, <1>6

\* A request as the code handles it: with a key and a fingerprint, or without.
LEMMA RequestFacts ==
    ASSUME ShapeOK, NEW r \in Requests
    PROVE  /\ req[r].at \in 0..MaxClock /\ req[r].at \in Instants
           /\ req[r].key \in Keys \union {NoKey}
           /\ req[r].key # NoKey => req[r].key \in Keys /\ req[r].fp \in Fingerprints
<1>1. req[r] \in Arrivals(0..MaxClock)
  BY DEF ShapeOK
<1>2. 0..MaxClock \subseteq Instants
  BY GatewayAssumption, DurationsAssumption DEF Instants
<1>3. QED
  BY <1>1, <1>2, GatewayAssumption DEF Arrivals

\* Count adds one to the given counters of one shard.
LEMMA CountType ==
    ASSUME metrics \in [Shards -> [Counters -> Nat]], NEW s \in Shards, NEW cs,
           Count(s, cs)
    PROVE  metrics' \in [Shards -> [Counters -> Nat]]
<1>1. metrics' = [metrics EXCEPT ![s] =
                    [c \in Counters |-> IF c \in cs THEN metrics[s][c] + 1
                                        ELSE metrics[s][c]]]
  BY DEF Count
<1>2. [c \in Counters |-> IF c \in cs THEN metrics[s][c] + 1 ELSE metrics[s][c]]
        \in [Counters -> Nat]
  OBVIOUS
<1>3. QED
  BY <1>1, <1>2

\* The fence counter of a rebuilt engine is above the fences it found.
LEMMA RecoveredFenceProperty ==
    ASSUME NEW ix \in [Keys -> KeyState \union {Absent}], NEW b \in Nat,
           \A k \in Keys : ix[k].tag = "InProgress" => ix[k].fence <= b
    PROVE  /\ RecoveredFence(ix) \in Nat \ {0}
           /\ \A k \in Keys :
                ix[k].tag = "InProgress" => ix[k].fence < RecoveredFence(ix)
<1> DEFINE leased == {j \in Keys : ix[j].tag = "InProgress"}
           F == {ix[k].fence : k \in leased} \union {0}
<1>1. \A k \in leased : ix[k] \in InProgressStates
  BY Tags
<1>2. F \in SUBSET Nat /\ F # {} /\ \A x \in F : x <= b
  <2>1. \A k \in leased : ix[k].fence \in Nat /\ ix[k].fence <= b
    BY <1>1 DEF InProgressStates
  <2>2. 0 <= b
    OBVIOUS
  <2> HIDE DEF leased
  <2>3. QED
    BY <2>1, <2>2
<1>3. RecoveredFence(ix) = 1 + Max(F)
  BY DEF RecoveredFence
<1>4. \A k \in Keys : ix[k].tag = "InProgress" => ix[k].fence \in F
  OBVIOUS
<1> HIDE DEF F
<1>5. Max(F) \in F /\ \A x \in F : x <= Max(F)
  BY <1>2, MaxProperty
<1>6. Max(F) \in Nat
  BY <1>2, <1>5
<1>7. ASSUME NEW k \in Keys, ix[k].tag = "InProgress"
      PROVE  ix[k].fence < RecoveredFence(ix)
  <2>1. ix[k].fence \in F /\ ix[k].fence \in Nat
    BY <1>2, <1>4, <1>7
  <2>2. ix[k].fence <= Max(F)
    BY <1>5, <2>1
  <2>3. QED
    BY <1>3, <1>6, <2>1, <2>2
<1>8. RecoveredFence(ix) \in Nat \ {0}
  BY <1>3, <1>6
<1>9. QED
  BY <1>7, <1>8

\* The fences of a shard are below its counter.
FencesBelow ==
    \A s \in Shards, k \in Keys :
        index[s][k].tag = "InProgress" => index[s][k].fence < nextFence[s]

\* begin_phase that runs: what it writes.
LEMMA BeginRunFacts ==
    ASSUME ShapeOK, NEW r \in Requests, BeginRun(r)
    PROVE  LET k == req[r].key
               s == RouteShard(r)
               st == StartState(nextFence[s], req[r].fp, req[r].at, 0)
           IN  /\ k \in Keys /\ s \in Shards
               /\ st \in KeyState /\ st.tag = "InProgress" /\ st.fence = nextFence[s]
               /\ st.fingerprint = req[r].fp
               /\ st.leaseExpiresAt = req[r].at + LeaseMs
               /\ index' = [index EXCEPT ![s] = [index[s] EXCEPT ![k] = st]]
               /\ nextFence' = [nextFence EXCEPT ![s] = nextFence[s] + 1]
               /\ life' = IF index[s][k].tag = "Completed"
                          THEN [life EXCEPT ![k] = life[k] + 1] ELSE life
               /\ lifeOf' = [lifeOf EXCEPT ![r] = life'[k]]
               /\ home' = [home EXCEPT ![r] = s]
               /\ token' = [token EXCEPT ![r] = nextFence[s]]
<1> DEFINE k == req[r].key
           s == RouteShard(r)
           st == StartState(nextFence[s], req[r].fp, req[r].at, 0)
<1>1. k \in Keys /\ req[r].fp \in Fingerprints /\ req[r].at \in 0..MaxClock
      /\ req[r].at \in Instants
  BY RequestFacts DEF BeginRun
<1>2. s \in Shards
  <2>1. hash[k] \in Nat /\ shardCount \in ShardCounts
    BY <1>1, GatewayAssumption DEF ShapeOK
  <2>2. QED
    BY <2>1, ShardFacts DEF RouteShard
<1>3. nextFence[s] \in Nat
  BY <1>2 DEF ShapeOK
<1>4. /\ st \in KeyState /\ st.tag = "InProgress" /\ st.fence = nextFence[s]
  BY <1>1, <1>3, StartStateType
<1>5. st.fingerprint = req[r].fp /\ st.leaseExpiresAt = SaturatingAdd(req[r].at, LeaseMs)
  BY DEF StartState, InProgress
<1>6. SaturatingAdd(req[r].at, LeaseMs) = req[r].at + LeaseMs
  BY <1>1, GatewayAssumption, DurationsAssumption DEF SaturatingAdd
<1>7. /\ index' = [index EXCEPT ![s] = [index[s] EXCEPT ![k] = st]]
      /\ nextFence' = [nextFence EXCEPT ![s] = nextFence[s] + 1]
      /\ life' = IF index[s][k].tag = "Completed"
                 THEN [life EXCEPT ![k] = life[k] + 1] ELSE life
      /\ lifeOf' = [lifeOf EXCEPT ![r] = life'[k]]
      /\ home' = [home EXCEPT ![r] = s]
      /\ token' = [token EXCEPT ![r] = nextFence[s]]
  BY DEF BeginRun
<1>8. QED
  BY <1>1, <1>2, <1>4, <1>5, <1>6, <1>7

\* begin_phase that answers at once: the answer, and where it was counted.
LEMMA BeginDoneFacts ==
    ASSUME ShapeOK, NEW r \in Requests, BeginDone(r)
    PROVE  LET k == req[r].key
               s == RouteShard(r)
               st == index[s][k]
           IN  /\ k \in Keys /\ s \in Shards
               /\ \/ /\ answer'[r] = [status |-> "replayed", from |-> st.outcome]
                     /\ st.tag = "Completed" /\ st.fingerprint = req[r].fp
                     /\ st.outcome \in Requests
                     /\ Count(s, {"requests_total", "replayed"})
                  \/ /\ answer'[r] = [status |-> "in_progress"]
                     /\ Count(s, {"requests_total", "in_progress"})
                  \/ /\ answer'[r] = [status |-> "mismatch"]
                     /\ Count(s, {"requests_total", "mismatch"})
               /\ answer' = [answer EXCEPT ![r] = answer'[r]]
               /\ answer'[r] \in Answers
<1> DEFINE k == req[r].key
           s == RouteShard(r)
           st == index[s][k]
           decision == BeginDecision(st, req[r].fp, req[r].at)
           done == CASE decision = "Replay" -> [status |-> "replayed", from |-> st.outcome]
                     [] decision = "InProgress" -> [status |-> "in_progress"]
                     [] decision = "Mismatch" -> [status |-> "mismatch"]
<1>1. k \in Keys
  BY RequestFacts DEF BeginDone
<1>2. s \in Shards
  <2>1. hash[k] \in Nat /\ shardCount \in ShardCounts
    BY <1>1, GatewayAssumption DEF ShapeOK
  <2>2. QED
    BY <2>1, ShardFacts DEF RouteShard
<1>3. st \in KeyState \union {Absent}
  BY <1>1, <1>2 DEF ShapeOK
<1>4. /\ decision # "Start" /\ Count(s, {"requests_total", done.status})
      /\ answer' = [answer EXCEPT ![r] = done]
  BY DEF BeginDone
<1>5. answer \in [Requests -> Answers]
  BY DEF ShapeOK
<1> HIDE DEF s, k
<1>6. \/ decision = "Replay" /\ st.tag = "Completed" /\ st.fingerprint = req[r].fp
      \/ decision = "InProgress"
      \/ decision = "Mismatch"
  BY <1>3, <1>4, Tags DEF BeginDecision
<1>7. st.tag = "Completed" => st.outcome \in Requests
  BY <1>3, Tags, GatewayAssumption DEF CompletedStates
<1> HIDE DEF decision, st
<1>8. answer'[r] = done
  BY <1>4, <1>5
<1>9. /\ decision = "Replay" => done = [status |-> "replayed", from |-> st.outcome]
      /\ decision = "InProgress" => done = [status |-> "in_progress"]
      /\ decision = "Mismatch" => done = [status |-> "mismatch"]
  OBVIOUS
<1> HIDE DEF done
<1>10. /\ \/ /\ answer'[r] = [status |-> "replayed", from |-> st.outcome]
             /\ st.tag = "Completed" /\ st.fingerprint = req[r].fp
             /\ st.outcome \in Requests
             /\ Count(s, {"requests_total", "replayed"})
          \/ /\ answer'[r] = [status |-> "in_progress"]
             /\ Count(s, {"requests_total", "in_progress"})
          \/ /\ answer'[r] = [status |-> "mismatch"]
             /\ Count(s, {"requests_total", "mismatch"})
  <2>1. CASE decision = "Replay"
    <3>1. done.status = "replayed"
      BY <1>9, <2>1
    <3>2. QED
      BY <1>4, <1>6, <1>7, <1>8, <1>9, <2>1, <3>1
  <2>2. CASE decision = "InProgress"
    <3>1. done.status = "in_progress"
      BY <1>9, <2>2
    <3>2. QED
      BY <1>4, <1>8, <1>9, <2>2, <3>1
  <2>3. CASE decision = "Mismatch"
    <3>1. done.status = "mismatch"
      BY <1>9, <2>3
    <3>2. QED
      BY <1>4, <1>8, <1>9, <2>3, <3>1
  <2>4. QED
    BY <1>6, <2>1, <2>2, <2>3
<1>11. answer'[r] \in Answers
  BY <1>10, SMTT(30) DEF Answers
<1>12. QED
  BY <1>1, <1>2, <1>4, <1>8, <1>10, <1>11 DEF s, k, st

\* complete_phase: what it counts, what it serves and what it stores.
LEMMA CompletePhaseFacts ==
    ASSUME ShapeOK, NEW r \in Requests, NEW result \in Results,
           CompletePhase(r, result)
    PROVE  LET k == req[r].key
               s == home[r]
               st == index[s][k]
               new == Completed(st.fingerprint, r, req[r].at)
           IN  /\ s \in Shards
               /\ OutcomeCounter(r, result) \in {"upstream_error", "passthrough", "created"}
               /\ Served(r, result) \in Answers
               /\ Served(r, result).status = "created" <=> result = "ok" /\ k # NoKey
               /\ Served(r, result).status # "replayed"
               /\ result = "ok" /\ k # NoKey =>
                    Served(r, result) = [status |-> "created", from |-> r]
               /\ Commits(r, result) =>
                    /\ k \in Keys /\ result = "ok" /\ st.tag = "InProgress"
                    /\ st.fence = token[r] /\ st.fingerprint \in Fingerprints
                    /\ new \in KeyState /\ new.tag = "Completed" /\ new.outcome = r
                    /\ new.fingerprint = st.fingerprint
                    /\ index' = [index EXCEPT ![s] = [index[s] EXCEPT ![k] = new]]
               /\ ~ Commits(r, result) => index' = index
               /\ Commits(r, result) \in BOOLEAN
<1> DEFINE k == req[r].key
           s == home[r]
           st == index[s][k]
           new == Completed(st.fingerprint, r, req[r].at)
<1>1. s \in Shards
  BY DEF ShapeOK
<1>2. OutcomeCounter(r, result) \in {"upstream_error", "passthrough", "created"}
  BY DEF OutcomeCounter, Results
<1>3. /\ result = "ok" /\ k # NoKey => OutcomeCounter(r, result) = "created"
      /\ result = "ok" /\ k = NoKey => OutcomeCounter(r, result) = "passthrough"
  BY DEF OutcomeCounter
<1>4. /\ result = "err" => Served(r, result) = [status |-> "upstream_error"]
      /\ result = "5xx" => Served(r, result) = [status |-> "5xx", from |-> r]
      /\ result = "ok" => Served(r, result) = [status |-> OutcomeCounter(r, result), from |-> r]
  BY DEF Served
<1>5. /\ Served(r, result) \in Answers
      /\ Served(r, result).status = "created" <=> result = "ok" /\ k # NoKey
      /\ Served(r, result).status # "replayed"
      /\ result = "ok" /\ k # NoKey => Served(r, result) = [status |-> "created", from |-> r]
  <2>1. CASE result = "err"
    BY <1>4, <2>1 DEF Answers
  <2>2. CASE result = "5xx"
    BY <1>4, <2>2 DEF Answers
  <2>3. CASE result = "ok"
    <3>1. CASE k = NoKey
      BY <1>3, <1>4, <2>3, <3>1 DEF Answers
    <3>2. CASE k # NoKey
      BY <1>3, <1>4, <2>3, <3>2 DEF Answers
    <3>3. QED
      BY <3>1, <3>2
  <2>4. QED
    BY <2>1, <2>2, <2>3 DEF Results
<1>6. ASSUME Commits(r, result)
      PROVE  /\ k \in Keys /\ result = "ok" /\ st.tag = "InProgress"
             /\ st.fence = token[r] /\ st.fingerprint \in Fingerprints
             /\ new \in KeyState /\ new.tag = "Completed" /\ new.outcome = r
             /\ new.fingerprint = st.fingerprint
             /\ index' = [index EXCEPT ![s] = [index[s] EXCEPT ![k] = new]]
  <2>1. k \in Keys /\ result = "ok" /\ CompleteDecision(st, token[r]) = "Ok"
    BY <1>6, RequestFacts DEF Commits
  <2>2. st \in KeyState \union {Absent}
    BY <1>1, <2>1 DEF ShapeOK
  <2>3. st.tag = "InProgress" /\ st.fence = token[r]
    BY <2>1, <2>2, Tags DEF CompleteDecision
  <2>4. st.fingerprint \in Fingerprints
    BY <2>2, <2>3, Tags DEF InProgressStates
  <2>5. r \in Outcomes /\ req[r].at \in Instants
    BY RequestFacts, GatewayAssumption
  <2>6. new \in KeyState /\ new.tag = "Completed" /\ new.outcome = r
    BY <2>4, <2>5, CompletedType
  <2>7. new.fingerprint = st.fingerprint
    BY DEF Completed
  <2>8. index' = [index EXCEPT ![s] = [index[s] EXCEPT ![k] = new]]
    BY <1>6 DEF CompletePhase, CompleteShard
  <2>9. QED
    BY <2>1, <2>3, <2>4, <2>6, <2>7, <2>8
<1>7. ~ Commits(r, result) => index' = index
  BY DEF CompletePhase
<1>8. Commits(r, result) \in BOOLEAN
  BY DEF Commits
<1>9. QED
  BY <1>1, <1>2, <1>5, <1>6, <1>7, <1>8

\* Every action keeps the shape of the state and the fences below the counters.
LEMMA ShapeNext ==
    ASSUME ShapeOK, FencesBelow, [Next]_vars
    PROVE  ShapeOK' /\ FencesBelow'
<1>a. shardCount \in Nat \ {0} /\ Max(ShardCounts) \in Nat /\ shardCount <= Max(ShardCounts)
  BY ShardFacts DEF ShapeOK
<1>b. \A s \in Shards, k \in Keys : /\ index[s][k] \in KeyState \union {Absent}
                                    /\ nextFence[s] \in Nat \ {0}
  BY DEF ShapeOK
<1>c. UNCHANGED <<index, nextFence>> => FencesBelow'
  BY DEF FencesBelow
<1>1. ASSUME NEW r \in Requests, Arrive(r) PROVE ShapeOK' /\ FencesBelow'
  <2>1. req' \in [Requests -> Arrivals(0..MaxClock)]
    <3>1. req[r] \in Arrivals(0..MaxClock) /\ clock \in 0..MaxClock
          /\ req \in [Requests -> Arrivals(0..MaxClock)]
      BY DEF ShapeOK
    <3>2. [req[r] EXCEPT !.at = clock] \in Arrivals(0..MaxClock)
      BY <3>1 DEF Arrivals
    <3>3. req' = [req EXCEPT ![r] = [req[r] EXCEPT !.at = clock]]
      BY <1>1 DEF Arrive
    <3>4. QED
      BY <3>1, <3>2, <3>3
  <2>2. pc' \in [Requests -> {"idle", "arrived", "forwarding", "answered",
                              "cancelled", "lost"}]
    BY <1>1 DEF Arrive, ShapeOK
  <2>3. QED
    BY <1>1, <1>c, <2>1, <2>2 DEF Arrive, ShapeOK, engineVars, routerVars
<1>2. ASSUME NEW r \in Requests, Deny(r) PROVE ShapeOK' /\ FencesBelow'
  <2>1. /\ pc' \in [Requests -> {"idle", "arrived", "forwarding", "answered",
                                 "cancelled", "lost"}]
        /\ denied' \in Nat
    BY <1>2 DEF Deny, ShapeOK
  <2>2. answer' \in [Requests -> Answers]
    <3>1. [status |-> "denied"] \in Answers
      BY DEF Answers
    <3>2. QED
      BY <1>2, <3>1 DEF Deny, ShapeOK
  <2>3. QED
    BY <1>2, <1>c, <2>1, <2>2 DEF Deny, ShapeOK, engineVars
<1>3. ASSUME NEW r \in Requests, BeginKeyless(r) PROVE ShapeOK' /\ FencesBelow'
  <2>1. nextShard \in Shards /\ nextShard \in Nat
    BY ShardFacts DEF ShapeOK
  <2>2. nextShard' \in Shards
    <3>1. nextShard + 1 \in Nat
      BY <2>1
    <3>2. QED
      BY <1>3, <3>1, ShardFacts DEF BeginKeyless, ShapeOK
  <2>3. metrics' \in [Shards -> [Counters -> Nat]]
    BY <1>3, <2>1, CountType DEF BeginKeyless, ShapeOK
  <2>4. /\ pc' \in [Requests -> {"idle", "arrived", "forwarding", "answered",
                                 "cancelled", "lost"}]
        /\ home' \in [Requests -> Shards]
        /\ backend' \in [Requests -> {"none", "sent", "ran"}]
    BY <1>3, <2>1 DEF BeginKeyless, ShapeOK
  <2>5. QED
    BY <1>3, <1>c, <2>2, <2>3, <2>4 DEF BeginKeyless, ShapeOK, engineVars, routerVars
<1>4. ASSUME NEW r \in Requests, BeginRun(r) PROVE ShapeOK' /\ FencesBelow'
  <2> DEFINE k == req[r].key
             s == RouteShard(r)
             st == StartState(nextFence[s], req[r].fp, req[r].at, 0)
  <2>1. /\ k \in Keys /\ s \in Shards
        /\ st \in KeyState /\ st.tag = "InProgress" /\ st.fence = nextFence[s]
        /\ index' = [index EXCEPT ![s] = [index[s] EXCEPT ![k] = st]]
        /\ nextFence' = [nextFence EXCEPT ![s] = nextFence[s] + 1]
        /\ life' = IF index[s][k].tag = "Completed"
                   THEN [life EXCEPT ![k] = life[k] + 1] ELSE life
        /\ lifeOf' = [lifeOf EXCEPT ![r] = life'[k]]
        /\ home' = [home EXCEPT ![r] = s]
        /\ token' = [token EXCEPT ![r] = nextFence[s]]
    BY <1>4, BeginRunFacts
  <2>2. Count(s, {"requests_total"})
    BY <1>4 DEF BeginRun
  <2> HIDE DEF k, s, st
  <2>3. metrics' \in [Shards -> [Counters -> Nat]]
    BY <2>1, <2>2, CountType DEF ShapeOK
  <2>4. index' \in [Shards -> [Keys -> KeyState \union {Absent}]]
    BY <2>1 DEF ShapeOK
  <2>5. nextFence' \in [Shards -> Nat \ {0}]
    BY <2>1 DEF ShapeOK
  <2>6. life' \in [Keys -> Nat] /\ lifeOf' \in [Requests -> Nat]
    <3>1. life' \in [Keys -> Nat]
      BY <2>1 DEF ShapeOK
    <3>2. QED
      BY <2>1, <3>1 DEF ShapeOK
  <2>7. /\ pc' \in [Requests -> {"idle", "arrived", "forwarding", "answered",
                                 "cancelled", "lost"}]
        /\ backend' \in [Requests -> {"none", "sent", "ran"}]
    BY <1>4 DEF BeginRun, ShapeOK
  <2>8. home' \in [Requests -> Shards] /\ token' \in [Requests -> Nat]
    BY <1>b, <2>1 DEF ShapeOK
  <2>9. ShapeOK'
    BY <1>4, <2>3, <2>4, <2>5, <2>6, <2>7, <2>8 DEF BeginRun, ShapeOK, routerVars
  <2>10. FencesBelow'
    <3> SUFFICES ASSUME NEW x \in Shards, NEW j \in Keys, index'[x][j].tag = "InProgress"
                 PROVE  index'[x][j].fence < nextFence'[x]
      BY DEF FencesBelow
    <3>1. CASE x = s /\ j = k
      <4>1. index'[x][j] = st
        BY <2>1, <3>1 DEF ShapeOK
      <4>2. nextFence'[x] = nextFence[s] + 1 /\ nextFence[s] \in Nat
        BY <2>1, <3>1 DEF ShapeOK
      <4>3. QED
        BY <2>1, <4>1, <4>2
    <3>2. CASE ~ (x = s /\ j = k)
      <4>1. index'[x][j] = index[x][j]
        BY <2>1, <3>2 DEF ShapeOK
      <4>2. nextFence'[x] >= nextFence[x] /\ nextFence'[x] \in Nat /\ nextFence[x] \in Nat
        BY <2>1 DEF ShapeOK
      <4>3. index[x][j].fence < nextFence[x]
        BY <4>1 DEF FencesBelow
      <4>4. index[x][j].fence \in Nat
        BY <1>b, <4>1, Tags DEF InProgressStates
      <4>5. QED
        BY <4>1, <4>2, <4>3, <4>4
    <3>3. QED
      BY <3>1, <3>2
  <2>11. QED
    BY <2>9, <2>10
<1>5. ASSUME NEW r \in Requests, BeginDone(r) PROVE ShapeOK' /\ FencesBelow'
  <2> DEFINE s == RouteShard(r)
             k == req[r].key
  <2>1. s \in Shards /\ k \in Keys
    BY <1>5, BeginDoneFacts
  <2>2. answer' = [answer EXCEPT ![r] = answer'[r]] /\ answer'[r] \in Answers
    BY <1>5, BeginDoneFacts
  <2>3. \E cs : Count(s, cs)
    BY <1>5 DEF BeginDone
  <2> HIDE DEF s
  <2>4. metrics' \in [Shards -> [Counters -> Nat]]
    BY <2>1, <2>3, CountType DEF ShapeOK
  <2>5. answer' \in [Requests -> Answers]
    BY <2>2 DEF ShapeOK
  <2>6. /\ pc' \in [Requests -> {"idle", "arrived", "forwarding", "answered",
                                 "cancelled", "lost"}]
        /\ home' \in [Requests -> Shards]
        /\ lifeOf' \in [Requests -> Nat]
    BY <1>5, <2>1 DEF BeginDone, ShapeOK, s
  <2>7. QED
    BY <1>5, <1>c, <2>4, <2>5, <2>6 DEF BeginDone, ShapeOK, engineVars, routerVars
<1>6. ASSUME NEW r \in Requests, BackendRuns(r) PROVE ShapeOK' /\ FencesBelow'
  <2>1. backend' \in [Requests -> {"none", "sent", "ran"}]
    BY <1>6 DEF BackendRuns, ShapeOK
  <2>2. QED
    BY <1>6, <1>c, <2>1 DEF BackendRuns, ShapeOK, engineVars, routerVars
<1>7. ASSUME NEW r \in Requests, Cancel(r) PROVE ShapeOK' /\ FencesBelow'
  <2>1. /\ pc' \in [Requests -> {"idle", "arrived", "forwarding", "answered",
                                 "cancelled", "lost"}]
        /\ token' \in [Requests -> Nat]
    BY <1>7 DEF Cancel, ShapeOK
  <2>2. QED
    BY <1>7, <1>c, <2>1, SMTT(30) DEF Cancel, ShapeOK, engineVars, routerVars
<1>8. ASSUME NEW r \in Requests, NEW result \in Results, CompletePhase(r, result)
      PROVE  ShapeOK' /\ FencesBelow'
  <2> DEFINE s == home[r]
             k == req[r].key
             new == Completed(index[s][k].fingerprint, r, req[r].at)
  <2>1. /\ s \in Shards /\ Served(r, result) \in Answers
        /\ Commits(r, result) =>
              /\ k \in Keys /\ new \in KeyState /\ new.tag = "Completed"
              /\ index' = [index EXCEPT ![s] = [index[s] EXCEPT ![k] = new]]
        /\ ~ Commits(r, result) => index' = index
    BY <1>8, CompletePhaseFacts
  <2>2. metrics' \in [Shards -> [Counters -> Nat]]
    <3>1. Count(s, {OutcomeCounter(r, result)})
      BY <1>8 DEF CompletePhase, CompleteShard
    <3> HIDE DEF s
    <3>2. QED
      BY <2>1, <3>1, CountType DEF ShapeOK
  <2> HIDE DEF s, k, new
  <2>0. index \in [Shards -> [Keys -> KeyState \union {Absent}]]
    BY DEF ShapeOK
  <2>3. /\ index' \in [Shards -> [Keys -> KeyState \union {Absent}]]
        /\ \A x \in Shards, j \in Keys :
                index'[x][j].tag = "InProgress" => index'[x][j] = index[x][j]
    <3>1. CASE Commits(r, result)
      <4>1. /\ k \in Keys /\ new \in KeyState /\ new.tag = "Completed"
            /\ index' = [index EXCEPT ![s] = [index[s] EXCEPT ![k] = new]]
        BY <2>1, <3>1
      <4>2. QED
        BY <2>0, <2>1, <4>1
    <3>2. CASE ~ Commits(r, result)
      BY <2>0, <2>1, <3>2
    <3>3. QED
      BY <3>1, <3>2
  <2>4. /\ pc' \in [Requests -> {"idle", "arrived", "forwarding", "answered",
                                 "cancelled", "lost"}]
        /\ token' \in [Requests -> Nat]
        /\ forwarded' \in [Requests -> Results \union {"none"}]
        /\ answer' \in [Requests -> Answers]
    BY <1>8, <2>1 DEF CompletePhase, ShapeOK
  <2>5. ShapeOK'
    BY <1>8, <2>2, <2>3, <2>4 DEF CompletePhase, ShapeOK, routerVars
  <2>6. nextFence' = nextFence
    BY <1>8 DEF CompletePhase
  <2>7. FencesBelow'
    BY <2>3, <2>6 DEF FencesBelow
  <2>8. QED
    BY <2>5, <2>7
<1>9. ASSUME NEW s \in 0..(shardCount - 1), NEW now \in 0..MaxClock, PruneExpired(s, now)
      PROVE  ShapeOK' /\ FencesBelow'
  <2> DEFINE dropped == {k \in Keys : ~PruneKeeps(index[s][k], now)}
  <2>1. s \in Shards
    BY ShardFacts DEF ShapeOK
  <2>2. /\ index' = [index EXCEPT ![s] =
                        [k \in Keys |-> IF k \in dropped THEN Absent ELSE index[s][k]]]
        /\ life' = [k \in Keys |-> IF k \in dropped THEN life[k] + 1 ELSE life[k]]
    BY <1>9 DEF PruneExpired
  <2> HIDE DEF dropped
  <2>3. index' \in [Shards -> [Keys -> KeyState \union {Absent}]]
    <3>1. [k \in Keys |-> IF k \in dropped THEN Absent ELSE index[s][k]]
            \in [Keys -> KeyState \union {Absent}]
      BY <1>b, <2>1
    <3>2. QED
      BY <2>1, <2>2, <3>1 DEF ShapeOK
  <2>4. life' \in [Keys -> Nat]
    BY <2>2 DEF ShapeOK
  <2>5. ShapeOK'
    BY <1>9, <2>3, <2>4 DEF PruneExpired, ShapeOK, routerVars, requestVars
  <2>6. \A x \in Shards, j \in Keys :
            index'[x][j].tag = "InProgress" => index'[x][j] = index[x][j]
    BY <2>1, <2>2 DEF ShapeOK, Absent
  <2>7. FencesBelow'
    BY <1>9, <2>6 DEF FencesBelow, PruneExpired
  <2>8. QED
    BY <2>5, <2>7
<1>10. CASE ScrapeShard
  <2>1. scrape.read \in Nat /\ scrape.read < shardCount
    BY <1>10 DEF ScrapeShard, ShapeOK
  <2>2. scrape.read \in Shards
    BY <2>1, <1>a, ShardFacts DEF ShapeOK
  <2>3. metrics[scrape.read] \in [Counters -> Nat]
    BY <2>2 DEF ShapeOK
  <2>4. Merge(scrape.total, metrics[scrape.read]) \in [Counters -> Nat]
    BY <2>3 DEF ShapeOK, Merge
  <2>5. scrape' = [scrape EXCEPT
                !.read = scrape.read + 1,
                !.total = Merge(scrape.total, metrics[scrape.read]),
                !.before = IF scrape.read = 0 THEN metrics ELSE scrape.before]
    BY <1>10 DEF ScrapeShard
  <2>6. scrape.read + 1 \in 0..(Max(ShardCounts) + 1)
    BY <1>a, <2>1
  <2>7. scrape' \in [read: 0..(Max(ShardCounts) + 1),
                     total: [Counters -> Nat], denied: Nat,
                     before: [Shards -> [Counters -> Nat]]]
    BY <2>4, <2>5, <2>6 DEF ShapeOK
  <2>8. QED
    BY <1>10, <1>c, <2>7 DEF ScrapeShard, ShapeOK, engineVars, requestVars
<1>11. CASE ScrapeDenied
  <2>1. shardCount + 1 \in 0..(Max(ShardCounts) + 1)
    BY <1>a
  <2>2. scrape' \in [read: 0..(Max(ShardCounts) + 1),
                     total: [Counters -> Nat], denied: Nat,
                     before: [Shards -> [Counters -> Nat]]]
    BY <1>11, <2>1 DEF ScrapeDenied, ShapeOK
  <2>3. QED
    BY <1>11, <1>c, <2>2 DEF ScrapeDenied, ShapeOK, engineVars, requestVars
<1>12. CASE Crash
  <2>1. index' \in [Shards -> [Keys -> KeyState \union {Absent}]]
    BY <1>12 DEF Crash, RecoveredIndex, ShapeOK
  <2>2. \A s \in Shards, k \in Keys :
            index'[s][k].tag = "InProgress" => index'[s][k] = index[s][k]
    BY <1>12 DEF Crash, RecoveredIndex, ShapeOK, Absent
  <2>3. ASSUME NEW s \in Shards
        PROVE  /\ RecoveredFence(index'[s]) \in Nat \ {0}
               /\ \A k \in Keys : index'[s][k].tag = "InProgress"
                                    => index'[s][k].fence < RecoveredFence(index'[s])
    <3>1. index'[s] \in [Keys -> KeyState \union {Absent}] /\ nextFence[s] \in Nat
      BY <1>b, <2>1 DEF ShapeOK
    <3>2. ASSUME NEW k \in Keys, index'[s][k].tag = "InProgress"
          PROVE  index'[s][k].fence <= nextFence[s]
      <4>1. index[s][k].fence < nextFence[s] /\ index'[s][k] = index[s][k]
        BY <2>2, <3>2 DEF FencesBelow
      <4>2. index[s][k].fence \in Nat
        BY <1>b, <3>2, <4>1, Tags DEF InProgressStates
      <4>3. QED
        BY <3>1, <4>1, <4>2
    <3> HIDE DEF FencesBelow
    <3>3. QED
      BY <3>1, <3>2, RecoveredFenceProperty
  <2>4. nextFence' = [s \in Shards |-> RecoveredFence(index'[s])]
    BY <1>12 DEF Crash
  <2>5. nextFence' \in [Shards -> Nat \ {0}] /\ FencesBelow'
    BY <2>3, <2>4 DEF FencesBelow
  <2>6. shardCount' \in ShardCounts
    BY <1>12 DEF Crash, ShapeOK
  <2>7. /\ NoCounts \in [Shards -> [Counters -> Nat]]
        /\ NoScrape \in [read: 0..(Max(ShardCounts) + 1),
                         total: [Counters -> Nat], denied: Nat,
                         before: [Shards -> [Counters -> Nat]]]
    BY <1>a DEF NoCounts, NoScrape
  <2>8. /\ pc' \in [Requests -> {"idle", "arrived", "forwarding", "answered",
                                 "cancelled", "lost"}]
        /\ token' \in [Requests -> Nat]
    BY <1>12 DEF Crash, ShapeOK
  <2>9. nextShard' \in Shards
    BY <1>12, ShardFacts DEF Crash, ShapeOK
  <2>10. QED
    BY <1>12, <2>1, <2>5, <2>6, <2>7, <2>8, <2>9 DEF Crash, ShapeOK
<1>13. CASE Tick
  <2>1. clock' \in 0..MaxClock
    BY <1>13, GatewayAssumption DEF Tick, ShapeOK
  <2>2. overrun' \in BOOLEAN
    BY <1>13 DEF Tick
  <2>3. QED
    BY <1>13, <1>c, <2>1, <2>2 DEF Tick, ShapeOK, engineVars, routerVars, requestVars
<1>14. CASE UNCHANGED vars
  BY <1>14, <1>c DEF vars, ShapeOK, engineVars, routerVars, requestVars
<1>15. QED
  BY <1>1, <1>2, <1>3, <1>4, <1>5, <1>6, <1>7, <1>8, <1>9, <1>10, <1>11, <1>12, <1>13,
     <1>14 DEF Next

\* The initial states have that shape.
LEMMA ShapeInit == Init => ShapeOK /\ FencesBelow
<1> SUFFICES ASSUME Init PROVE ShapeOK /\ FencesBelow
  OBVIOUS
<1>1. shardCount \in ShardCounts
  BY DEF Init
<1>2. 0 \in Shards /\ Max(ShardCounts) \in Nat
  BY <1>1, ShardFacts
<1>3. req \in [Requests -> Arrivals(0..MaxClock)]
  <2>1. Arrivals({0}) \subseteq Arrivals(0..MaxClock)
    BY GatewayAssumption DEF Arrivals
  <2>2. QED
    BY <2>1 DEF Init
<1>4. NoAnswer \in Answers
  BY DEF Answers
<1>5. /\ NoCounts \in [Shards -> [Counters -> Nat]]
      /\ NoScrape \in [read: 0..(Max(ShardCounts) + 1),
                       total: [Counters -> Nat], denied: Nat,
                       before: [Shards -> [Counters -> Nat]]]
  BY <1>2 DEF NoCounts, NoScrape
<1>6. /\ index \in [Shards -> [Keys -> KeyState \union {Absent}]]
      /\ nextFence \in [Shards -> Nat \ {0}]
      /\ life \in [Keys -> Nat] /\ lifeOf \in [Requests -> Nat]
      /\ token \in [Requests -> Nat] /\ home \in [Requests -> Shards]
  BY <1>2 DEF Init
<1>7. /\ pc \in [Requests -> {"idle", "arrived", "forwarding", "answered",
                              "cancelled", "lost"}]
      /\ forwarded \in [Requests -> Results \union {"none"}]
      /\ answer \in [Requests -> Answers]
      /\ backend \in [Requests -> {"none", "sent", "ran"}]
  BY <1>4 DEF Init
<1>8. ShapeOK
  <2>1. /\ holdLock \in BOOLEAN /\ restart \in Restarts /\ hash \in [Keys -> Hashes]
        /\ nextShard \in Shards /\ denied \in Nat /\ overrun \in BOOLEAN
        /\ metrics = NoCounts /\ scrape = NoScrape
    BY <1>2 DEF Init
  <2>2. clock \in 0..MaxClock
    BY GatewayAssumption DEF Init
  <2>3. QED
    BY <1>1, <1>3, <1>5, <1>6, <1>7, <2>1, <2>2 DEF ShapeOK
<1>9. FencesBelow
  BY DEF Init, FencesBelow, Absent
<1>10. QED
  BY <1>8, <1>9

-----------------------------------------------------------------------------
(***************************************************************************)
(* The counters.                                                           *)
(***************************************************************************)

\* The requests begin_phase has counted, the ones that were answered, and the
\* ones of shard s that are between the two phases or were cancelled there.
Admitted == {r \in Requests : pc[r] \in {"forwarding", "answered", "cancelled"}}
Answered == {r \in Requests : pc[r] = "answered"}
Open(s) == {r \in Requests : home[r] = s /\ pc[r] \in {"forwarding", "cancelled"}}

\* No counter exceeds the number of requests that could have incremented it.
Counted ==
    /\ \A s \in Shards :
        /\ metrics[s]["requests_total"] <= Cardinality(Admitted)
        /\ \A c \in Counters \ {"requests_total"} : metrics[s][c] <= Cardinality(Answered)
    /\ denied <= Cardinality(Answered)

\* Sets of requests are finite, and grow and shrink by one.
LEMMA RequestSets ==
    ASSUME NEW T \in SUBSET Requests, NEW r \in Requests
    PROVE  /\ Cardinality(T) \in Nat
           /\ Cardinality(T) <= Cardinality(Requests)
           /\ r \notin T => Cardinality(T \union {r}) = Cardinality(T) + 1
           /\ r \in T => Cardinality(T \ {r}) = Cardinality(T) - 1
<1>1. IsFiniteSet(Requests)
  BY GatewayAssumption
<1>2. IsFiniteSet(T) /\ Cardinality(T) <= Cardinality(Requests)
  BY <1>1, FS_Subset
<1>3. QED
  BY <1>2, FS_CardinalityType, FS_AddElement, FS_RemoveElement

\* What Count leaves in every counter.
LEMMA CountEffect ==
    ASSUME ShapeOK, NEW s \in Shards, NEW cs, Count(s, cs),
           NEW x \in Shards, NEW c \in Counters
    PROVE  /\ metrics[x][c] \in Nat
           /\ metrics'[x][c] = IF x = s /\ c \in cs THEN metrics[x][c] + 1
                               ELSE metrics[x][c]
<1>1. metrics \in [Shards -> [Counters -> Nat]]
  BY DEF ShapeOK
<1>2. metrics' = [metrics EXCEPT ![s] =
                    [d \in Counters |-> IF d \in cs THEN metrics[s][d] + 1
                                        ELSE metrics[s][d]]]
  BY DEF Count
<1>3. QED
  BY <1>1, <1>2

\* Counting one outcome adds one to the sum of the outcomes of its shard.
LEMMA OutcomeSumEffect ==
    ASSUME ShapeOK, NEW s \in Shards, NEW cs, Count(s, cs),
           NEW o \in Counters \ {"requests_total"}, o \in cs,
           cs \subseteq {"requests_total", o}, NEW x \in Shards
    PROVE  /\ OutcomeSum(metrics[x]) \in Nat
           /\ OutcomeSum(metrics'[x]) = IF x = s THEN OutcomeSum(metrics[x]) + 1
                                        ELSE OutcomeSum(metrics[x])
<1>1. \A c \in Counters \ {"requests_total"} :
        /\ metrics[x][c] \in Nat
        /\ metrics'[x][c] = IF x = s /\ c = o THEN metrics[x][c] + 1 ELSE metrics[x][c]
  BY CountEffect
<1>2. Counters \ {"requests_total"} = {"created", "replayed", "in_progress",
                                      "mismatch", "upstream_error", "passthrough"}
  BY DEF Counters
<1>3. \A c \in {"created", "replayed", "in_progress", "mismatch", "upstream_error",
               "passthrough"} : metrics[x][c] \in Nat
  BY <1>1, <1>2
<1>4. OutcomeSum(metrics[x]) \in Nat
  BY <1>3 DEF OutcomeSum
<1>5. CASE x # s
  BY <1>1, <1>2, <1>5 DEF OutcomeSum
<1>6. CASE x = s
  <2>1. CASE o = "created"
    BY <1>1, <1>2, <1>3, <1>6, <2>1 DEF OutcomeSum
  <2>2. CASE o = "replayed"
    BY <1>1, <1>2, <1>3, <1>6, <2>2 DEF OutcomeSum
  <2>3. CASE o = "in_progress"
    BY <1>1, <1>2, <1>3, <1>6, <2>3 DEF OutcomeSum
  <2>4. CASE o = "mismatch"
    BY <1>1, <1>2, <1>3, <1>6, <2>4 DEF OutcomeSum
  <2>5. CASE o = "upstream_error"
    BY <1>1, <1>2, <1>3, <1>6, <2>5 DEF OutcomeSum
  <2>6. CASE o = "passthrough"
    <3>1. metrics'[x]["passthrough"] = metrics[x]["passthrough"] + 1
      BY <1>1, <1>2, <1>6, <2>6
    <3>2. \A c \in {"created", "replayed", "in_progress", "mismatch", "upstream_error"} :
            metrics'[x][c] = metrics[x][c]
      BY <1>1, <1>2, <2>6
    <3>3. QED
      BY <3>1, <3>2, <1>3, <1>6 DEF OutcomeSum
  <2>7. o \in {"created", "replayed", "in_progress", "mismatch", "upstream_error",
              "passthrough"}
    BY <1>2
  <2>8. QED
    BY <2>7, <2>1, <2>2, <2>3, <2>4, <2>5, <2>6
<1>7. QED
  BY <1>4, <1>5, <1>6

\* begin_phase counts a request that is forwarded.
LEMMA CountsBegun ==
    ASSUME ShapeOK, Counted, CountersBalance,
           NEW r \in Requests, NEW s \in Shards, pc[r] = "arrived",
           Count(s, {"requests_total"}), denied' = denied,
           pc' = [pc EXCEPT ![r] = "forwarding"], home' = [home EXCEPT ![r] = s]
    PROVE  Counted' /\ CountersBalance'
<1>1. \A x \in Shards, c \in Counters :
        /\ metrics[x][c] \in Nat
        /\ metrics'[x][c] = IF x = s /\ c = "requests_total" THEN metrics[x][c] + 1
                            ELSE metrics[x][c]
  BY CountEffect
<1>2. /\ r \notin Admitted /\ Admitted' = Admitted \union {r} /\ Answered' = Answered
      /\ Admitted \subseteq Requests /\ Answered \subseteq Requests
  BY DEF ShapeOK, Admitted, Answered
<1>3. \A x \in Shards : /\ Open(x) \subseteq Requests /\ r \notin Open(x)
                        /\ Open(x)' = IF x = s THEN Open(x) \union {r} ELSE Open(x)
  BY DEF ShapeOK, Open
<1>4. Cardinality(Admitted') = Cardinality(Admitted) + 1 /\ Cardinality(Admitted) \in Nat
  BY <1>2, RequestSets
<1>5. Counted'
  <2>1. \A x \in Shards : /\ metrics'[x]["requests_total"] <= Cardinality(Admitted')
                          /\ \A c \in Counters \ {"requests_total"} :
                                metrics'[x][c] <= Cardinality(Answered')
    BY <1>1, <1>2, <1>4 DEF Counted, Counters
  <2>2. QED
    BY <1>2, <2>1 DEF Counted
<1>6. ASSUME NEW x \in Shards
      PROVE  metrics'[x]["requests_total"] = OutcomeSum(metrics'[x]) + Cardinality(Open(x)')
  <2>1. metrics[x]["requests_total"] = OutcomeSum(metrics[x]) + Cardinality(Open(x))
    BY DEF CountersBalance, Open
  <2>2. OutcomeSum(metrics'[x]) = OutcomeSum(metrics[x]) /\ OutcomeSum(metrics[x]) \in Nat
    BY <1>1 DEF OutcomeSum, Counters
  <2>3. /\ Cardinality(Open(x)) \in Nat
        /\ Cardinality(Open(x) \union {r}) = Cardinality(Open(x)) + 1
    BY <1>3, RequestSets
  <2>4. /\ metrics'[x]["requests_total"] = IF x = s THEN metrics[x]["requests_total"] + 1
                                           ELSE metrics[x]["requests_total"]
        /\ metrics[x]["requests_total"] \in Nat
    BY <1>1 DEF Counters
  <2>5. Cardinality(Open(x)') = IF x = s THEN Cardinality(Open(x)) + 1
                                ELSE Cardinality(Open(x))
    BY <1>3, <2>3
  <2>6. QED
    BY <2>1, <2>2, <2>3, <2>4, <2>5
<1>7. CountersBalance'
  BY <1>6 DEF CountersBalance, Open
<1>8. QED
  BY <1>5, <1>7

\* begin_phase counts a request it answers, under its outcome too.
LEMMA CountsDone ==
    ASSUME ShapeOK, Counted, CountersBalance,
           NEW r \in Requests, NEW s \in Shards, pc[r] = "arrived",
           NEW o \in Counters \ {"requests_total"},
           Count(s, {"requests_total", o}), denied' = denied,
           pc' = [pc EXCEPT ![r] = "answered"], home' = [home EXCEPT ![r] = s]
    PROVE  Counted' /\ CountersBalance'
<1>1. \A x \in Shards, c \in Counters :
        /\ metrics[x][c] \in Nat
        /\ metrics'[x][c] = IF x = s /\ c \in {"requests_total", o}
                            THEN metrics[x][c] + 1 ELSE metrics[x][c]
  BY CountEffect
<1>2. /\ r \notin Admitted /\ Admitted' = Admitted \union {r}
      /\ r \notin Answered /\ Answered' = Answered \union {r}
      /\ Admitted \subseteq Requests /\ Answered \subseteq Requests
  BY DEF ShapeOK, Admitted, Answered
<1>3. \A x \in Shards : Open(x)' = Open(x) /\ Open(x) \subseteq Requests
  BY DEF ShapeOK, Open
<1>4. /\ Cardinality(Admitted') = Cardinality(Admitted) + 1 /\ Cardinality(Admitted) \in Nat
      /\ Cardinality(Answered') = Cardinality(Answered) + 1 /\ Cardinality(Answered) \in Nat
  BY <1>2, RequestSets
<1>5. Counted'
  <2>1. \A x \in Shards : /\ metrics'[x]["requests_total"] <= Cardinality(Admitted')
                          /\ \A c \in Counters \ {"requests_total"} :
                                metrics'[x][c] <= Cardinality(Answered')
    BY <1>1, <1>4 DEF Counted, Counters
  <2>2. denied' <= Cardinality(Answered') /\ denied \in Nat
    BY <1>4 DEF Counted, ShapeOK
  <2>3. QED
    BY <2>1, <2>2 DEF Counted
<1>6. ASSUME NEW x \in Shards
      PROVE  metrics'[x]["requests_total"] = OutcomeSum(metrics'[x]) + Cardinality(Open(x)')
  <2>1. metrics[x]["requests_total"] = OutcomeSum(metrics[x]) + Cardinality(Open(x))
    BY DEF CountersBalance, Open
  <2>2. /\ OutcomeSum(metrics'[x]) = IF x = s THEN OutcomeSum(metrics[x]) + 1
                                     ELSE OutcomeSum(metrics[x])
        /\ OutcomeSum(metrics[x]) \in Nat
    BY OutcomeSumEffect
  <2>3. Cardinality(Open(x)) \in Nat
    BY <1>3, RequestSets
  <2>4. /\ metrics'[x]["requests_total"] = IF x = s THEN metrics[x]["requests_total"] + 1
                                           ELSE metrics[x]["requests_total"]
        /\ metrics[x]["requests_total"] \in Nat
    BY <1>1 DEF Counters
  <2>5. QED
    BY <1>3, <2>1, <2>2, <2>3, <2>4
<1>7. CountersBalance'
  BY <1>6 DEF CountersBalance, Open
<1>8. QED
  BY <1>5, <1>7

\* complete_phase counts the outcome on the shard that counted the request.
LEMMA CountsCompleted ==
    ASSUME ShapeOK, Counted, CountersBalance,
           NEW r \in Requests, pc[r] = "forwarding",
           NEW o \in Counters \ {"requests_total"},
           Count(home[r], {o}), denied' = denied,
           pc' = [pc EXCEPT ![r] = "answered"], home' = home
    PROVE  Counted' /\ CountersBalance'
<1>0. home[r] \in Shards
  BY DEF ShapeOK
<1>1. \A x \in Shards, c \in Counters :
        /\ metrics[x][c] \in Nat
        /\ metrics'[x][c] = IF x = home[r] /\ c \in {o}
                            THEN metrics[x][c] + 1 ELSE metrics[x][c]
  BY <1>0, CountEffect
<1>2. /\ Admitted' = Admitted /\ r \notin Answered /\ Answered' = Answered \union {r}
      /\ Admitted \subseteq Requests /\ Answered \subseteq Requests
  BY DEF ShapeOK, Admitted, Answered
<1>3. \A x \in Shards : /\ Open(x) \subseteq Requests
                        /\ Open(x)' = IF x = home[r] THEN Open(x) \ {r} ELSE Open(x)
                        /\ x = home[r] => r \in Open(x)
  BY DEF ShapeOK, Open
<1>4. Cardinality(Answered') = Cardinality(Answered) + 1 /\ Cardinality(Answered) \in Nat
  BY <1>2, RequestSets
<1>5. Counted'
  <2>1. \A x \in Shards : /\ metrics'[x]["requests_total"] <= Cardinality(Admitted')
                          /\ \A c \in Counters \ {"requests_total"} :
                                metrics'[x][c] <= Cardinality(Answered')
    BY <1>1, <1>2, <1>4 DEF Counted, Counters
  <2>2. denied' <= Cardinality(Answered') /\ denied \in Nat
    BY <1>4 DEF Counted, ShapeOK
  <2>3. QED
    BY <2>1, <2>2 DEF Counted
<1>6. ASSUME NEW x \in Shards
      PROVE  metrics'[x]["requests_total"] = OutcomeSum(metrics'[x]) + Cardinality(Open(x)')
  <2>1. metrics[x]["requests_total"] = OutcomeSum(metrics[x]) + Cardinality(Open(x))
    BY DEF CountersBalance, Open
  <2>2. /\ OutcomeSum(metrics'[x]) = IF x = home[r] THEN OutcomeSum(metrics[x]) + 1
                                     ELSE OutcomeSum(metrics[x])
        /\ OutcomeSum(metrics[x]) \in Nat
    BY <1>0, OutcomeSumEffect
  <2>3. /\ Cardinality(Open(x)) \in Nat
        /\ x = home[r] => Cardinality(Open(x) \ {r}) = Cardinality(Open(x)) - 1
    BY <1>3, RequestSets
  <2>4. metrics'[x]["requests_total"] = metrics[x]["requests_total"]
    BY <1>1 DEF Counters
  <2>5. Cardinality(Open(x)') = IF x = home[r] THEN Cardinality(Open(x)) - 1
                                ELSE Cardinality(Open(x))
    BY <1>3, <2>3
  <2>6. QED
    BY <2>1, <2>2, <2>3, <2>4, <2>5
<1>7. CountersBalance'
  BY <1>6 DEF CountersBalance, Open
<1>8. QED
  BY <1>5, <1>7

\* Every action keeps the counters in step with the requests.
LEMMA CountersNext ==
    ASSUME ShapeOK, Counted, CountersBalance, [Next]_vars
    PROVE  Counted' /\ CountersBalance'
<1>a. ASSUME metrics' = metrics, denied' = denied, Admitted' = Admitted,
             Answered' = Answered, \A x \in Shards : Open(x)' = Open(x)
      PROVE  Counted' /\ CountersBalance'
  BY <1>a DEF Counted, CountersBalance, Open
<1>b. UNCHANGED <<metrics, denied, pc, home>> => Counted' /\ CountersBalance'
  BY DEF Counted, CountersBalance, Admitted, Answered
<1>1. ASSUME NEW r \in Requests, Arrive(r) PROVE Counted' /\ CountersBalance'
  <2>1. /\ pc[r] = "idle" /\ pc' = [pc EXCEPT ![r] = "arrived"]
        /\ UNCHANGED <<metrics, denied, home>>
    BY <1>1 DEF Arrive, routerVars
  <2>2. Admitted' = Admitted /\ Answered' = Answered /\ \A x \in Shards : Open(x)' = Open(x)
    BY <2>1 DEF ShapeOK, Admitted, Answered, Open
  <2>3. QED
    BY <1>a, <2>1, <2>2
<1>2. ASSUME NEW r \in Requests, Deny(r) PROVE Counted' /\ CountersBalance'
  <2>1. /\ pc[r] = "arrived" /\ pc' = [pc EXCEPT ![r] = "answered"]
        /\ UNCHANGED <<metrics, home>> /\ denied' = denied + 1 /\ denied \in Nat
    BY <1>2 DEF Deny, ShapeOK
  <2>2. /\ r \notin Admitted /\ Admitted' = Admitted \union {r}
        /\ r \notin Answered /\ Answered' = Answered \union {r}
        /\ Admitted \subseteq Requests /\ Answered \subseteq Requests
    BY <2>1 DEF ShapeOK, Admitted, Answered
  <2>3. \A x \in Shards : Open(x)' = Open(x)
    BY <2>1 DEF ShapeOK, Open
  <2>4. /\ Cardinality(Admitted') = Cardinality(Admitted) + 1 /\ Cardinality(Admitted) \in Nat
        /\ Cardinality(Answered') = Cardinality(Answered) + 1 /\ Cardinality(Answered) \in Nat
    BY <2>2, RequestSets
  <2>5. CountersBalance'
    BY <2>1, <2>3 DEF CountersBalance, Open
  <2>6. \A x \in Shards, c \in Counters : metrics[x][c] \in Nat
    BY DEF ShapeOK
  <2>7. Counted'
    BY <2>1, <2>4, <2>6 DEF Counted, Counters
  <2>8. QED
    BY <2>5, <2>7
<1>3. ASSUME NEW r \in Requests, BeginKeyless(r) PROVE Counted' /\ CountersBalance'
  <2>1. /\ nextShard \in Shards /\ pc[r] = "arrived" /\ Count(nextShard, {"requests_total"})
        /\ denied' = denied /\ pc' = [pc EXCEPT ![r] = "forwarding"]
        /\ home' = [home EXCEPT ![r] = nextShard]
    BY <1>3 DEF BeginKeyless, ShapeOK, routerVars
  <2>2. QED
    BY <2>1, CountsBegun
<1>4. ASSUME NEW r \in Requests, BeginRun(r) PROVE Counted' /\ CountersBalance'
  <2>1. /\ pc[r] = "arrived" /\ Count(RouteShard(r), {"requests_total"})
        /\ denied' = denied /\ pc' = [pc EXCEPT ![r] = "forwarding"]
        /\ home' = [home EXCEPT ![r] = RouteShard(r)]
    BY <1>4 DEF BeginRun, routerVars
  <2>2. RouteShard(r) \in Shards
    BY <1>4, BeginRunFacts
  <2>3. QED
    BY <2>1, <2>2, CountsBegun
<1>5. ASSUME NEW r \in Requests, BeginDone(r) PROVE Counted' /\ CountersBalance'
  <2>1. /\ pc[r] = "arrived"
        /\ denied' = denied /\ pc' = [pc EXCEPT ![r] = "answered"]
        /\ home' = [home EXCEPT ![r] = RouteShard(r)]
    BY <1>5 DEF BeginDone, routerVars
  <2>2. /\ RouteShard(r) \in Shards
        /\ \E o \in {"replayed", "in_progress", "mismatch"} :
                Count(RouteShard(r), {"requests_total", o})
    BY <1>5, BeginDoneFacts
  <2>3. PICK o \in Counters \ {"requests_total"} :
            Count(RouteShard(r), {"requests_total", o})
    BY <2>2 DEF Counters
  <2>4. QED
    BY <2>1, <2>2, <2>3, CountsDone
<1>6. ASSUME NEW r \in Requests, NEW result \in Results, CompletePhase(r, result)
      PROVE  Counted' /\ CountersBalance'
  <2>1. /\ pc[r] = "forwarding" /\ Count(home[r], {OutcomeCounter(r, result)})
        /\ denied' = denied /\ pc' = [pc EXCEPT ![r] = "answered"] /\ home' = home
    BY <1>6 DEF CompletePhase, CompleteShard, routerVars
  <2>2. OutcomeCounter(r, result) \in Counters \ {"requests_total"}
    <3>1. OutcomeCounter(r, result) \in {"upstream_error", "passthrough", "created"}
      BY <1>6, CompletePhaseFacts
    <3>2. QED
      BY <3>1 DEF Counters
  <2>3. QED
    BY <2>1, <2>2, CountsCompleted
<1>7. ASSUME NEW r \in Requests, Cancel(r) PROVE Counted' /\ CountersBalance'
  <2>1. /\ pc[r] = "forwarding" /\ pc' = [pc EXCEPT ![r] = "cancelled"]
        /\ UNCHANGED <<metrics, denied, home>>
    BY <1>7 DEF Cancel, routerVars
  <2>2. Admitted' = Admitted /\ Answered' = Answered /\ \A x \in Shards : Open(x)' = Open(x)
    BY <2>1 DEF ShapeOK, Admitted, Answered, Open
  <2>3. QED
    BY <1>a, <2>1, <2>2
<1>8. CASE Crash
  <2>1. /\ metrics' = NoCounts /\ denied' = 0
        /\ \A r \in Requests : pc'[r] \in {"idle", "answered", "lost"}
    BY <1>8 DEF Crash
  <2>2. Admitted' \subseteq Requests /\ Answered' \subseteq Requests
        /\ \A x \in Shards : Open(x)' = {}
    BY <2>1 DEF Admitted, Answered, Open
  <2>3. Cardinality(Admitted') >= 0 /\ Cardinality(Answered') >= 0
    <3>1. Admitted' \in SUBSET Requests /\ Answered' \in SUBSET Requests
      BY <2>2
    <3>2. IsFiniteSet(Admitted') /\ IsFiniteSet(Answered')
      BY <3>1, GatewayAssumption, FS_Subset
    <3>3. Cardinality(Admitted') \in Nat /\ Cardinality(Answered') \in Nat
      BY <3>2, FS_CardinalityType
    <3>4. QED
      BY <3>3
  <2>4. \A x \in Shards, c \in Counters : metrics'[x][c] = 0
    BY <2>1 DEF NoCounts
  <2>5. Counted'
    BY <2>1, <2>3, <2>4 DEF Counted, Counters
  <2>6. \A x \in Shards : OutcomeSum(metrics'[x]) = 0
    BY <2>4 DEF OutcomeSum, Counters
  <2>7. Cardinality({}) = 0
    BY FS_EmptySet
  <2>8. CountersBalance'
    BY <2>2, <2>4, <2>6, <2>7 DEF CountersBalance, Open, Counters
  <2>9. QED
    BY <2>5, <2>8
<1>9. QED
  <2>1. ASSUME NEW r \in Requests, BackendRuns(r) PROVE Counted' /\ CountersBalance'
    BY <1>b, <2>1 DEF BackendRuns, routerVars
  <2>2. ASSUME NEW s \in 0..(shardCount - 1), NEW now \in 0..MaxClock, PruneExpired(s, now)
        PROVE  Counted' /\ CountersBalance'
    BY <1>b, <2>2 DEF PruneExpired, routerVars, requestVars
  <2>3. CASE ScrapeShard \/ ScrapeDenied
    BY <1>b, <2>3 DEF ScrapeShard, ScrapeDenied, requestVars
  <2>4. CASE Tick \/ UNCHANGED vars
    BY <1>b, <2>4 DEF Tick, vars, routerVars, requestVars
  <2>5. QED
    BY <1>1, <1>2, <1>3, <1>4, <1>5, <1>6, <1>7, <1>8, <2>1, <2>2, <2>3, <2>4 DEF Next

\* The initial counters.
LEMMA CountersInit == Init => Counted /\ CountersBalance
<1> SUFFICES ASSUME Init PROVE Counted /\ CountersBalance
  OBVIOUS
<1>1. /\ metrics = NoCounts /\ denied = 0
      /\ \A r \in Requests : pc[r] = "idle"
  BY DEF Init
<1>2. Admitted = {} /\ Answered = {} /\ \A x \in Shards : Open(x) = {}
  BY <1>1 DEF Admitted, Answered, Open
<1>3. Cardinality({}) = 0
  BY FS_EmptySet
<1>4. \A x \in Shards, c \in Counters : metrics[x][c] = 0
  BY <1>1 DEF NoCounts
<1>5. \A x \in Shards : OutcomeSum(metrics[x]) = 0
  BY <1>4 DEF OutcomeSum, Counters
<1>6. QED
  BY <1>1, <1>2, <1>3, <1>4, <1>5 DEF Counted, CountersBalance, Open, Counters

\* No counter of the gateway is ever out of its range, and no request is in a
\* state the code does not know.
THEOREM TypeCorrect == Spec => []TypeOK
<1> DEFINE Inv == ShapeOK /\ FencesBelow /\ Counted /\ CountersBalance
<1>1. Init => Inv
  BY ShapeInit, CountersInit
<1>2. Inv /\ [Next]_vars => Inv'
  BY ShapeNext, CountersNext
<1>3. Inv => TypeOK
  <2> SUFFICES ASSUME Inv PROVE TypeOK
    OBVIOUS
  <2>1. /\ Cardinality(Admitted) \in Nat /\ Cardinality(Admitted) <= Cardinality(Requests)
        /\ Cardinality(Answered) \in Nat /\ Cardinality(Answered) <= Cardinality(Requests)
        /\ Cardinality(Requests) \in Nat
    <3>1. Admitted \in SUBSET Requests /\ Answered \in SUBSET Requests
      BY DEF Admitted, Answered
    <3>2. QED
      BY <3>1, GatewayAssumption, FS_Subset, FS_CardinalityType
  <2>2. ASSUME NEW s \in Shards, NEW c \in Counters
        PROVE  metrics[s][c] \in 0..Cardinality(Requests)
    <3>1. metrics[s][c] \in Nat
      BY DEF ShapeOK
    <3>2. metrics[s][c] <= Cardinality(Admitted) \/ metrics[s][c] <= Cardinality(Answered)
      BY DEF Counted
    <3>3. QED
      BY <2>1, <3>1, <3>2
  <2>3. metrics \in [Shards -> [Counters -> 0..Cardinality(Requests)]]
    BY <2>2 DEF ShapeOK
  <2>4. denied \in 0..Cardinality(Requests)
    BY <2>1 DEF ShapeOK, Counted
  <2>5. QED
    BY <2>3, <2>4 DEF ShapeOK, TypeOK
<1>4. QED
  BY <1>1, <1>2, <1>3, PTL DEF Spec

\* A request that begin_phase counted is counted under exactly one outcome, on
\* the shard that counted it, or it is still between the phases or was cancelled
\* there: for every interleaving, number of shards and restart.
THEOREM CountersStayBalanced == Spec => []CountersBalance
<1> DEFINE Inv == ShapeOK /\ FencesBelow /\ Counted /\ CountersBalance
<1>1. Init => Inv
  BY ShapeInit, CountersInit
<1>2. Inv /\ [Next]_vars => Inv'
  BY ShapeNext, CountersNext
<1>3. Inv => CountersBalance
  OBVIOUS
<1>4. QED
  BY <1>1, <1>2, <1>3, PTL DEF Spec


-----------------------------------------------------------------------------
(***************************************************************************)
(* What clients are told.  As long as the number of shards stays, a key    *)
(* has one shard, and so one state and one fence counter.                  *)
(***************************************************************************)

\* A request with an Idempotency-Key, and one with key k between its two phases.
Keyed(r) == req[r].key # NoKey
Running(r, k) == pc[r] = "forwarding" /\ req[r].key = k

\* The shard of a key, and the state of the key there.
ShardOf(k) == hash[k] % shardCount
StateOf(k) == index[ShardOf(k)][k]

\* A key has a state on its own shard only, and its requests run there.
KeysAtHome ==
    /\ \A s \in Shards, k \in Keys : index[s][k] # Absent => s = ShardOf(k)
    /\ \A r \in Requests, k \in Keys : Running(r, k) => home[r] = ShardOf(k)

\* The tokens in use are below the counter they were taken from, and no two
\* running requests of a key hold the same.
TokensDistinct ==
    \A k \in Keys :
        /\ \A r \in Requests : Running(r, k) => token[r] < nextFence[home[r]]
        /\ \A r, q \in Requests :
                Running(r, k) /\ Running(q, k) /\ token[r] = token[q] => r = q

\* What a request has left behind where it is.
Stages ==
    \A r \in Requests :
        /\ req[r].at <= clock
        /\ pc[r] # "answered" => answer[r] = NoAnswer
        /\ pc[r] \in {"idle", "arrived"} => backend[r] = "none"
        /\ pc[r] \in {"idle", "arrived", "forwarding"} => forwarded[r] = "none"
        /\ pc[r] = "answered" /\ backend[r] # "none" => forwarded[r] # "none"
        /\ pc[r] = "answered" /\ forwarded[r] = "ok" => backend[r] = "ran"
        /\ pc[r] = "answered" /\ forwarded[r] = "ok" /\ Keyed(r) =>
                answer[r] = [status |-> "created", from |-> r]
        /\ answer[r].status = "created" => Keyed(r) /\ forwarded[r] = "ok" /\ answer[r].from = r

\* The lease a running request still holds is the one its begin_phase wrote, in
\* the life of the key it was admitted to.
LeaseIsOwn ==
    \A r \in Requests, k \in Keys :
        Running(r, k) /\ StateOf(k).tag = "InProgress" /\ StateOf(k).fence = token[r] =>
            /\ StateOf(k).fingerprint = req[r].fp
            /\ StateOf(k).leaseExpiresAt = req[r].at + LeaseMs
            /\ lifeOf[r] = life[k]

\* No request was admitted to a life of its key that is still to come.
LivesInOrder ==
    \A r \in Requests, k \in Keys : req[r].key = k => lifeOf[r] <= life[k]

\* The final answer of a backend that ran the request q was served to q.
RanToTheEnd(q) == pc[q] = "answered" /\ backend[q] = "ran" /\ forwarded[q] = "ok"

\* A stored outcome is the final answer to a request of its key and content, in
\* the current life of the key.
StoredFaithful ==
    \A k \in Keys, q \in Requests :
        StateOf(k).tag = "Completed" /\ StateOf(k).outcome = q =>
            /\ req[q].key = k
            /\ req[q].fp = StateOf(k).fingerprint
            /\ lifeOf[q] = life[k]
            /\ RanToTheEnd(q)

\* A replayed answer is one as well, to a request that is through.
ReplaySettled ==
    \A r, q \in Requests :
        answer[r].status = "replayed" /\ answer[r].from = q =>
            /\ SameKeyAndLife(r, q)
            /\ req[q].fp = req[r].fp
            /\ RanToTheEnd(q)

\* The inductive invariant behind ReplayFaithful.
ReplayInv ==
    /\ KeysAtHome
    /\ TokensDistinct
    /\ LeaseIsOwn
    /\ LivesInOrder
    /\ StoredFaithful
    /\ ReplaySettled

\* The shard of a key is one of the shards.
LEMMA ShardOfType ==
    ASSUME ShapeOK, NEW k \in Keys
    PROVE  ShardOf(k) \in Shards /\ StateOf(k) \in KeyState \union {Absent}
<1>1. hash[k] \in Nat /\ shardCount \in ShardCounts
  BY GatewayAssumption DEF ShapeOK
<1>2. ShardOf(k) \in Shards
  BY <1>1, ShardFacts DEF ShardOf
<1>3. QED
  BY <1>2 DEF ShapeOK, StateOf

\* Every action leaves each request in a stage it can be in.
LEMMA StagesNext ==
    ASSUME ShapeOK, Stages, [Next]_vars
    PROVE  Stages'
<1>a. clock \in Nat /\ \A r \in Requests : req[r].at \in Nat /\ req[r].at <= clock
  <2>1. \A r \in Requests : req[r].at \in 0..MaxClock
    BY RequestFacts
  <2>2. QED
    BY <2>1, GatewayAssumption DEF ShapeOK, Stages
<1>1. ASSUME NEW r \in Requests, Arrive(r) PROVE Stages'
  <2>1. /\ pc' = [pc EXCEPT ![r] = "arrived"] /\ pc[r] = "idle"
        /\ UNCHANGED <<clock, forwarded, answer, backend>>
        /\ \A q \in Requests : /\ req'[q].key = req[q].key
                               /\ req'[q].at = IF q = r THEN clock ELSE req[q].at
    <3>1. req' = [req EXCEPT ![r] = [req[r] EXCEPT !.at = clock]]
      BY <1>1 DEF Arrive
    <3>2. req[r] \in Arrivals(0..MaxClock)
      BY DEF ShapeOK
    <3>3. /\ [req[r] EXCEPT !.at = clock].at = clock
          /\ [req[r] EXCEPT !.at = clock].key = req[r].key
      BY <3>2 DEF Arrivals
    <3>4. QED
      BY <1>1, <3>1, <3>3 DEF Arrive, ShapeOK
  <2>2. \A q \in Requests : req'[q].at <= clock'
    BY <2>1, <1>a
  <2>3. QED
    BY <2>1, <2>2, ZenonT(30) DEF Stages, ShapeOK, Keyed
<1>2. ASSUME NEW r \in Requests, Deny(r) PROVE Stages'
  BY <1>2 DEF Deny, Stages, ShapeOK, Keyed
<1>3. ASSUME NEW r \in Requests, BeginKeyless(r) PROVE Stages'
  BY <1>3 DEF BeginKeyless, Stages, ShapeOK, Keyed
<1>4. ASSUME NEW r \in Requests, BeginRun(r) PROVE Stages'
  BY <1>4 DEF BeginRun, Stages, ShapeOK, Keyed
<1>5. ASSUME NEW r \in Requests, BeginDone(r) PROVE Stages'
  <2>1. answer' = [answer EXCEPT ![r] = answer'[r]] /\ answer'[r].status # "created"
    <3>1. \/ answer'[r] = [status |-> "replayed",
                           from |-> index[RouteShard(r)][req[r].key].outcome]
          \/ answer'[r] = [status |-> "in_progress"]
          \/ answer'[r] = [status |-> "mismatch"]
      BY <1>5, BeginDoneFacts
    <3>2. answer' = [answer EXCEPT ![r] = answer'[r]]
      BY <1>5, BeginDoneFacts
    <3>3. QED
      BY <3>1, <3>2
  <2>2. /\ pc[r] = "arrived" /\ pc' = [pc EXCEPT ![r] = "answered"]
        /\ UNCHANGED <<clock, req, forwarded, backend>>
    BY <1>5 DEF BeginDone
  <2>3. QED
    BY <2>1, <2>2 DEF Stages, ShapeOK, Keyed
<1>6. ASSUME NEW r \in Requests, BackendRuns(r) PROVE Stages'
  BY <1>6 DEF BackendRuns, Stages, ShapeOK, Keyed
<1>7. ASSUME NEW r \in Requests, Cancel(r) PROVE Stages'
  BY <1>7 DEF Cancel, Stages, ShapeOK, Keyed
<1>8. ASSUME NEW r \in Requests, NEW result \in Results, CompletePhase(r, result)
      PROVE  Stages'
  <2> DEFINE served == Served(r, result)
             keyed == req[r].key # NoKey
  <2>1. /\ served.status = "created" <=> result = "ok" /\ keyed
        /\ result = "ok" /\ keyed => served = [status |-> "created", from |-> r]
    <3> HIDE DEF served, keyed
    <3>1. /\ served.status = "created" <=> result = "ok" /\ keyed
      BY <1>8, CompletePhaseFacts, ZenonT(30) DEF served, keyed
    <3>2. result = "ok" /\ keyed => served = [status |-> "created", from |-> r]
      <4>1. result = "ok" /\ keyed => OutcomeCounter(r, result) = "created"
        BY DEF OutcomeCounter, keyed
      <4>2. result = "ok" => served = [status |-> OutcomeCounter(r, result), from |-> r]
        BY DEF Served, served
      <4>3. QED
        BY <4>1, <4>2
    <3>3. QED
      BY <3>1, <3>2
  <2>2. /\ pc[r] = "forwarding" /\ pc' = [pc EXCEPT ![r] = "answered"]
        /\ forwarded' = [forwarded EXCEPT ![r] = result]
        /\ answer' = [answer EXCEPT ![r] = Served(r, result)]
        /\ result = "ok" => backend[r] = "ran"
        /\ result # "none"
        /\ UNCHANGED <<clock, req, backend>>
    BY <1>8 DEF CompletePhase, MayReturn, Results
  <2>3. QED
    BY <2>1, <2>2 DEF Stages, ShapeOK, Keyed
<1>9. ASSUME NEW s \in 0..(shardCount - 1), NEW now \in 0..MaxClock, PruneExpired(s, now)
      PROVE  Stages'
  BY <1>9 DEF PruneExpired, Stages, Keyed, requestVars
<1>10. CASE ScrapeShard \/ ScrapeDenied \/ UNCHANGED vars
  BY <1>10 DEF ScrapeShard, ScrapeDenied, vars, Stages, Keyed, requestVars
<1>11. CASE Crash
  BY <1>11 DEF Crash, Stages, ShapeOK, Keyed
<1>12. CASE Tick
  <2>1. clock' = clock + 1 /\ UNCHANGED requestVars
    BY <1>12 DEF Tick
  <2>2. \A q \in Requests : req'[q].at <= clock'
    BY <1>a, <2>1 DEF requestVars
  <2>3. QED
    BY <2>1, <2>2 DEF Stages, Keyed, requestVars
<1>13. QED
  BY <1>1, <1>2, <1>3, <1>4, <1>5, <1>6, <1>7, <1>8, <1>9, <1>10, <1>11, <1>12 DEF Next


\* A step that admits no request with a key, gives no final answer and stores
\* nothing: at most it drops states, each with the life of its key.
Forgets ==
    /\ UNCHANGED <<hash, shardCount, forwarded, lifeOf>>
    /\ \A s \in Shards, k \in Keys : index'[s][k] \in {index[s][k], Absent}
    /\ \A k \in Keys : /\ life'[k] >= life[k]
                       /\ StateOf(k)' # Absent => life'[k] = life[k]
    /\ \A r \in Requests :
        /\ req'[r].key = req[r].key /\ req'[r].fp = req[r].fp
        /\ \A k \in Keys :
            Running(r, k)' => /\ Running(r, k)
                              /\ token'[r] = token[r]
                              /\ home'[r] = home[r]
                              /\ req'[r] = req[r]
                              /\ nextFence'[home[r]] = nextFence[home[r]]
        /\ pc[r] = "answered" => pc'[r] = "answered"
        /\ backend[r] = "ran" => backend'[r] = "ran"
        /\ answer'[r] = answer[r] \/ answer'[r].status = "denied"

\* Such a step keeps the invariant.
LEMMA ForgettingKeepsReplay ==
    ASSUME ShapeOK, ShapeOK', ReplayInv, Forgets
    PROVE  ReplayInv'
<1>1. \A k \in Keys : ShardOf(k)' = ShardOf(k)
  BY DEF Forgets, ShardOf
<1>2. \A k \in Keys : StateOf(k)' \in {StateOf(k), Absent}
  BY <1>1, ShardOfType DEF Forgets, StateOf
<1>3. \A r \in Requests : req'[r].key = req[r].key /\ req'[r].fp = req[r].fp
  BY DEF Forgets
<1>4. \A r \in Requests : RanToTheEnd(r) => RanToTheEnd(r)'
  BY DEF Forgets, RanToTheEnd
<1>5. KeysAtHome'
  BY <1>1 DEF Forgets, ReplayInv, KeysAtHome
<1>6. TokensDistinct'
  BY DEF Forgets, ReplayInv, TokensDistinct
<1>7. LeaseIsOwn'
  <2> SUFFICES ASSUME NEW r \in Requests, NEW k \in Keys, Running(r, k)',
                      StateOf(k)'.tag = "InProgress", StateOf(k)'.fence = token'[r]
               PROVE  /\ StateOf(k)'.fingerprint = req'[r].fp
                      /\ StateOf(k)'.leaseExpiresAt = req'[r].at + LeaseMs
                      /\ lifeOf'[r] = life'[k]
    BY DEF LeaseIsOwn
  <2>1. /\ Running(r, k) /\ token'[r] = token[r] /\ req'[r] = req[r]
        /\ lifeOf'[r] = lifeOf[r]
    BY DEF Forgets
  <2>2. StateOf(k)' = StateOf(k) /\ life'[k] = life[k]
    BY <1>2 DEF Absent, Forgets
  <2>3. QED
    BY <2>1, <2>2 DEF ReplayInv, LeaseIsOwn
<1>8. LivesInOrder'
  <2> SUFFICES ASSUME NEW r \in Requests, NEW k \in Keys, req'[r].key = k
               PROVE  lifeOf'[r] <= life'[k]
    BY DEF LivesInOrder
  <2>1. lifeOf[r] <= life[k] /\ life'[k] >= life[k] /\ lifeOf'[r] = lifeOf[r]
    BY <1>3 DEF ReplayInv, LivesInOrder, Forgets
  <2>2. lifeOf[r] \in Nat /\ life[k] \in Nat /\ life'[k] \in Nat
    BY DEF ShapeOK
  <2>3. QED
    BY <2>1, <2>2
<1>9. StoredFaithful'
  <2> SUFFICES ASSUME NEW k \in Keys, NEW q \in Requests,
                      StateOf(k)'.tag = "Completed", StateOf(k)'.outcome = q
               PROVE  /\ req'[q].key = k
                      /\ req'[q].fp = StateOf(k)'.fingerprint
                      /\ lifeOf'[q] = life'[k]
                      /\ RanToTheEnd(q)'
    BY DEF StoredFaithful
  <2>1. StateOf(k)' = StateOf(k) /\ life'[k] = life[k] /\ lifeOf'[q] = lifeOf[q]
    BY <1>2 DEF Forgets, Absent
  <2>2. QED
    BY <1>3, <1>4, <2>1 DEF ReplayInv, StoredFaithful
<1>10. ReplaySettled'
  <2> SUFFICES ASSUME NEW r \in Requests, NEW q \in Requests,
                      answer'[r].status = "replayed", answer'[r].from = q
               PROVE  SameKeyAndLife(r, q)' /\ req'[q].fp = req'[r].fp /\ RanToTheEnd(q)'
    BY DEF ReplaySettled
  <2>1. answer'[r] = answer[r] /\ lifeOf' = lifeOf
    BY DEF Forgets
  <2>2. SameKeyAndLife(r, q) /\ req[q].fp = req[r].fp /\ RanToTheEnd(q)
    BY <2>1 DEF ReplayInv, ReplaySettled
  <2>3. QED
    BY <1>3, <1>4, <2>1, <2>2 DEF SameKeyAndLife
<1>11. QED
  BY <1>5, <1>6, <1>7, <1>8, <1>9, <1>10 DEF ReplayInv


\* Every action but the two of begin_phase that look a key up and complete_phase
\* is such a step, if the number of shards stays.
LEMMA OthersForget ==
    ASSUME "recount" \notin Restarts, ShapeOK, Stages, KeysAtHome,
           \/ \E r \in Requests : \/ Arrive(r) \/ Deny(r) \/ BeginKeyless(r)
                                  \/ BackendRuns(r) \/ Cancel(r)
           \/ \E s \in 0..(shardCount - 1), now \in 0..MaxClock : PruneExpired(s, now)
           \/ ScrapeShard
           \/ ScrapeDenied
           \/ Crash
           \/ Tick
           \/ UNCHANGED vars
    PROVE  Forgets
<1> DEFINE Same == /\ UNCHANGED <<engineVars, hash, shardCount, forwarded, lifeOf>>
           Kept(r) == /\ req'[r].key = req[r].key /\ req'[r].fp = req[r].fp
                      /\ \A k \in Keys :
                          Running(r, k)' => /\ Running(r, k)
                                            /\ token'[r] = token[r]
                                            /\ home'[r] = home[r]
                                            /\ req'[r] = req[r]
                      /\ pc[r] = "answered" => pc'[r] = "answered"
                      /\ backend[r] = "ran" => backend'[r] = "ran"
                      /\ answer'[r] = answer[r] \/ answer'[r].status = "denied"
<1>a. \A k \in Keys : life[k] \in Nat
  BY DEF ShapeOK
<1>b. ASSUME Same, \A r \in Requests : Kept(r)
      PROVE  Forgets
  <2>1. \A k \in Keys : life'[k] >= life[k] /\ life'[k] = life[k]
    BY <1>a, <1>b DEF engineVars
  <2>2. \A s \in Shards, k \in Keys : index'[s][k] \in {index[s][k], Absent}
    BY <1>b DEF engineVars
  <2>3. nextFence' = nextFence
    BY <1>b DEF engineVars
  <2>4. UNCHANGED <<hash, shardCount, forwarded, lifeOf>>
    BY <1>b
  <2>5. QED
    BY <1>b, <2>1, <2>2, <2>3, <2>4 DEF Forgets
<1>1. ASSUME NEW r \in Requests, Arrive(r) PROVE Forgets
  <2>1. Same
    BY <1>1 DEF Arrive, routerVars
  <2>2. ASSUME NEW q \in Requests PROVE Kept(q)
    <3>1. req' = [req EXCEPT ![r] = [req[r] EXCEPT !.at = clock]]
      BY <1>1 DEF Arrive
    <3>2. req[r] \in Arrivals(0..MaxClock)
      BY DEF ShapeOK
    <3>3. /\ [req[r] EXCEPT !.at = clock].fp = req[r].fp
          /\ [req[r] EXCEPT !.at = clock].key = req[r].key
      BY <3>2 DEF Arrivals
    <3>4. req'[q].key = req[q].key /\ req'[q].fp = req[q].fp
      BY <3>1, <3>3 DEF ShapeOK
    <3>5. q # r => req'[q] = req[q]
      BY <3>1 DEF ShapeOK
    <3>6. QED
      BY <1>1, <3>4, <3>5 DEF Arrive, ShapeOK, Running
  <2>3. QED
    BY <1>b, <2>1, <2>2
<1>2. ASSUME NEW r \in Requests, Deny(r) PROVE Forgets
  <2>1. Same
    BY <1>2 DEF Deny
  <2>2. ASSUME NEW q \in Requests PROVE Kept(q)
    <3>1. answer'[q] = answer[q] \/ answer'[q].status = "denied"
      BY <1>2 DEF Deny, ShapeOK
    <3>2. /\ pc[r] = "arrived" /\ pc' = [pc EXCEPT ![r] = "answered"]
          /\ UNCHANGED <<req, home, token, backend>>
      BY <1>2 DEF Deny
    <3>3. QED
      <4>1. /\ pc[q] = "answered" => pc'[q] = "answered"
            /\ pc'[q] = "forwarding" => pc[q] = "forwarding"
        BY <3>2 DEF ShapeOK
      <4>2. QED
        BY <3>1, <3>2, <4>1 DEF Running
  <2>3. QED
    BY <1>b, <2>1, <2>2
<1>3. ASSUME NEW r \in Requests, BeginKeyless(r) PROVE Forgets
  <2>1. Same
    BY <1>3 DEF BeginKeyless, routerVars
  <2>2. ASSUME NEW q \in Requests PROVE Kept(q)
    <3>1. /\ pc[r] = "arrived" /\ pc' = [pc EXCEPT ![r] = "forwarding"]
          /\ req[r].key = NoKey /\ home' = [home EXCEPT ![r] = nextShard]
          /\ backend' = [backend EXCEPT ![r] = "sent"]
          /\ UNCHANGED <<req, token, answer>>
      BY <1>3 DEF BeginKeyless
    <3>2. backend[r] = "none"
      BY <3>1 DEF Stages
    <3>3. QED
      BY <3>1, <3>2, GatewayAssumption DEF ShapeOK, Running
  <2>3. QED
    BY <1>b, <2>1, <2>2
<1>4. ASSUME NEW r \in Requests, BackendRuns(r) PROVE Forgets
  <2>1. Same
    BY <1>4 DEF BackendRuns, routerVars
  <2>2. ASSUME NEW q \in Requests PROVE Kept(q)
    BY <1>4 DEF BackendRuns, ShapeOK, Running
  <2>3. QED
    BY <1>b, <2>1, <2>2
<1>5. ASSUME NEW r \in Requests, Cancel(r) PROVE Forgets
  <2>1. Same
    BY <1>5 DEF Cancel, routerVars
  <2>2. ASSUME NEW q \in Requests PROVE Kept(q)
    BY <1>5 DEF Cancel, ShapeOK, Running
  <2>3. QED
    BY <1>b, <2>1, <2>2
<1>6. CASE ScrapeShard \/ ScrapeDenied \/ Tick \/ UNCHANGED vars
  <2>1. Same /\ UNCHANGED requestVars
    BY <1>6 DEF ScrapeShard, ScrapeDenied, Tick, vars, routerVars, requestVars
  <2>2. ASSUME NEW q \in Requests PROVE Kept(q)
    BY <2>1 DEF requestVars, Running
  <2>3. QED
    BY <1>b, <2>1, <2>2
<1>7. ASSUME NEW s \in 0..(shardCount - 1), NEW now \in 0..MaxClock, PruneExpired(s, now)
      PROVE  Forgets
  <2> DEFINE dropped == {k \in Keys : ~PruneKeeps(index[s][k], now)}
  <2>1. s \in Shards
    BY ShardFacts DEF ShapeOK
  <2>2. /\ index' = [index EXCEPT ![s] =
                        [k \in Keys |-> IF k \in dropped THEN Absent ELSE index[s][k]]]
        /\ life' = [k \in Keys |-> IF k \in dropped THEN life[k] + 1 ELSE life[k]]
        /\ UNCHANGED <<nextFence, hash, shardCount, requestVars>>
    BY <1>7 DEF PruneExpired, routerVars
  <2>3. \A k \in dropped : s = ShardOf(k)
    BY <2>1 DEF KeysAtHome, PruneKeeps, Absent
  <2> HIDE DEF dropped
  <2>4. \A x \in Shards, k \in Keys : index'[x][k] \in {index[x][k], Absent}
    BY <2>1, <2>2 DEF ShapeOK
  <2>5. \A k \in Keys : life'[k] >= life[k] /\ (k \notin dropped => life'[k] = life[k])
    BY <1>a, <2>2
  <2>6. \A k \in Keys : ShardOf(k)' = ShardOf(k)
    BY <2>2 DEF ShardOf
  <2>7. \A k \in dropped : StateOf(k)' = Absent
    <3>1. \A k \in dropped : k \in Keys
      BY DEF dropped
    <3>2. \A k \in dropped : index'[s][k] = Absent
      BY <2>1, <2>2, <3>1 DEF ShapeOK
    <3>3. QED
      BY <2>3, <2>6, <3>1, <3>2 DEF StateOf
  <2>8. \A q \in Requests : Kept(q)
    BY <2>2 DEF requestVars, Running
  <2>9. \A k \in Keys : life'[k] >= life[k] /\ (StateOf(k)' # Absent => life'[k] = life[k])
    BY <2>5, <2>7
  <2>10. UNCHANGED <<hash, shardCount, forwarded, lifeOf, nextFence>>
    BY <2>2 DEF requestVars
  <2>11. QED
    BY <2>4, <2>8, <2>9, <2>10 DEF Forgets
<1>8. CASE Crash
  <2>1. /\ index' = [s \in Shards |-> RecoveredIndex(s)]
        /\ UNCHANGED <<life, hash, forwarded, lifeOf, req, answer, backend>>
    BY <1>8 DEF Crash
  <2>2. shardCount' = shardCount
    BY <1>8 DEF Crash, ShapeOK
  <2>3. \A s \in Shards, k \in Keys : index'[s][k] \in {index[s][k], Absent}
    BY <2>1 DEF RecoveredIndex
  <2>4. \A k \in Keys : life'[k] >= life[k] /\ life'[k] = life[k]
    BY <1>a, <2>1
  <2>5. pc' = [r \in Requests |->
                IF pc[r] \in {"idle", "answered"} THEN pc[r] ELSE "lost"]
    BY <1>8 DEF Crash
  <2>6. \A r \in Requests : /\ pc'[r] # "forwarding"
                            /\ pc[r] = "answered" => pc'[r] = "answered"
    BY <2>5
  <2>7. QED
    BY <2>1, <2>2, <2>3, <2>4, <2>6 DEF Forgets, Running
<1>9. QED
  BY <1>1, <1>2, <1>3, <1>4, <1>5, <1>6, <1>7, <1>8


\* begin_phase that runs a request, with its key k, its shard s and the state st
\* it writes by name.
LEMMA RunEffect ==
    ASSUME ShapeOK, NEW r \in Requests, BeginRun(r)
    PROVE  \E k \in Keys, s \in Shards, st \in KeyState :
               /\ req[r].key = k /\ s = ShardOf(k)
               /\ st.tag = "InProgress" /\ st.fence = nextFence[s]
               /\ st.fingerprint = req[r].fp
               /\ st.leaseExpiresAt = req[r].at + LeaseMs
               /\ index' = [index EXCEPT ![s] = [index[s] EXCEPT ![k] = st]]
               /\ nextFence' = [nextFence EXCEPT ![s] = nextFence[s] + 1]
               /\ life' = IF index[s][k].tag = "Completed"
                 THEN [life EXCEPT ![k] = life[k] + 1] ELSE life
               /\ lifeOf' = [lifeOf EXCEPT ![r] = life'[k]]
               /\ home' = [home EXCEPT ![r] = s]
               /\ token' = [token EXCEPT ![r] = nextFence[s]]
<1> DEFINE k == req[r].key
           s == RouteShard(r)
           st == StartState(nextFence[s], req[r].fp, req[r].at, 0)
<1>1. /\ k \in Keys /\ s \in Shards
      /\ st \in KeyState /\ st.tag = "InProgress" /\ st.fence = nextFence[s]
      /\ st.fingerprint = req[r].fp
      /\ st.leaseExpiresAt = req[r].at + LeaseMs
      /\ index' = [index EXCEPT ![s] = [index[s] EXCEPT ![k] = st]]
      /\ nextFence' = [nextFence EXCEPT ![s] = nextFence[s] + 1]
      /\ life' = IF index[s][k].tag = "Completed"
                 THEN [life EXCEPT ![k] = life[k] + 1] ELSE life
      /\ lifeOf' = [lifeOf EXCEPT ![r] = life'[k]]
      /\ home' = [home EXCEPT ![r] = s]
      /\ token' = [token EXCEPT ![r] = nextFence[s]]
  BY BeginRunFacts
<1>2. req[r].key = k /\ s = ShardOf(k)
  BY DEF RouteShard, ShardOf
<1> HIDE DEF k, s, st
<1>3. QED
  BY <1>1, <1>2

\* begin_phase that runs a request keeps the invariant: the lease it writes
\* carries a fence no running request holds.
LEMMA RunKeepsReplay ==
    ASSUME ShapeOK, ShapeOK', Stages, ReplayInv, NEW r \in Requests, BeginRun(r)
    PROVE  ReplayInv'
<1>1. PICK k \in Keys, s \in Shards, st \in KeyState :
      /\ req[r].key = k /\ s = ShardOf(k)
      /\ st.tag = "InProgress" /\ st.fence = nextFence[s]
      /\ st.fingerprint = req[r].fp
      /\ st.leaseExpiresAt = req[r].at + LeaseMs
      /\ index' = [index EXCEPT ![s] = [index[s] EXCEPT ![k] = st]]
      /\ nextFence' = [nextFence EXCEPT ![s] = nextFence[s] + 1]
      /\ life' = IF index[s][k].tag = "Completed"
                 THEN [life EXCEPT ![k] = life[k] + 1] ELSE life
      /\ lifeOf' = [lifeOf EXCEPT ![r] = life'[k]]
      /\ home' = [home EXCEPT ![r] = s]
      /\ token' = [token EXCEPT ![r] = nextFence[s]]
  BY RunEffect
<1>2. /\ pc[r] = "arrived" /\ pc' = [pc EXCEPT ![r] = "forwarding"]
      /\ backend' = [backend EXCEPT ![r] = "sent"]
      /\ UNCHANGED <<hash, shardCount, req, forwarded, answer>>
  BY DEF BeginRun, routerVars
<1>3. s = ShardOf(k)
  BY <1>1
<1>4. req[r].key = k
  BY <1>1
<1>5. /\ \A j \in Keys : ShardOf(j)' = ShardOf(j)
      /\ StateOf(k)' = st
      /\ \A j \in Keys \ {k} : StateOf(j)' = StateOf(j) /\ life'[j] = life[j]
  <2>1. \A j \in Keys : ShardOf(j)' = ShardOf(j)
    BY <1>2 DEF ShardOf
  <2>2. StateOf(k)' = st
    BY <1>1, <1>3, <2>1 DEF StateOf, ShapeOK
  <2>3. \A j \in Keys \ {k} : index'[ShardOf(j)][j] = index[ShardOf(j)][j]
    BY <1>1, ShardOfType DEF ShapeOK
  <2>4. \A j \in Keys \ {k} : life'[j] = life[j]
    BY <1>1 DEF ShapeOK
  <2>5. QED
    BY <2>1, <2>2, <2>3, <2>4 DEF StateOf
<1>6. \A q \in Requests \ {r} :
        /\ pc'[q] = pc[q] /\ backend'[q] = backend[q] /\ lifeOf'[q] = lifeOf[q]
        /\ home'[q] = home[q] /\ token'[q] = token[q]
  BY <1>1, <1>2 DEF ShapeOK
<1>7. /\ pc'[r] = "forwarding" /\ home'[r] = s /\ token'[r] = nextFence[s]
      /\ lifeOf'[r] = life'[k]
  BY <1>1, <1>2 DEF ShapeOK
<1>8. \A j \in Keys : life'[j] \in Nat /\ life[j] \in Nat /\ life'[j] >= life[j]
  <2>1. \A j \in Keys : life'[j] \in Nat /\ life[j] \in Nat
    BY DEF ShapeOK
  <2>2. life'[k] >= life[k]
    BY <1>1, <2>1, SMTT(30) DEF ShapeOK
  <2>3. QED
    BY <1>5, <2>1, <2>2
<1>9. \A q \in Requests \ {r}, j \in Keys : Running(q, j)' => Running(q, j)
  BY <1>2, <1>6 DEF Running
<1>10. /\ nextFence[s] \in Nat /\ nextFence'[s] = nextFence[s] + 1
       /\ \A x \in Shards \ {s} : nextFence'[x] = nextFence[x]
  BY <1>1 DEF ShapeOK
<1>11. \A q \in Requests \ {r} : Running(q, k) =>
            home[q] = s /\ token[q] \in Nat /\ token[q] < nextFence[s]
  BY <1>1, <1>3 DEF ReplayInv, KeysAtHome, TokensDistinct, ShapeOK
<1>12. \A q \in Requests : RanToTheEnd(q) => q # r /\ RanToTheEnd(q)'
  BY <1>2, <1>6 DEF RanToTheEnd
<1>13. KeysAtHome'
  <2>1. \A x \in Shards, j \in Keys : index'[x][j] # Absent => x = ShardOf(j)'
    <3> SUFFICES ASSUME NEW x \in Shards, NEW j \in Keys, index'[x][j] # Absent
                 PROVE  x = ShardOf(j)
      BY <1>5
    <3>1. CASE x = s /\ j = k
      BY <1>3, <3>1
    <3>2. CASE ~ (x = s /\ j = k)
      <4>1. index'[x][j] = index[x][j]
        BY <1>1, <3>2 DEF ShapeOK
      <4>2. QED
        BY <4>1 DEF ReplayInv, KeysAtHome
    <3>3. QED
      BY <3>1, <3>2
  <2>2. ASSUME NEW q \in Requests, NEW j \in Keys, Running(q, j)'
        PROVE  home'[q] = ShardOf(j)'
    <3>1. CASE q = r
      BY <1>2, <1>3, <1>4, <1>5, <1>7, <2>2, <3>1 DEF Running
    <3>2. CASE q # r
      BY <1>5, <1>6, <1>9, <2>2, <3>2 DEF ReplayInv, KeysAtHome
    <3>3. QED
      BY <3>1, <3>2
  <2>3. QED
    BY <2>1, <2>2 DEF KeysAtHome
<1>14. TokensDistinct'
  <2>1. ASSUME NEW j \in Keys, NEW q \in Requests, Running(q, j)'
        PROVE  token'[q] < nextFence'[home'[q]]
    <3>1. CASE q = r
      BY <1>7, <1>10, <3>1
    <3>2. CASE q # r
      <4>1. home[q] \in Shards /\ token[q] \in Nat /\ nextFence[home[q]] \in Nat
        BY DEF ShapeOK
      <4>2. token[q] < nextFence[home[q]]
        BY <1>9, <2>1, <3>2 DEF ReplayInv, TokensDistinct
      <4>3. CASE home[q] = s
        BY <1>6, <1>10, <3>2, <4>1, <4>2, <4>3
      <4>4. CASE home[q] # s
        BY <1>6, <1>10, <3>2, <4>1, <4>2, <4>4
      <4>5. QED
        BY <4>3, <4>4
    <3>3. QED
      BY <3>1, <3>2
  <2>2. ASSUME NEW j \in Keys, NEW p \in Requests, NEW q \in Requests,
               Running(p, j)', Running(q, j)', token'[p] = token'[q], p # q
        PROVE  FALSE
    <3>1. CASE p = r
      <4>1. j = k /\ Running(q, k) /\ q # r
        BY <1>2, <1>4, <1>9, <2>2, <3>1 DEF Running
      <4>2. QED
        BY <1>6, <1>7, <1>10, <1>11, <2>2, <3>1, <4>1
    <3>2. CASE q = r
      <4>1. j = k /\ Running(p, k) /\ p # r
        BY <1>2, <1>4, <1>9, <2>2, <3>2 DEF Running
      <4>2. QED
        BY <1>6, <1>7, <1>10, <1>11, <2>2, <3>2, <4>1
    <3>3. CASE p # r /\ q # r
      BY <1>6, <1>9, <2>2, <3>3 DEF ReplayInv, TokensDistinct
    <3>4. QED
      BY <3>1, <3>2, <3>3
  <2>3. QED
    BY <2>1, <2>2 DEF TokensDistinct
<1>15. LeaseIsOwn'
  <2> SUFFICES ASSUME NEW q \in Requests, NEW j \in Keys, Running(q, j)',
                      StateOf(j)'.tag = "InProgress", StateOf(j)'.fence = token'[q]
               PROVE  /\ StateOf(j)'.fingerprint = req'[q].fp
                      /\ StateOf(j)'.leaseExpiresAt = req'[q].at + LeaseMs
                      /\ lifeOf'[q] = life'[j]
    BY DEF LeaseIsOwn
  <2>1. CASE q = r
    <3>1. j = k
      BY <1>2, <1>4, <2>1 DEF Running
    <3>2. QED
      BY <1>1, <1>2, <1>5, <1>7, <2>1, <3>1
  <2>2. CASE q # r
    <3>1. j # k
      BY <1>1, <1>5, <1>6, <1>9, <1>10, <1>11, <2>2
    <3>2. QED
      BY <1>2, <1>5, <1>6, <1>9, <2>2, <3>1 DEF ReplayInv, LeaseIsOwn
  <2>3. QED
    BY <2>1, <2>2
<1>16. LivesInOrder'
  <2> SUFFICES ASSUME NEW q \in Requests, NEW j \in Keys, req'[q].key = j
               PROVE  lifeOf'[q] <= life'[j]
    BY DEF LivesInOrder
  <2>1. CASE q = r
    <3>1. j = k
      BY <1>2, <1>4, <2>1
    <3>2. QED
      BY <1>7, <1>8, <2>1, <3>1
  <2>2. CASE q # r
    <3>1. lifeOf[q] <= life[j] /\ lifeOf[q] \in Nat
      BY <1>2 DEF ReplayInv, LivesInOrder, ShapeOK
    <3>2. QED
      BY <1>6, <1>8, <2>2, <3>1
  <2>3. QED
    BY <2>1, <2>2
<1>17. StoredFaithful'
  <2> SUFFICES ASSUME NEW j \in Keys, NEW q \in Requests,
                      StateOf(j)'.tag = "Completed", StateOf(j)'.outcome = q
               PROVE  /\ req'[q].key = j
                      /\ req'[q].fp = StateOf(j)'.fingerprint
                      /\ lifeOf'[q] = life'[j]
                      /\ RanToTheEnd(q)'
    BY DEF StoredFaithful
  <2>1. j # k
    BY <1>1, <1>5
  <2>2. StateOf(j)' = StateOf(j) /\ life'[j] = life[j]
    BY <1>5, <2>1
  <2>3. /\ req[q].key = j /\ req[q].fp = StateOf(j).fingerprint
        /\ lifeOf[q] = life[j] /\ RanToTheEnd(q)
    BY <2>2 DEF ReplayInv, StoredFaithful
  <2>4. QED
    BY <1>2, <1>6, <1>12, <2>2, <2>3
<1>18. ReplaySettled'
  <2> SUFFICES ASSUME NEW p \in Requests, NEW q \in Requests,
                      answer'[p].status = "replayed", answer'[p].from = q
               PROVE  SameKeyAndLife(p, q)' /\ req'[q].fp = req'[p].fp /\ RanToTheEnd(q)'
    BY DEF ReplaySettled
  <2>1. SameKeyAndLife(p, q) /\ req[q].fp = req[p].fp /\ RanToTheEnd(q)
    BY <1>2 DEF ReplayInv, ReplaySettled
  <2>2. p # r
    <3>1. answer[r] = NoAnswer /\ answer[p].status = "replayed"
      BY <1>2 DEF Stages
    <3>2. NoAnswer.status # "replayed"
      BY DEF NoAnswer
    <3>3. QED
      BY <3>1, <3>2
  <2>3. QED
    BY <1>2, <1>6, <1>12, <2>1, <2>2 DEF SameKeyAndLife
<1>19. QED
  BY <1>13, <1>14, <1>15, <1>16, <1>17, <1>18 DEF ReplayInv


\* begin_phase that looked a key up and answers at once, with its key k and its
\* shard by name.
LEMMA DoneEffect ==
    ASSUME ShapeOK, Stages, NEW r \in Requests, BeginDone(r)
    PROVE  /\ pc[r] = "arrived" /\ pc' = [pc EXCEPT ![r] = "answered"]
           /\ UNCHANGED <<index, nextFence, life, hash, shardCount, holdLock, clock,
                          overrun, req, token, forwarded, backend>>
           /\ answer[r] = NoAnswer /\ answer' = [answer EXCEPT ![r] = answer'[r]]
           /\ \E k \in Keys :
                /\ req[r].key = k
                /\ home' = [home EXCEPT ![r] = ShardOf(k)]
                /\ lifeOf' = [lifeOf EXCEPT ![r] = life[k]]
                /\ answer'[r].status # "created"
                /\ answer'[r].status = "replayed" =>
                        /\ StateOf(k).tag = "Completed"
                        /\ StateOf(k).fingerprint = req[r].fp
                        /\ answer'[r].from = StateOf(k).outcome
<1> DEFINE k == req[r].key
           s == RouteShard(r)
           st == index[s][k]
<1>1. /\ pc[r] = "arrived" /\ pc' = [pc EXCEPT ![r] = "answered"]
      /\ UNCHANGED <<index, nextFence, life, hash, shardCount, holdLock, clock,
                     overrun, req, token, forwarded, backend>>
      /\ home' = [home EXCEPT ![r] = s]
      /\ lifeOf' = [lifeOf EXCEPT ![r] = life[k]]
  BY DEF BeginDone, engineVars, routerVars
<1>2. answer[r] = NoAnswer
  BY <1>1 DEF Stages
<1>3. k \in Keys /\ answer' = [answer EXCEPT ![r] = answer'[r]]
  BY BeginDoneFacts
<1>4. \/ /\ answer'[r] = [status |-> "replayed", from |-> st.outcome]
         /\ st.tag = "Completed" /\ st.fingerprint = req[r].fp
      \/ answer'[r] = [status |-> "in_progress"]
      \/ answer'[r] = [status |-> "mismatch"]
  BY BeginDoneFacts
<1>5. s = ShardOf(k) /\ st = StateOf(k)
  BY DEF RouteShard, ShardOf, StateOf
<1> HIDE DEF k, s, st
<1>6. /\ answer'[r].status # "created"
      /\ answer'[r].status = "replayed" =>
            /\ st.tag = "Completed" /\ st.fingerprint = req[r].fp
            /\ answer'[r].from = st.outcome
  BY <1>4
<1>7. QED
  BY <1>1, <1>2, <1>3, <1>5, <1>6 DEF k

\* It keeps the invariant: what it replays is the stored outcome.
LEMMA DoneKeepsReplay ==
    ASSUME ShapeOK, ShapeOK', Stages, ReplayInv, NEW r \in Requests, BeginDone(r)
    PROVE  ReplayInv'
<1>1. /\ pc[r] = "arrived" /\ pc' = [pc EXCEPT ![r] = "answered"]
      /\ UNCHANGED <<index, nextFence, life, hash, shardCount, req, token, forwarded,
                     backend>>
      /\ answer[r] = NoAnswer /\ answer' = [answer EXCEPT ![r] = answer'[r]]
  BY DoneEffect
<1>2. PICK k \in Keys :
        /\ req[r].key = k
        /\ home' = [home EXCEPT ![r] = ShardOf(k)]
        /\ lifeOf' = [lifeOf EXCEPT ![r] = life[k]]
        /\ answer'[r].status # "created"
        /\ answer'[r].status = "replayed" =>
                /\ StateOf(k).tag = "Completed"
                /\ StateOf(k).fingerprint = req[r].fp
                /\ answer'[r].from = StateOf(k).outcome
  BY DoneEffect
<1>3. \A q \in Requests \ {r} :
        /\ pc'[q] = pc[q] /\ lifeOf'[q] = lifeOf[q] /\ home'[q] = home[q]
        /\ answer'[q] = answer[q]
  BY <1>1, <1>2 DEF ShapeOK
<1>4. pc'[r] = "answered" /\ lifeOf'[r] = life[k]
  BY <1>1, <1>2 DEF ShapeOK
<1>5. \A j \in Keys : ShardOf(j)' = ShardOf(j) /\ StateOf(j)' = StateOf(j)
  BY <1>1 DEF ShardOf, StateOf
<1>6. \A q \in Requests, j \in Keys : Running(q, j)' => q # r /\ Running(q, j)
  BY <1>1, <1>3, <1>4 DEF Running
<1>7. \A q \in Requests : RanToTheEnd(q) => q # r /\ RanToTheEnd(q)'
  BY <1>1, <1>3 DEF RanToTheEnd
<1>8. KeysAtHome'
  BY <1>1, <1>3, <1>5, <1>6 DEF ReplayInv, KeysAtHome
<1>9. TokensDistinct'
  BY <1>1, <1>3, <1>6 DEF ReplayInv, TokensDistinct
<1>10. LeaseIsOwn'
  BY <1>1, <1>3, <1>5, <1>6 DEF ReplayInv, LeaseIsOwn
<1>11. LivesInOrder'
  <2> SUFFICES ASSUME NEW q \in Requests, NEW j \in Keys, req'[q].key = j
               PROVE  lifeOf'[q] <= life'[j]
    BY DEF LivesInOrder
  <2>1. CASE q = r
    <3>1. j = k /\ life[k] \in Nat
      BY <1>1, <1>2, <2>1 DEF ShapeOK
    <3>2. QED
      BY <1>1, <1>4, <2>1, <3>1
  <2>2. CASE q # r
    BY <1>1, <1>3, <2>2 DEF ReplayInv, LivesInOrder
  <2>3. QED
    BY <2>1, <2>2
<1>12. StoredFaithful'
  <2> SUFFICES ASSUME NEW j \in Keys, NEW q \in Requests,
                      StateOf(j).tag = "Completed", StateOf(j).outcome = q
               PROVE  /\ req'[q].key = j
                      /\ req'[q].fp = StateOf(j).fingerprint
                      /\ lifeOf'[q] = life'[j]
                      /\ RanToTheEnd(q)'
    BY <1>5 DEF StoredFaithful
  <2>1. /\ req[q].key = j /\ req[q].fp = StateOf(j).fingerprint
        /\ lifeOf[q] = life[j] /\ RanToTheEnd(q)
    BY DEF ReplayInv, StoredFaithful
  <2>2. QED
    BY <1>1, <1>3, <1>7, <2>1
<1>13. ReplaySettled'
  <2> SUFFICES ASSUME NEW p \in Requests, NEW q \in Requests,
                      answer'[p].status = "replayed", answer'[p].from = q
               PROVE  SameKeyAndLife(p, q)' /\ req'[q].fp = req'[p].fp /\ RanToTheEnd(q)'
    BY DEF ReplaySettled
  <2>1. CASE p = r
    <3>1. /\ req[q].key = k /\ req[q].fp = req[r].fp
          /\ lifeOf[q] = life[k] /\ RanToTheEnd(q)
      BY <1>2, <2>1 DEF ReplayInv, StoredFaithful
    <3>2. lifeOf'[q] = lifeOf[q] /\ k # NoKey /\ RanToTheEnd(q)'
      BY <1>3, <1>7, <3>1, GatewayAssumption
    <3>3. QED
      BY <1>1, <1>2, <1>4, <2>1, <3>1, <3>2 DEF SameKeyAndLife
  <2>2. CASE p # r
    <3>1. SameKeyAndLife(p, q) /\ req[q].fp = req[p].fp /\ RanToTheEnd(q)
      BY <1>3, <2>2 DEF ReplayInv, ReplaySettled
    <3>2. QED
      BY <1>1, <1>3, <1>7, <2>2, <3>1 DEF SameKeyAndLife
  <2>3. QED
    BY <2>1, <2>2
<1>14. QED
  BY <1>8, <1>9, <1>10, <1>11, <1>12, <1>13 DEF ReplayInv

\* complete_phase, with the state it stores when the engine takes the outcome.
LEMMA CompleteEffect ==
    ASSUME ShapeOK, KeysAtHome, NEW r \in Requests, NEW result \in Results,
           CompletePhase(r, result)
    PROVE  /\ pc[r] = "forwarding" /\ pc' = [pc EXCEPT ![r] = "answered"]
           /\ forwarded' = [forwarded EXCEPT ![r] = result]
           /\ token' = [token EXCEPT ![r] = 0]
           /\ answer' = [answer EXCEPT ![r] = Served(r, result)]
           /\ Served(r, result).status # "replayed"
           /\ Served(r, result).status = "created" => result = "ok" /\ Keyed(r)
           /\ result = "ok" /\ Keyed(r) => Served(r, result) = [status |-> "created", from |-> r]
           /\ result = "ok" => backend[r] = "ran"
           /\ UNCHANGED <<nextFence, life, hash, shardCount, holdLock, clock, overrun,
                          req, home, backend, lifeOf>>
           /\ \/ index' = index /\ ~Commits(r, result)
              \/ \E k \in Keys, new \in KeyState :
                    /\ req[r].key = k /\ result = "ok"
                    /\ StateOf(k).tag = "InProgress" /\ StateOf(k).fence = token[r]
                    /\ new.tag = "Completed" /\ new.outcome = r
                    /\ new.fingerprint = StateOf(k).fingerprint
                    /\ index' = [index EXCEPT ![ShardOf(k)] =
                                    [index[ShardOf(k)] EXCEPT ![k] = new]]
<1>1. /\ pc[r] = "forwarding" /\ pc' = [pc EXCEPT ![r] = "answered"]
      /\ forwarded' = [forwarded EXCEPT ![r] = result]
      /\ token' = [token EXCEPT ![r] = 0]
      /\ answer' = [answer EXCEPT ![r] = Served(r, result)]
      /\ result = "ok" => backend[r] = "ran"
      /\ UNCHANGED <<nextFence, life, hash, shardCount, holdLock, clock, overrun,
                     req, home, backend, lifeOf>>
  BY DEF CompletePhase, MayReturn, routerVars
<1>2. Served(r, result).status # "replayed"
  BY CompletePhaseFacts
<1>3. Served(r, result).status = "created" <=> result = "ok" /\ req[r].key # NoKey
  BY CompletePhaseFacts, ZenonT(30)
<1>4. result = "ok" /\ Keyed(r) => Served(r, result) = [status |-> "created", from |-> r]
  <2>1. result = "ok" /\ Keyed(r) => OutcomeCounter(r, result) = "created"
    BY DEF OutcomeCounter, Keyed
  <2>2. result = "ok" => Served(r, result) = [status |-> OutcomeCounter(r, result), from |-> r]
    BY DEF Served
  <2>3. QED
    BY <2>1, <2>2
<1>5. ASSUME Commits(r, result)
      PROVE  \E k \in Keys, new \in KeyState :
                /\ req[r].key = k /\ result = "ok"
                /\ StateOf(k).tag = "InProgress" /\ StateOf(k).fence = token[r]
                /\ new.tag = "Completed" /\ new.outcome = r
                /\ new.fingerprint = StateOf(k).fingerprint
                /\ index' = [index EXCEPT ![ShardOf(k)] =
                                [index[ShardOf(k)] EXCEPT ![k] = new]]
  <2> DEFINE k == req[r].key
             s == home[r]
             st == index[s][k]
             new == Completed(st.fingerprint, r, req[r].at)
  <2>1. /\ k \in Keys /\ result = "ok" /\ st.tag = "InProgress"
        /\ st.fence = token[r]
        /\ new \in KeyState /\ new.tag = "Completed" /\ new.outcome = r
        /\ new.fingerprint = st.fingerprint
        /\ index' = [index EXCEPT ![s] = [index[s] EXCEPT ![k] = new]]
    BY <1>5, CompletePhaseFacts
  <2>2. s = ShardOf(k)
    BY <1>1, <2>1 DEF KeysAtHome, Running
  <2>3. st = StateOf(k) /\ req[r].key = k
    BY <2>2 DEF StateOf
  <2> HIDE DEF k, s, st, new
  <2>4. QED
    BY <2>1, <2>2, <2>3
<1>6. ~Commits(r, result) => index' = index
  BY CompletePhaseFacts
<1>7. QED
  BY <1>1, <1>2, <1>3, <1>4, <1>5, <1>6 DEF Keyed


\* complete_phase keeps the invariant: the outcome it stores is that of the
\* request that holds the lease.
LEMMA CompleteKeepsReplay ==
    ASSUME ShapeOK, ShapeOK', Stages, ReplayInv, NEW r \in Requests,
           NEW result \in Results, CompletePhase(r, result)
    PROVE  ReplayInv'
<1> KeysAtHome
  BY DEF ReplayInv
<1>1. /\ pc[r] = "forwarding" /\ pc' = [pc EXCEPT ![r] = "answered"]
      /\ forwarded' = [forwarded EXCEPT ![r] = result]
      /\ token' = [token EXCEPT ![r] = 0]
      /\ answer' = [answer EXCEPT ![r] = Served(r, result)]
      /\ Served(r, result).status # "replayed"
      /\ result = "ok" => backend[r] = "ran"
      /\ UNCHANGED <<nextFence, life, hash, shardCount, req, home, backend, lifeOf>>
  BY CompleteEffect
<1>2. \A q \in Requests \ {r} :
        /\ pc'[q] = pc[q] /\ forwarded'[q] = forwarded[q] /\ token'[q] = token[q]
        /\ answer'[q] = answer[q]
  BY <1>1 DEF ShapeOK
<1>3. /\ pc'[r] = "answered" /\ forwarded'[r] = result
      /\ answer'[r].status # "replayed"
  BY <1>1 DEF ShapeOK
<1>4. \A j \in Keys : ShardOf(j)' = ShardOf(j)
  BY <1>1 DEF ShardOf
<1>5. \A q \in Requests, j \in Keys : Running(q, j)' => q # r /\ Running(q, j)
  BY <1>1, <1>2, <1>3 DEF Running
<1>6. \A q \in Requests : RanToTheEnd(q) => q # r /\ RanToTheEnd(q)'
  BY <1>1, <1>2 DEF RanToTheEnd
<1>7. TokensDistinct'
  BY <1>1, <1>2, <1>5 DEF ReplayInv, TokensDistinct
<1>8. LivesInOrder'
  BY <1>1 DEF ReplayInv, LivesInOrder
<1>9. ReplaySettled'
  <2> SUFFICES ASSUME NEW p \in Requests, NEW q \in Requests,
                      answer'[p].status = "replayed", answer'[p].from = q
               PROVE  SameKeyAndLife(p, q)' /\ req'[q].fp = req'[p].fp /\ RanToTheEnd(q)'
    BY DEF ReplaySettled
  <2>1. answer'[p] = answer[p]
    BY <1>2, <1>3
  <2>2. SameKeyAndLife(p, q) /\ req[q].fp = req[p].fp /\ RanToTheEnd(q)
    BY <2>1 DEF ReplayInv, ReplaySettled
  <2>3. QED
    BY <1>1, <1>6, <2>2 DEF SameKeyAndLife
<1>10. CASE index' = index
  <2>1. \A j \in Keys : StateOf(j)' = StateOf(j)
    BY <1>4, <1>10 DEF StateOf
  <2>2. KeysAtHome'
    BY <1>1, <1>4, <1>5, <1>10 DEF KeysAtHome
  <2>3. LeaseIsOwn'
    BY <1>1, <1>2, <1>5, <2>1 DEF ReplayInv, LeaseIsOwn
  <2>4. StoredFaithful'
    BY <1>1, <1>6, <2>1 DEF ReplayInv, StoredFaithful
  <2>5. QED
    BY <1>7, <1>8, <1>9, <2>2, <2>3, <2>4 DEF ReplayInv
<1>11. ASSUME NEW k \in Keys, NEW new \in KeyState,
              req[r].key = k, result = "ok",
              StateOf(k).tag = "InProgress", StateOf(k).fence = token[r],
              new.tag = "Completed", new.outcome = r,
              new.fingerprint = StateOf(k).fingerprint,
              index' = [index EXCEPT ![ShardOf(k)] =
                            [index[ShardOf(k)] EXCEPT ![k] = new]]
       PROVE  ReplayInv'
  <2>1. StateOf(k)' = new
    BY <1>4, <1>11, ShardOfType DEF StateOf, ShapeOK
  <2>2. \A j \in Keys \ {k} : StateOf(j)' = StateOf(j)
    <3>1. \A j \in Keys \ {k} : index'[ShardOf(j)][j] = index[ShardOf(j)][j]
      BY <1>11, ShardOfType DEF ShapeOK
    <3>2. QED
      BY <1>4, <3>1 DEF StateOf
  <2>3. KeysAtHome'
    <3>1. ASSUME NEW x \in Shards, NEW j \in Keys, index'[x][j] # Absent
          PROVE  x = ShardOf(j)'
      <4>1. CASE x = ShardOf(k) /\ j = k
        BY <1>4, <4>1
      <4>2. CASE ~ (x = ShardOf(k) /\ j = k)
        <5>1. index'[x][j] = index[x][j]
          BY <1>11, <4>2, ShardOfType DEF ShapeOK
        <5>2. QED
          BY <1>4, <3>1, <5>1 DEF KeysAtHome
      <4>3. QED
        BY <4>1, <4>2
    <3>2. QED
      BY <1>1, <1>4, <1>5, <3>1 DEF KeysAtHome
  <2>4. LeaseIsOwn'
    <3> SUFFICES ASSUME NEW q \in Requests, NEW j \in Keys, Running(q, j)',
                        StateOf(j)'.tag = "InProgress", StateOf(j)'.fence = token'[q]
                 PROVE  /\ StateOf(j)'.fingerprint = req'[q].fp
                        /\ StateOf(j)'.leaseExpiresAt = req'[q].at + LeaseMs
                        /\ lifeOf'[q] = life'[j]
      BY DEF LeaseIsOwn
    <3>1. j # k
      BY <1>11, <2>1
    <3>2. QED
      BY <1>1, <1>2, <1>5, <2>2, <3>1 DEF ReplayInv, LeaseIsOwn
  <2>5. StoredFaithful'
    <3> SUFFICES ASSUME NEW j \in Keys, NEW q \in Requests,
                        StateOf(j)'.tag = "Completed", StateOf(j)'.outcome = q
                 PROVE  /\ req'[q].key = j
                        /\ req'[q].fp = StateOf(j)'.fingerprint
                        /\ lifeOf'[q] = life'[j]
                        /\ RanToTheEnd(q)'
      BY DEF StoredFaithful
    <3>1. CASE j = k
      <4>1. q = r /\ Running(r, k)
        BY <1>1, <1>11, <2>1, <3>1 DEF Running
      <4>2. StateOf(k).fingerprint = req[r].fp /\ lifeOf[r] = life[k]
        BY <1>11, <4>1 DEF ReplayInv, LeaseIsOwn
      <4>3. RanToTheEnd(r)'
        BY <1>1, <1>3, <1>11 DEF RanToTheEnd
      <4>4. QED
        BY <1>1, <1>11, <2>1, <3>1, <4>1, <4>2, <4>3
    <3>2. CASE j # k
      BY <1>1, <1>6, <2>2, <3>2 DEF ReplayInv, StoredFaithful
    <3>3. QED
      BY <3>1, <3>2
  <2>6. QED
    BY <1>7, <1>8, <1>9, <2>3, <2>4, <2>5 DEF ReplayInv
<1>12. \/ index' = index
       \/ \E k \in Keys, new \in KeyState :
            /\ req[r].key = k /\ result = "ok"
            /\ StateOf(k).tag = "InProgress" /\ StateOf(k).fence = token[r]
            /\ new.tag = "Completed" /\ new.outcome = r
            /\ new.fingerprint = StateOf(k).fingerprint
            /\ index' = [index EXCEPT ![ShardOf(k)] =
                            [index[ShardOf(k)] EXCEPT ![k] = new]]
  BY CompleteEffect, SMTT(30)
<1>13. QED
  BY <1>10, <1>11, <1>12

\* Every action keeps the invariant.
LEMMA ReplayNext ==
    ASSUME "recount" \notin Restarts, ShapeOK, ShapeOK', Stages, ReplayInv, [Next]_vars
    PROVE  ReplayInv'
<1> KeysAtHome
  BY DEF ReplayInv
<1>1. ASSUME NEW r \in Requests, BeginRun(r) PROVE ReplayInv'
  BY <1>1, RunKeepsReplay
<1>2. ASSUME NEW r \in Requests, BeginDone(r) PROVE ReplayInv'
  BY <1>2, DoneKeepsReplay
<1>3. ASSUME NEW r \in Requests, NEW result \in Results, CompletePhase(r, result)
      PROVE  ReplayInv'
  BY <1>3, CompleteKeepsReplay
<1>4. CASE \/ \E r \in Requests : \/ Arrive(r) \/ Deny(r) \/ BeginKeyless(r)
                                  \/ BackendRuns(r) \/ Cancel(r)
           \/ \E s \in 0..(shardCount - 1), now \in 0..MaxClock : PruneExpired(s, now)
           \/ ScrapeShard
           \/ ScrapeDenied
           \/ Crash
           \/ Tick
           \/ UNCHANGED vars
  <2>1. Forgets
    BY <1>4, OthersForget
  <2>2. QED
    BY <2>1, ForgettingKeepsReplay
<1>5. QED
  BY <1>1, <1>2, <1>3, <1>4 DEF Next

\* Initially nothing is stored, running or answered.
LEMMA ReplayInit == Init => Stages /\ ReplayInv
<1> SUFFICES ASSUME Init PROVE Stages /\ ReplayInv
  OBVIOUS
<1>0. ShapeOK
  BY ShapeInit
<1>1. Stages
  <2>1. \A r \in Requests : req[r].at = 0
    BY DEF Init, Arrivals
  <2>2. \A r \in Requests : /\ pc[r] = "idle" /\ answer[r] = NoAnswer
                            /\ backend[r] = "none" /\ forwarded[r] = "none"
    BY DEF Init
  <2>3. clock = 0 /\ NoAnswer.status = "none"
    BY DEF Init, NoAnswer
  <2>4. QED
    BY <2>1, <2>2, <2>3 DEF Stages
<1>2. \A k \in Keys : StateOf(k) = Absent
  BY <1>0, ShardOfType DEF Init, StateOf
<1>3. /\ \A s \in Shards, k \in Keys : index[s][k] = Absent
      /\ \A r \in Requests : pc[r] = "idle" /\ lifeOf[r] = 0 /\ answer[r].status = "none"
      /\ \A k \in Keys : life[k] = 0
  BY DEF Init, NoAnswer
<1>4. KeysAtHome /\ TokensDistinct /\ LeaseIsOwn /\ LivesInOrder
  BY <1>3 DEF KeysAtHome, TokensDistinct, LeaseIsOwn, LivesInOrder, Running
<1>5. StoredFaithful /\ ReplaySettled
  BY <1>2, <1>3 DEF StoredFaithful, ReplaySettled, Absent
<1>6. QED
  BY <1>1, <1>4, <1>5 DEF ReplayInv

\* What the invariants say of the answers.
LEMMA ReplayInvIsEnough == ShapeOK /\ ReplayInv => ReplayFaithful
<1> SUFFICES ASSUME ShapeOK, ReplayInv, NEW r \in Requests, answer[r].status = "replayed"
             PROVE  LET q == answer[r].from
                    IN  /\ SameKeyAndLife(r, q)
                        /\ req[q].fp = req[r].fp
                        /\ backend[q] = "ran"
                        /\ forwarded[q] = "ok"
  BY DEF ReplayFaithful
<1>1. answer[r] \in Answers
  BY DEF ShapeOK
<1>2. answer[r].from \in Requests
  BY <1>1 DEF Answers, NoAnswer
<1>3. QED
  BY <1>2 DEF ReplayInv, ReplaySettled, RanToTheEnd

\* As long as the number of shards stays, with any number of shards, requests
\* and keys, on a log or in memory: whatever begin_phase replays is the final
\* answer of a backend that ran a request with the same key and content in the
\* same life of the key, through crashes, takeovers, sweeps and late answers.
THEOREM ReplaysAreFaithful ==
    ASSUME "recount" \notin Restarts
    PROVE  Spec => []ReplayFaithful
<1> DEFINE I == ShapeOK /\ FencesBelow /\ Stages /\ ReplayInv
<1>1. Init => I
  BY ShapeInit, ReplayInit
<1>2. I /\ [Next]_vars => I'
  <2>1. SUFFICES ASSUME I, [Next]_vars PROVE I'
    OBVIOUS
  <2>2. ShapeOK' /\ FencesBelow'
    BY <2>1, ShapeNext
  <2>3. Stages'
    BY <2>1, StagesNext
  <2>4. ReplayInv'
    BY <2>1, <2>2, ReplayNext
  <2>5. QED
    BY <2>2, <2>3, <2>4
<1>3. I => ReplayFaithful
  BY ReplayInvIsEnough
<1>4. QED
  BY <1>1, <1>2, <1>3, PTL DEF Spec


-----------------------------------------------------------------------------
(***************************************************************************)
(* One answer and one effect per life of a key, on strict logs and the     *)
(* same shards.                                                            *)
(***************************************************************************)

\* Nobody can take over from a running request: the lock is held across the
\* forward, or no request was late.
Undisturbed == holdLock \/ ~overrun

\* A Mutex<Gateway> runs one request at a time.
OneAtATime ==
    holdLock => \A r, q \in Requests :
                    pc[r] = "forwarding" /\ pc[q] = "forwarding" => r = q

\* Until some request is late, every request in hand is within its lease.
WithinLease ==
    ~overrun => \A r \in Requests :
                    pc[r] \in {"arrived", "forwarding"} => clock < req[r].at + LeaseMs

\* Undisturbed, a running request holds the lease of its key.
LeaseHeld ==
    Undisturbed => \A r \in Requests, k \in Keys :
        Running(r, k) => StateOf(k).tag = "InProgress" /\ StateOf(k).fence = token[r]

Final(r) == answer[r].status \in {"created", "replayed"}

\* A final answer given in the current life of a key is the stored outcome.
FinalIsStored ==
    Undisturbed => \A r \in Requests, k \in Keys :
        Final(r) /\ req[r].key = k /\ lifeOf[r] = life[k] =>
            StateOf(k).tag = "Completed" /\ StateOf(k).outcome = answer[r].from

\* SingleEffect of requests that were sent to the backend, executed or not.
SingleAttempt ==
    Undisturbed => \A r, q \in Requests :
        /\ r # q
        /\ SameKeyAndLife(r, q)
        /\ backend[r] # "none"
        /\ backend[q] # "none"
        => GaveUp(r) \/ GaveUp(q)

\* The inductive invariants behind AnswersAgree and SingleEffect.
LockInv == OneAtATime /\ WithinLease
AgreementInv == LeaseHeld /\ FinalIsStored /\ AnswersAgree /\ SingleAttempt

\* The lock and the clock are kept by every action.
LEMMA LockNext ==
    ASSUME LeaseMs > 0, ShapeOK, LockInv, [Next]_vars
    PROVE  LockInv'
<1>a. /\ clock \in Nat /\ LeaseMs \in Nat /\ holdLock \in BOOLEAN /\ overrun \in BOOLEAN
      /\ \A r \in Requests : req[r].at \in Nat
  <2>1. \A r \in Requests : req[r].at \in 0..MaxClock
    BY RequestFacts
  <2>2. QED
    BY <2>1, GatewayAssumption, DurationsAssumption DEF ShapeOK
<1>b. ASSUME UNCHANGED <<holdLock, overrun, clock>>,
             \A q \in Requests :
                /\ pc'[q] = "forwarding" => pc[q] = "forwarding"
                /\ pc'[q] = "arrived" => pc[q] = "arrived"
                /\ pc'[q] \in {"arrived", "forwarding"} => req'[q] = req[q]
      PROVE  LockInv'
  BY <1>b DEF LockInv, OneAtATime, WithinLease
<1>c. ASSUME NEW r \in Requests, LockFree, UNCHANGED <<holdLock, overrun, clock, req>>,
             pc[r] = "arrived", pc' = [pc EXCEPT ![r] = "forwarding"]
      PROVE  LockInv'
  <2>1. \A q \in Requests : pc'[q] = IF q = r THEN "forwarding" ELSE pc[q]
    BY <1>c DEF ShapeOK
  <2>2. OneAtATime'
    BY <1>c, <2>1 DEF LockFree, OneAtATime
  <2>3. WithinLease'
    BY <1>c, <2>1 DEF LockInv, WithinLease
  <2>4. QED
    BY <2>2, <2>3 DEF LockInv
<1>1. ASSUME NEW r \in Requests, Arrive(r) PROVE LockInv'
  <2>1. /\ pc' = [pc EXCEPT ![r] = "arrived"] /\ UNCHANGED <<holdLock, overrun, clock>>
        /\ req' = [req EXCEPT ![r] = [req[r] EXCEPT !.at = clock]]
    BY <1>1 DEF Arrive, routerVars
  <2>2. req[r] \in Arrivals(0..MaxClock)
    BY DEF ShapeOK
  <2>3. [req[r] EXCEPT !.at = clock].at = clock
    BY <2>2 DEF Arrivals
  <2>4. req'[r].at = clock /\ \A q \in Requests \ {r} : req'[q] = req[q] /\ pc'[q] = pc[q]
    BY <2>1, <2>3 DEF ShapeOK
  <2>5. pc'[r] = "arrived"
    BY <2>1 DEF ShapeOK
  <2>6. OneAtATime'
    BY <2>1, <2>4, <2>5 DEF LockInv, OneAtATime
  <2>7. WithinLease'
    BY <1>a, <2>1, <2>4 DEF LockInv, WithinLease
  <2>8. QED
    BY <2>6, <2>7 DEF LockInv
<1>2. ASSUME NEW r \in Requests, Deny(r) PROVE LockInv'
  BY <1>2, <1>b DEF Deny, ShapeOK
<1>3. ASSUME NEW r \in Requests, BeginKeyless(r) PROVE LockInv'
  <2>1. /\ LockFree /\ UNCHANGED <<holdLock, overrun, clock, req>>
        /\ pc[r] = "arrived" /\ pc' = [pc EXCEPT ![r] = "forwarding"]
    BY <1>3 DEF BeginKeyless, routerVars
  <2>2. QED
    BY <1>c, <2>1
<1>4. ASSUME NEW r \in Requests, BeginRun(r) PROVE LockInv'
  <2>1. /\ LockFree /\ UNCHANGED <<holdLock, overrun, clock, req>>
        /\ pc[r] = "arrived" /\ pc' = [pc EXCEPT ![r] = "forwarding"]
    BY <1>4 DEF BeginRun, routerVars
  <2>2. QED
    BY <1>c, <2>1
<1>5. ASSUME NEW r \in Requests, BeginDone(r) PROVE LockInv'
  <2>1. UNCHANGED <<holdLock, overrun, clock, req>> /\ pc' = [pc EXCEPT ![r] = "answered"]
    BY <1>5 DEF BeginDone, routerVars
  <2>2. QED
    BY <1>b, <2>1 DEF ShapeOK
<1>6. ASSUME NEW r \in Requests, BackendRuns(r) \/ Cancel(r) PROVE LockInv'
  <2>1. /\ UNCHANGED <<holdLock, overrun, clock, req>>
        /\ pc' = pc \/ pc' = [pc EXCEPT ![r] = "cancelled"]
    BY <1>6 DEF BackendRuns, Cancel, routerVars
  <2>2. QED
    BY <1>b, <2>1 DEF ShapeOK
<1>7. ASSUME NEW r \in Requests, NEW result \in Results, CompletePhase(r, result)
      PROVE  LockInv'
  <2>1. UNCHANGED <<holdLock, overrun, clock, req>> /\ pc' = [pc EXCEPT ![r] = "answered"]
    BY <1>7 DEF CompletePhase, routerVars
  <2>2. QED
    BY <1>b, <2>1 DEF ShapeOK
<1>8. ASSUME NEW s \in 0..(shardCount - 1), NEW now \in 0..MaxClock, PruneExpired(s, now)
      PROVE  LockInv'
  <2>1. UNCHANGED <<holdLock, overrun, clock, req, pc>>
    BY <1>8 DEF PruneExpired, routerVars, requestVars
  <2>2. QED
    BY <1>b, <2>1
<1>9. CASE ScrapeShard \/ ScrapeDenied \/ UNCHANGED vars
  <2>1. UNCHANGED <<holdLock, overrun, clock, req, pc>>
    BY <1>9 DEF ScrapeShard, ScrapeDenied, vars, routerVars, requestVars
  <2>2. QED
    BY <1>b, <2>1
<1>10. CASE Crash
  <2>1. /\ UNCHANGED <<holdLock, overrun, clock, req>>
        /\ pc' = [r \in Requests |->
                    IF pc[r] \in {"idle", "answered"} THEN pc[r] ELSE "lost"]
    BY <1>10 DEF Crash
  <2>2. QED
    BY <1>b, <2>1
<1>11. CASE Tick
  <2>1. /\ UNCHANGED <<holdLock, req, pc>> /\ clock' = clock + 1
        /\ overrun' = (overrun \/ \E r \in Requests :
                                /\ pc[r] \in {"arrived", "forwarding"}
                                /\ clock' >= req[r].at + LeaseMs)
    BY <1>11 DEF Tick, routerVars, requestVars
  <2>2. OneAtATime'
    BY <2>1 DEF LockInv, OneAtATime
  <2>3. WithinLease'
    <3> SUFFICES ASSUME ~overrun', NEW r \in Requests, pc'[r] \in {"arrived", "forwarding"}
                 PROVE  clock' < req'[r].at + LeaseMs
      BY DEF WithinLease
    <3>1. ~ (clock + 1 >= req[r].at + LeaseMs)
      BY <2>1
    <3>2. QED
      BY <1>a, <2>1, <3>1
  <2>4. QED
    BY <2>2, <2>3 DEF LockInv
<1>12. QED
  BY <1>1, <1>2, <1>3, <1>4, <1>5, <1>6, <1>7, <1>8, <1>9, <1>10, <1>11 DEF Next

\* A step that forgets only completions that came to their end.
Keeps ==
    /\ Undisturbed' => Undisturbed
    /\ \A k \in Keys : \/ StateOf(k)' = StateOf(k)
                       \/ StateOf(k).tag = "Completed" /\ life'[k] > life[k]
    /\ \A r \in Requests : /\ Keyed(r) /\ backend'[r] # "none" => backend[r] # "none"
                           /\ GaveUp(r) => GaveUp(r)'

\* Such a step keeps the answers in agreement.
LEMMA KeepingKeepsAgreement ==
    ASSUME ShapeOK, ShapeOK', ReplayInv, AgreementInv, Forgets, Keeps
    PROVE  AgreementInv'
<1>1. \A r \in Requests : /\ req'[r].key = req[r].key
                          /\ Final(r)' => Final(r) /\ answer'[r] = answer[r]
  BY DEF Forgets, Final
<1>2. lifeOf' = lifeOf
  BY DEF Forgets
<1>3. LeaseHeld'
  <2> SUFFICES ASSUME Undisturbed', NEW r \in Requests, NEW k \in Keys, Running(r, k)'
               PROVE  StateOf(k)'.tag = "InProgress" /\ StateOf(k)'.fence = token'[r]
    BY DEF LeaseHeld
  <2>1. Running(r, k) /\ token'[r] = token[r]
    BY DEF Forgets
  <2>2. StateOf(k).tag = "InProgress" /\ StateOf(k).fence = token[r]
    BY <2>1 DEF AgreementInv, LeaseHeld, Keeps
  <2>3. StateOf(k)' = StateOf(k)
    BY <2>2 DEF Keeps
  <2>4. QED
    BY <2>1, <2>2, <2>3
<1>4. FinalIsStored'
  <2> SUFFICES ASSUME Undisturbed', NEW r \in Requests, NEW k \in Keys, Final(r)',
                      req'[r].key = k, lifeOf'[r] = life'[k]
               PROVE  StateOf(k)'.tag = "Completed" /\ StateOf(k)'.outcome = answer'[r].from
    BY DEF FinalIsStored
  <2>1. Final(r) /\ answer'[r] = answer[r] /\ req[r].key = k /\ lifeOf[r] = life'[k]
    BY <1>1, <1>2
  <2>2. lifeOf[r] <= life[k] /\ life[k] \in Nat /\ life'[k] \in Nat /\ life'[k] >= life[k]
    <3>1. life[k] \in Nat /\ life'[k] \in Nat
      BY DEF ShapeOK
    <3>2. lifeOf[r] <= life[k]
      BY <2>1 DEF ReplayInv, LivesInOrder
    <3>3. life'[k] >= life[k]
      BY DEF Forgets
    <3>4. QED
      BY <3>1, <3>2, <3>3
  <2>3. life'[k] = life[k]
    BY <2>1, <2>2
  <2>4. StateOf(k)' = StateOf(k)
    BY <2>2, <2>3 DEF Keeps
  <2>5. QED
    BY <2>1, <2>3, <2>4 DEF AgreementInv, FinalIsStored, Keeps
<1>5. AnswersAgree'
  <2> SUFFICES ASSUME Undisturbed', NEW r \in Requests, NEW q \in Requests,
                      SameKeyAndLife(r, q)', Final(r)', Final(q)'
               PROVE  answer'[r].from = answer'[q].from
    BY DEF AnswersAgree, Undisturbed, Final
  <2>1. SameKeyAndLife(r, q) /\ Undisturbed
    BY <1>1, <1>2 DEF SameKeyAndLife, Keeps
  <2>2. QED
    BY <1>1, <2>1 DEF AgreementInv, AnswersAgree, Undisturbed, Final
<1>6. SingleAttempt'
  <2> SUFFICES ASSUME Undisturbed', NEW r \in Requests, NEW q \in Requests, r # q,
                      SameKeyAndLife(r, q)', backend'[r] # "none", backend'[q] # "none"
               PROVE  GaveUp(r)' \/ GaveUp(q)'
    BY DEF SingleAttempt
  <2>1. SameKeyAndLife(r, q) /\ Undisturbed
    BY <1>1, <1>2 DEF SameKeyAndLife, Keeps
  <2>2. backend[r] # "none" /\ backend[q] # "none"
    BY <2>1 DEF Keeps, Keyed, SameKeyAndLife
  <2>3. QED
    BY <2>1, <2>2 DEF AgreementInv, SingleAttempt, Keeps
<1>7. QED
  BY <1>3, <1>4, <1>5, <1>6 DEF AgreementInv


\* The actions of OthersForget are such steps, if the index survives a crash.
LEMMA OthersKeep ==
    ASSUME Restarts = {"same"}, ShapeOK, Stages, KeysAtHome,
           \/ \E r \in Requests : \/ Arrive(r) \/ Deny(r) \/ BeginKeyless(r)
                                  \/ BackendRuns(r) \/ Cancel(r)
           \/ \E s \in 0..(shardCount - 1), now \in 0..MaxClock : PruneExpired(s, now)
           \/ ScrapeShard
           \/ ScrapeDenied
           \/ Crash
           \/ Tick
           \/ UNCHANGED vars
    PROVE  Keeps
<1>a. ASSUME UNCHANGED <<index, hash, shardCount>>
      PROVE  \A k \in Keys : StateOf(k)' = StateOf(k)
  BY <1>a DEF StateOf, ShardOf
<1>1. ASSUME NEW r \in Requests, Arrive(r) PROVE Keeps
  <2>1. /\ UNCHANGED <<index, hash, shardCount, holdLock, overrun, forwarded, backend>>
        /\ pc[r] = "idle" /\ pc' = [pc EXCEPT ![r] = "arrived"]
    BY <1>1 DEF Arrive, engineVars, routerVars
  <2>2. QED
    BY <1>a, <2>1 DEF Keeps, Undisturbed, GaveUp, ShapeOK
<1>2. ASSUME NEW r \in Requests, Deny(r) PROVE Keeps
  <2>1. /\ UNCHANGED <<index, hash, shardCount, holdLock, overrun, forwarded, backend>>
        /\ pc[r] = "arrived" /\ pc' = [pc EXCEPT ![r] = "answered"]
    BY <1>2 DEF Deny, engineVars
  <2>2. QED
    BY <1>a, <2>1 DEF Keeps, Undisturbed, GaveUp, ShapeOK
<1>3. ASSUME NEW r \in Requests, BeginKeyless(r) PROVE Keeps
  <2>1. /\ UNCHANGED <<index, hash, shardCount, holdLock, overrun, forwarded>>
        /\ pc[r] = "arrived" /\ pc' = [pc EXCEPT ![r] = "forwarding"]
        /\ ~Keyed(r) /\ backend' = [backend EXCEPT ![r] = "sent"]
    BY <1>3 DEF BeginKeyless, engineVars, routerVars, Keyed
  <2>2. \A q \in Requests : Keyed(q) => backend'[q] = backend[q]
    BY <2>1 DEF ShapeOK
  <2>3. QED
    BY <1>a, <2>1, <2>2 DEF Keeps, Undisturbed, GaveUp, ShapeOK
<1>4. ASSUME NEW r \in Requests, BackendRuns(r) PROVE Keeps
  <2>1. /\ UNCHANGED <<index, hash, shardCount, holdLock, overrun, forwarded, pc>>
        /\ backend[r] = "sent" /\ backend' = [backend EXCEPT ![r] = "ran"]
    BY <1>4 DEF BackendRuns, engineVars, routerVars
  <2>2. QED
    BY <1>a, <2>1 DEF Keeps, Undisturbed, GaveUp, ShapeOK
<1>5. ASSUME NEW r \in Requests, Cancel(r) PROVE Keeps
  <2>1. /\ UNCHANGED <<index, hash, shardCount, holdLock, overrun, forwarded, backend>>
        /\ pc' = [pc EXCEPT ![r] = "cancelled"]
    BY <1>5 DEF Cancel, engineVars, routerVars
  <2>2. QED
    BY <1>a, <2>1 DEF Keeps, Undisturbed, GaveUp, ShapeOK
<1>6. CASE ScrapeShard \/ ScrapeDenied \/ UNCHANGED vars
  <2>1. UNCHANGED <<index, hash, shardCount, holdLock, overrun, forwarded, backend, pc>>
    BY <1>6 DEF ScrapeShard, ScrapeDenied, vars, engineVars, routerVars, requestVars
  <2>2. QED
    BY <1>a, <2>1 DEF Keeps, Undisturbed, GaveUp
<1>7. CASE Tick
  <2>1. /\ UNCHANGED <<index, hash, shardCount, holdLock, forwarded, backend, pc>>
        /\ overrun => overrun'
    BY <1>7 DEF Tick, engineVars, routerVars, requestVars
  <2>2. QED
    BY <1>a, <2>1 DEF Keeps, Undisturbed, GaveUp
<1>8. ASSUME NEW s \in 0..(shardCount - 1), NEW now \in 0..MaxClock, PruneExpired(s, now)
      PROVE  Keeps
  <2> DEFINE dropped == {k \in Keys : ~PruneKeeps(index[s][k], now)}
  <2>1. s \in Shards
    BY ShardFacts DEF ShapeOK
  <2>2. /\ index' = [index EXCEPT ![s] =
                        [k \in Keys |-> IF k \in dropped THEN Absent ELSE index[s][k]]]
        /\ life' = [k \in Keys |-> IF k \in dropped THEN life[k] + 1 ELSE life[k]]
        /\ UNCHANGED <<hash, shardCount, holdLock, overrun, forwarded, backend, pc>>
    BY <1>8 DEF PruneExpired, routerVars, requestVars
  <2>3. \A k \in dropped : /\ index[s][k].tag = "Completed"
                           /\ s = ShardOf(k)
    BY <2>1 DEF KeysAtHome, PruneKeeps, Absent
  <2>4. dropped \subseteq Keys
    OBVIOUS
  <2> HIDE DEF dropped
  <2>5. ASSUME NEW k \in Keys
        PROVE  \/ StateOf(k)' = StateOf(k)
               \/ StateOf(k).tag = "Completed" /\ life'[k] > life[k]
    <3>1. CASE k \in dropped
      <4>1. life'[k] = life[k] + 1 /\ life[k] \in Nat
        BY <2>2, <3>1 DEF ShapeOK
      <4>2. QED
        BY <2>3, <3>1, <4>1 DEF StateOf
    <3>2. CASE k \notin dropped
      <4>1. ShardOf(k)' = ShardOf(k) /\ ShardOf(k) \in Shards
        BY <2>2, ShardOfType DEF ShardOf
      <4>2. index'[ShardOf(k)][k] = index[ShardOf(k)][k]
        BY <2>1, <2>2, <3>2, <4>1 DEF ShapeOK
      <4>3. QED
        BY <4>1, <4>2 DEF StateOf
    <3>3. QED
      BY <3>1, <3>2
  <2>6. QED
    BY <2>2, <2>5 DEF Keeps, Undisturbed, GaveUp
<1>9. CASE Crash
  <2>1. /\ index' = [s \in Shards |-> RecoveredIndex(s)]
        /\ UNCHANGED <<holdLock, overrun, hash, forwarded, backend>>
        /\ pc' = [r \in Requests |->
                    IF pc[r] \in {"idle", "answered"} THEN pc[r] ELSE "lost"]
    BY <1>9 DEF Crash
  <2>2. restart = "same"
    BY DEF ShapeOK
  <2>3. shardCount' = shardCount
    BY <1>9, <2>2 DEF Crash
  <2>4. index' = index
    BY <2>1, <2>2 DEF RecoveredIndex, ShapeOK
  <2>5. \A r \in Requests : GaveUp(r) => GaveUp(r)'
    BY <2>1 DEF GaveUp
  <2>6. QED
    BY <1>a, <2>1, <2>3, <2>4, <2>5 DEF Keeps, Undisturbed
<1>10. QED
  BY <1>1, <1>2, <1>3, <1>4, <1>5, <1>6, <1>7, <1>8, <1>9

\* Undisturbed, begin_phase runs a request only when no other request of its key
\* is running.
LEMMA NoTakeover ==
    ASSUME ShapeOK, Stages, ReplayInv, LockInv, LeaseHeld, Undisturbed,
           NEW r \in Requests, BeginRun(r), NEW k \in Keys, req[r].key = k,
           NEW q \in Requests, Running(q, k)
    PROVE  FALSE
<1>1. CASE holdLock
  BY <1>1 DEF BeginRun, LockFree, Running
<1>2. CASE ~overrun
  <2>1. StateOf(k).tag = "InProgress" /\ StateOf(k).fence = token[q]
    BY DEF LeaseHeld
  <2>2. StateOf(k).leaseExpiresAt = req[q].at + LeaseMs
    BY <2>1 DEF ReplayInv, LeaseIsOwn
  <2>3. clock < req[q].at + LeaseMs /\ req[r].at <= clock
    BY <1>2 DEF LockInv, WithinLease, Running, Stages
  <2>4. BeginDecision(StateOf(k), req[r].fp, req[r].at) = "Start"
    BY DEF BeginRun, RouteShard, StateOf, ShardOf
  <2>5. req[r].at >= StateOf(k).leaseExpiresAt
    BY <2>1, <2>4 DEF BeginDecision
  <2>6. req[r].at \in Nat /\ clock \in Nat /\ req[q].at \in Nat /\ LeaseMs \in Nat
    <3>1. req[r].at \in 0..MaxClock /\ req[q].at \in 0..MaxClock
      BY RequestFacts
    <3>2. clock \in 0..MaxClock /\ MaxClock \in Nat /\ LeaseMs \in Nat
      BY DurationsAssumption, GatewayAssumption DEF ShapeOK
    <3>3. QED
      BY <3>1, <3>2
  <2>7. QED
    BY <2>2, <2>3, <2>5, <2>6
<1>3. QED
  BY <1>1, <1>2 DEF Undisturbed, ShapeOK


\* begin_phase that runs a request keeps the answers in agreement: it begins a
\* new life of a completed key, and otherwise no final answer was given.
LEMMA RunKeepsAgreement ==
    ASSUME ShapeOK, ShapeOK', Stages, ReplayInv, LockInv, AgreementInv,
           NEW r \in Requests, BeginRun(r)
    PROVE  AgreementInv'
<1>1. PICK k \in Keys, s \in Shards, st \in KeyState :
      /\ req[r].key = k /\ s = ShardOf(k)
      /\ st.tag = "InProgress" /\ st.fence = nextFence[s]
      /\ st.fingerprint = req[r].fp
      /\ st.leaseExpiresAt = req[r].at + LeaseMs
      /\ index' = [index EXCEPT ![s] = [index[s] EXCEPT ![k] = st]]
      /\ nextFence' = [nextFence EXCEPT ![s] = nextFence[s] + 1]
      /\ life' = IF index[s][k].tag = "Completed"
                 THEN [life EXCEPT ![k] = life[k] + 1] ELSE life
      /\ lifeOf' = [lifeOf EXCEPT ![r] = life'[k]]
      /\ home' = [home EXCEPT ![r] = s]
      /\ token' = [token EXCEPT ![r] = nextFence[s]]
  BY RunEffect
<1>2. /\ pc[r] = "arrived" /\ pc' = [pc EXCEPT ![r] = "forwarding"]
      /\ backend' = [backend EXCEPT ![r] = "sent"]
      /\ UNCHANGED <<hash, shardCount, holdLock, overrun, req, forwarded, answer>>
  BY DEF BeginRun, routerVars
<1>3. /\ StateOf(k)' = st
      /\ \A j \in Keys \ {k} : StateOf(j)' = StateOf(j) /\ life'[j] = life[j]
  <2>1. \A j \in Keys : ShardOf(j)' = ShardOf(j)
    BY <1>2 DEF ShardOf
  <2>2. StateOf(k)' = st
    BY <1>1, <2>1 DEF StateOf, ShapeOK
  <2>3. \A j \in Keys \ {k} : index'[ShardOf(j)][j] = index[ShardOf(j)][j]
    BY <1>1, ShardOfType DEF ShapeOK
  <2>4. \A j \in Keys \ {k} : life'[j] = life[j]
    BY <1>1 DEF ShapeOK
  <2>5. QED
    BY <2>1, <2>2, <2>3, <2>4 DEF StateOf
<1>4. \A q \in Requests \ {r} :
        /\ pc'[q] = pc[q] /\ backend'[q] = backend[q] /\ lifeOf'[q] = lifeOf[q]
        /\ token'[q] = token[q]
  BY <1>1, <1>2 DEF ShapeOK
<1>5. lifeOf'[r] = life'[k] /\ token'[r] = nextFence[s]
  BY <1>1 DEF ShapeOK
<1>6. Undisturbed' = Undisturbed
  BY <1>2 DEF Undisturbed
<1>7. ~Final(r) /\ \A q \in Requests : Final(q)' = Final(q)
  <2>1. answer[r] = NoAnswer
    BY <1>2 DEF Stages
  <2>2. NoAnswer.status = "none"
    BY DEF NoAnswer
  <2>3. QED
    BY <1>2, <2>1, <2>2 DEF Final
<1>8. ASSUME Undisturbed, NEW q \in Requests, q # r, Final(q), req[q].key = k,
             lifeOf[q] = life'[k]
      PROVE  FALSE
  <2>1. lifeOf[q] <= life[k] /\ life[k] \in Nat
    BY <1>8 DEF ReplayInv, LivesInOrder, ShapeOK
  <2>2. CASE index[s][k].tag = "Completed"
    <3>1. life'[k] = life[k] + 1
      BY <1>1, <2>2 DEF ShapeOK
    <3>2. QED
      BY <1>8, <2>1, <3>1
  <2>3. CASE index[s][k].tag # "Completed"
    <3>1. life'[k] = life[k]
      BY <1>1, <2>3
    <3>2. StateOf(k).tag = "Completed"
      BY <1>8, <3>1 DEF AgreementInv, FinalIsStored
    <3>3. QED
      BY <1>1, <2>3, <3>2 DEF StateOf
  <2>4. QED
    BY <2>2, <2>3
<1>9. ASSUME Undisturbed, NEW q \in Requests, Running(q, k)
      PROVE  FALSE
  BY <1>1, <1>9, NoTakeover DEF AgreementInv
<1>10. LeaseHeld'
  <2> SUFFICES ASSUME Undisturbed, NEW q \in Requests, NEW j \in Keys, Running(q, j)'
               PROVE  StateOf(j)'.tag = "InProgress" /\ StateOf(j)'.fence = token'[q]
    BY <1>6 DEF LeaseHeld
  <2>1. CASE q = r
    BY <1>1, <1>2, <1>3, <1>5, <2>1 DEF Running
  <2>2. CASE q # r
    <3>1. Running(q, j)
      BY <1>2, <1>4, <2>2 DEF Running
    <3>2. j # k
      BY <1>9, <3>1
    <3>3. QED
      BY <1>3, <1>4, <2>2, <3>1, <3>2 DEF AgreementInv, LeaseHeld
  <2>3. QED
    BY <2>1, <2>2
<1>11. FinalIsStored'
  <2> SUFFICES ASSUME Undisturbed, NEW q \in Requests, NEW j \in Keys, Final(q)',
                      req'[q].key = j, lifeOf'[q] = life'[j]
               PROVE  StateOf(j)'.tag = "Completed" /\ StateOf(j)'.outcome = answer'[q].from
    BY <1>6 DEF FinalIsStored
  <2>1. q # r /\ Final(q) /\ req[q].key = j /\ lifeOf[q] = life'[j]
    BY <1>2, <1>4, <1>7
  <2>2. j # k
    BY <1>8, <2>1
  <2>3. QED
    BY <1>2, <1>3, <2>1, <2>2 DEF AgreementInv, FinalIsStored
<1>12. AnswersAgree'
  <2> SUFFICES ASSUME Undisturbed, NEW p \in Requests, NEW q \in Requests,
                      SameKeyAndLife(p, q)', Final(p)', Final(q)'
               PROVE  answer'[p].from = answer'[q].from
    BY <1>6 DEF AnswersAgree, Undisturbed, Final
  <2>1. p # r /\ q # r /\ Final(p) /\ Final(q)
    BY <1>7
  <2>2. SameKeyAndLife(p, q)
    BY <1>2, <1>4, <2>1 DEF SameKeyAndLife
  <2>3. QED
    BY <1>2, <2>1, <2>2 DEF AgreementInv, AnswersAgree, Undisturbed, Final
<1>13. SingleAttempt'
  <2>1. ASSUME Undisturbed, NEW q \in Requests, q # r, req[q].key = k,
               lifeOf[q] = life'[k], backend[q] # "none"
        PROVE  GaveUp(q)'
    <3>1. pc[q] \in {"forwarding", "answered", "cancelled", "lost"}
      BY <2>1 DEF Stages, ShapeOK
    <3>2. CASE pc[q] = "forwarding"
      BY <1>9, <2>1, <3>2 DEF Running
    <3>3. CASE pc[q] \in {"cancelled", "lost"}
      BY <1>4, <2>1, <3>3 DEF GaveUp
    <3>4. CASE pc[q] = "answered"
      <4>1. forwarded[q] # "none" /\ forwarded[q] \in Results \union {"none"}
        BY <2>1, <3>4 DEF Stages, ShapeOK
      <4>2. forwarded[q] # "ok"
        <5>1. SUFFICES ASSUME forwarded[q] = "ok" PROVE FALSE
          OBVIOUS
        <5>2. answer[q] = [status |-> "created", from |-> q]
          BY <2>1, <3>4, <5>1, GatewayAssumption DEF Stages, Keyed
        <5>3. Final(q)
          BY <5>2 DEF Final
        <5>4. QED
          BY <1>8, <2>1, <5>3
      <4>3. QED
        BY <1>2, <4>1, <4>2 DEF GaveUp, Results
    <3>5. QED
      BY <3>1, <3>2, <3>3, <3>4
  <2>2. SUFFICES ASSUME Undisturbed, NEW p \in Requests, NEW q \in Requests, p # q,
                        SameKeyAndLife(p, q)', backend'[p] # "none", backend'[q] # "none"
                 PROVE  GaveUp(p)' \/ GaveUp(q)'
    BY <1>6 DEF SingleAttempt
  <2>3. CASE p = r
    <3>1. q # r /\ req[q].key = k /\ lifeOf[q] = life'[k] /\ backend[q] # "none"
      BY <1>1, <1>2, <1>4, <1>5, <2>2, <2>3 DEF SameKeyAndLife
    <3>2. QED
      BY <2>1, <2>2, <3>1
  <2>4. CASE q = r
    <3>1. p # r /\ req[p].key = k /\ lifeOf[p] = life'[k] /\ backend[p] # "none"
      BY <1>1, <1>2, <1>4, <1>5, <2>2, <2>4 DEF SameKeyAndLife
    <3>2. QED
      BY <2>1, <2>2, <3>1
  <2>5. CASE p # r /\ q # r
    <3>1. SameKeyAndLife(p, q) /\ backend[p] # "none" /\ backend[q] # "none"
      BY <1>2, <1>4, <2>2, <2>5 DEF SameKeyAndLife
    <3>2. GaveUp(p) \/ GaveUp(q)
      BY <2>2, <3>1 DEF AgreementInv, SingleAttempt
    <3>3. QED
      BY <1>2, <1>4, <2>5, <3>2 DEF GaveUp
  <2>6. QED
    BY <2>3, <2>4, <2>5
<1>14. QED
  BY <1>10, <1>11, <1>12, <1>13 DEF AgreementInv

\* begin_phase that answers at once keeps the answers in agreement: a replay is
\* the stored outcome, and so is every final answer of this life.
LEMMA DoneKeepsAgreement ==
    ASSUME ShapeOK, ShapeOK', Stages, ReplayInv, AgreementInv,
           NEW r \in Requests, BeginDone(r)
    PROVE  AgreementInv'
<1>1. /\ pc[r] = "arrived" /\ pc' = [pc EXCEPT ![r] = "answered"]
      /\ UNCHANGED <<index, nextFence, life, hash, shardCount, holdLock, clock, overrun,
                     req, token, forwarded, backend>>
      /\ answer[r] = NoAnswer /\ answer' = [answer EXCEPT ![r] = answer'[r]]
  BY DoneEffect
<1>2. PICK k \in Keys :
        /\ req[r].key = k
        /\ home' = [home EXCEPT ![r] = ShardOf(k)]
        /\ lifeOf' = [lifeOf EXCEPT ![r] = life[k]]
        /\ answer'[r].status # "created"
        /\ answer'[r].status = "replayed" =>
                /\ StateOf(k).tag = "Completed"
                /\ StateOf(k).fingerprint = req[r].fp
                /\ answer'[r].from = StateOf(k).outcome
  BY DoneEffect
<1>3. \A q \in Requests \ {r} :
        /\ pc'[q] = pc[q] /\ lifeOf'[q] = lifeOf[q] /\ answer'[q] = answer[q]
        /\ Final(q)' = Final(q) /\ GaveUp(q)' = GaveUp(q)
  BY <1>1, <1>2, SMTT(30) DEF ShapeOK, Final, GaveUp
<1>4. pc'[r] = "answered" /\ lifeOf'[r] = life[k] /\ backend[r] = "none"
  BY <1>1, <1>2 DEF ShapeOK, Stages
<1>5. \A j \in Keys : StateOf(j)' = StateOf(j)
  BY <1>1 DEF ShardOf, StateOf
<1>6. Undisturbed' = Undisturbed
  BY <1>1 DEF Undisturbed
<1>7. Final(r)' => StateOf(k).tag = "Completed" /\ answer'[r].from = StateOf(k).outcome
  BY <1>2 DEF Final
<1>8. LeaseHeld'
  <2>1. \A q \in Requests, j \in Keys : Running(q, j)' => Running(q, j)
    BY <1>1, <1>3, <1>4 DEF Running
  <2>2. QED
    BY <1>1, <1>5, <1>6, <2>1 DEF AgreementInv, LeaseHeld
<1>9. FinalIsStored'
  <2> SUFFICES ASSUME Undisturbed, NEW q \in Requests, NEW j \in Keys, Final(q)',
                      req[q].key = j, lifeOf'[q] = life[j]
               PROVE  StateOf(j).tag = "Completed" /\ StateOf(j).outcome = answer'[q].from
    BY <1>1, <1>5, <1>6 DEF FinalIsStored
  <2>1. CASE q = r
    BY <1>2, <1>7, <2>1
  <2>2. CASE q # r
    BY <1>3, <2>2 DEF AgreementInv, FinalIsStored
  <2>3. QED
    BY <2>1, <2>2
<1>10. AnswersAgree'
  <2>1. ASSUME Undisturbed, NEW q \in Requests, q # r, Final(q), Final(r)',
               req[q].key = k, lifeOf[q] = life[k]
        PROVE  answer'[q].from = answer'[r].from
    <3>1. StateOf(k).outcome = answer[q].from
      BY <2>1 DEF AgreementInv, FinalIsStored
    <3>2. QED
      BY <1>3, <1>7, <2>1, <3>1
  <2>2. SUFFICES ASSUME Undisturbed, NEW p \in Requests, NEW q \in Requests,
                        SameKeyAndLife(p, q)', Final(p)', Final(q)'
                 PROVE  answer'[p].from = answer'[q].from
    BY <1>6 DEF AnswersAgree, Undisturbed, Final
  <2>3. CASE p = r /\ q # r
    BY <1>1, <1>2, <1>3, <1>4, <2>1, <2>2, <2>3 DEF SameKeyAndLife
  <2>4. CASE q = r /\ p # r
    BY <1>1, <1>2, <1>3, <1>4, <2>1, <2>2, <2>4 DEF SameKeyAndLife
  <2>5. CASE p # r /\ q # r
    <3>1. SameKeyAndLife(p, q)
      BY <1>1, <1>3, <2>2, <2>5 DEF SameKeyAndLife
    <3>2. QED
      BY <1>3, <2>2, <2>5, <3>1 DEF AgreementInv, AnswersAgree, Undisturbed, Final
  <2>6. QED
    BY <2>3, <2>4, <2>5
<1>11. SingleAttempt'
  <2> SUFFICES ASSUME Undisturbed, NEW p \in Requests, NEW q \in Requests, p # q,
                      SameKeyAndLife(p, q)', backend'[p] # "none", backend'[q] # "none"
               PROVE  GaveUp(p)' \/ GaveUp(q)'
    BY <1>6 DEF SingleAttempt
  <2>1. p # r /\ q # r /\ backend[p] # "none" /\ backend[q] # "none"
    BY <1>1, <1>4
  <2>2. SameKeyAndLife(p, q)
    BY <1>1, <1>3, <2>1 DEF SameKeyAndLife
  <2>3. QED
    BY <1>3, <2>1, <2>2 DEF AgreementInv, SingleAttempt
<1>12. QED
  BY <1>8, <1>9, <1>10, <1>11 DEF AgreementInv


\* complete_phase keeps the answers in agreement: undisturbed, the request holds
\* the lease, so its final answer is stored and no other was given.
LEMMA CompleteKeepsAgreement ==
    ASSUME ShapeOK, ShapeOK', Stages, ReplayInv, AgreementInv, NEW r \in Requests,
           NEW result \in Results, CompletePhase(r, result)
    PROVE  AgreementInv'
<1> KeysAtHome
  BY DEF ReplayInv
<1>1. /\ pc[r] = "forwarding" /\ pc' = [pc EXCEPT ![r] = "answered"]
      /\ forwarded' = [forwarded EXCEPT ![r] = result]
      /\ token' = [token EXCEPT ![r] = 0]
      /\ answer' = [answer EXCEPT ![r] = Served(r, result)]
      /\ Served(r, result).status # "replayed"
      /\ Served(r, result).status = "created" => result = "ok" /\ Keyed(r)
      /\ UNCHANGED <<life, hash, shardCount, holdLock, overrun, req, backend, lifeOf>>
  BY CompleteEffect
<1>2. \A q \in Requests \ {r} :
        /\ pc'[q] = pc[q] /\ token'[q] = token[q] /\ answer'[q] = answer[q]
        /\ Final(q)' = Final(q) /\ GaveUp(q)' = GaveUp(q)
  BY <1>1 DEF ShapeOK, Final, GaveUp
<1>3. pc'[r] = "answered" /\ forwarded[r] = "none" /\ answer'[r] = Served(r, result)
  BY <1>1 DEF ShapeOK, Stages
<1>4. ~GaveUp(r)
  BY <1>1, <1>3 DEF GaveUp
<1>5. Undisturbed' = Undisturbed
  BY <1>1 DEF Undisturbed
<1>6. Final(r)' => result = "ok" /\ Keyed(r) /\ answer'[r] = [status |-> "created", from |-> r]
  <2>1. Final(r)' => result = "ok" /\ Keyed(r)
    BY <1>1, <1>3 DEF Final
  <2>2. result = "ok" /\ Keyed(r) => Served(r, result) = [status |-> "created", from |-> r]
    BY CompleteEffect
  <2>3. QED
    BY <1>3, <2>1, <2>2
<1>7. \A q \in Requests, j \in Keys : Running(q, j)' => q # r /\ Running(q, j)
  BY <1>1, <1>2, <1>3 DEF Running
<1>8. SingleAttempt'
  <2> SUFFICES ASSUME Undisturbed, NEW p \in Requests, NEW q \in Requests, p # q,
                      SameKeyAndLife(p, q)', backend'[p] # "none", backend'[q] # "none"
               PROVE  GaveUp(p)' \/ GaveUp(q)'
    BY <1>5 DEF SingleAttempt
  <2>1. SameKeyAndLife(p, q) /\ backend[p] # "none" /\ backend[q] # "none"
    BY <1>1 DEF SameKeyAndLife
  <2>2. GaveUp(p) \/ GaveUp(q)
    BY <2>1 DEF AgreementInv, SingleAttempt
  <2>3. QED
    BY <1>2, <1>4, <2>2
<1>9. ASSUME Undisturbed, NEW k \in Keys, req[r].key = k
      PROVE  /\ StateOf(k).tag = "InProgress" /\ StateOf(k).fence = token[r]
             /\ lifeOf[r] = life[k]
             /\ \A q \in Requests : ~ (q # r /\ Running(q, k))
             /\ \A q \in Requests : ~ (Final(q) /\ req[q].key = k /\ lifeOf[q] = life[k])
  <2>1. Running(r, k)
    BY <1>1, <1>9 DEF Running
  <2>2. StateOf(k).tag = "InProgress" /\ StateOf(k).fence = token[r]
    BY <1>9, <2>1 DEF AgreementInv, LeaseHeld
  <2>3. lifeOf[r] = life[k]
    BY <2>1, <2>2 DEF ReplayInv, LeaseIsOwn
  <2>4. ASSUME NEW q \in Requests, q # r, Running(q, k) PROVE FALSE
    <3>1. token[q] = token[r]
      BY <1>9, <2>2, <2>4 DEF AgreementInv, LeaseHeld
    <3>2. QED
      BY <2>1, <2>4, <3>1 DEF ReplayInv, TokensDistinct
  <2>5. ASSUME NEW q \in Requests, Final(q), req[q].key = k, lifeOf[q] = life[k]
        PROVE  FALSE
    BY <1>9, <2>2, <2>5 DEF AgreementInv, FinalIsStored
  <2>6. QED
    BY <2>2, <2>3, <2>4, <2>5
<1>10. AnswersAgree'
  <2>1. ASSUME Undisturbed, NEW q \in Requests, q # r, Final(q), Final(r)',
               SameKeyAndLife(r, q)'
        PROVE  FALSE
    <3>1. Keyed(r) /\ req[q].key = req[r].key /\ lifeOf[q] = lifeOf[r]
      BY <1>1, <1>6, <2>1 DEF SameKeyAndLife
    <3>2. PICK k \in Keys : req[r].key = k
      BY <3>1, RequestFacts DEF Keyed
    <3>3. QED
      BY <1>9, <2>1, <3>1, <3>2
  <2>2. SUFFICES ASSUME Undisturbed, NEW p \in Requests, NEW q \in Requests,
                        SameKeyAndLife(p, q)', Final(p)', Final(q)'
                 PROVE  answer'[p].from = answer'[q].from
    BY <1>5 DEF AnswersAgree, Undisturbed, Final
  <2>3. CASE p = r /\ q # r
    BY <1>2, <2>1, <2>2, <2>3
  <2>4. CASE q = r /\ p # r
    <3>1. SameKeyAndLife(q, p)'
      BY <2>2 DEF SameKeyAndLife
    <3>2. QED
      BY <1>2, <2>1, <2>2, <2>4, <3>1
  <2>5. CASE p # r /\ q # r
    <3>1. SameKeyAndLife(p, q)
      BY <1>1, <2>2 DEF SameKeyAndLife
    <3>2. QED
      BY <1>2, <2>2, <2>5, <3>1 DEF AgreementInv, AnswersAgree, Undisturbed, Final
  <2>6. QED
    BY <2>3, <2>4, <2>5
<1>11. \A j \in Keys : ShardOf(j)' = ShardOf(j)
  BY <1>1 DEF ShardOf
<1>12. CASE index' = index /\ ~Commits(r, result)
  <2>1. \A j \in Keys : StateOf(j)' = StateOf(j)
    BY <1>11, <1>12 DEF StateOf
  <2>2. LeaseHeld'
    BY <1>2, <1>5, <1>7, <2>1 DEF AgreementInv, LeaseHeld
  <2>3. ASSUME Undisturbed PROVE ~Final(r)'
    <3>1. SUFFICES ASSUME Final(r)' PROVE FALSE
      OBVIOUS
    <3>2. result = "ok" /\ Keyed(r)
      BY <1>6, <3>1
    <3>3. PICK k \in Keys : req[r].key = k
      BY <3>2, RequestFacts DEF Keyed
    <3>4. StateOf(k).tag = "InProgress" /\ StateOf(k).fence = token[r]
      BY <1>9, <2>3, <3>3
    <3>5. index[home[r]][req[r].key] = StateOf(k)
      BY <1>1, <3>3 DEF KeysAtHome, Running, StateOf
    <3>6. CompleteDecision(StateOf(k), token[r]) = "Ok"
      BY <3>4 DEF CompleteDecision
    <3>7. Commits(r, result)
      BY <3>2, <3>5, <3>6 DEF Commits, Keyed
    <3>8. QED
      BY <1>12, <3>7
  <2>4. FinalIsStored'
    BY <1>1, <1>2, <1>5, <2>1, <2>3 DEF AgreementInv, FinalIsStored
  <2>5. QED
    BY <1>8, <1>10, <2>2, <2>4 DEF AgreementInv
<1>13. ASSUME NEW k \in Keys, NEW new \in KeyState,
              req[r].key = k, result = "ok",
              new.tag = "Completed", new.outcome = r,
              index' = [index EXCEPT ![ShardOf(k)] =
                            [index[ShardOf(k)] EXCEPT ![k] = new]]
       PROVE  AgreementInv'
  <2>1. StateOf(k)' = new
    BY <1>11, <1>13, ShardOfType DEF StateOf, ShapeOK
  <2>2. \A j \in Keys \ {k} : StateOf(j)' = StateOf(j)
    <3>1. \A j \in Keys \ {k} : index'[ShardOf(j)][j] = index[ShardOf(j)][j]
      BY <1>13, ShardOfType DEF ShapeOK
    <3>2. QED
      BY <1>11, <3>1 DEF StateOf
  <2>3. LeaseHeld'
    <3> SUFFICES ASSUME Undisturbed, NEW q \in Requests, NEW j \in Keys, Running(q, j)'
                 PROVE  StateOf(j)'.tag = "InProgress" /\ StateOf(j)'.fence = token'[q]
      BY <1>5 DEF LeaseHeld
    <3>1. q # r /\ Running(q, j)
      BY <1>7
    <3>2. j # k
      BY <1>9, <1>13, <3>1
    <3>3. QED
      BY <1>2, <2>2, <3>1, <3>2 DEF AgreementInv, LeaseHeld
  <2>4. FinalIsStored'
    <3> SUFFICES ASSUME Undisturbed, NEW q \in Requests, NEW j \in Keys, Final(q)',
                        req[q].key = j, lifeOf[q] = life[j]
                 PROVE  StateOf(j)'.tag = "Completed" /\ StateOf(j)'.outcome = answer'[q].from
      BY <1>1, <1>5 DEF FinalIsStored
    <3>1. CASE q = r
      <4>1. j = k
        BY <1>13, <3>1
      <4>2. answer'[r].from = r
        BY <1>6, <3>1
      <4>3. QED
        BY <1>13, <2>1, <3>1, <4>1, <4>2
    <3>2. CASE q # r
      <4>1. Final(q)
        BY <1>2, <3>2
      <4>2. j # k
        BY <1>9, <1>13, <4>1
      <4>3. QED
        BY <1>2, <2>2, <3>2, <4>1, <4>2 DEF AgreementInv, FinalIsStored
    <3>3. QED
      BY <3>1, <3>2
  <2>5. QED
    BY <1>8, <1>10, <2>3, <2>4 DEF AgreementInv
<1>14. \/ index' = index /\ ~Commits(r, result)
       \/ \E k \in Keys, new \in KeyState :
            /\ req[r].key = k /\ result = "ok"
            /\ new.tag = "Completed" /\ new.outcome = r
            /\ index' = [index EXCEPT ![ShardOf(k)] =
                            [index[ShardOf(k)] EXCEPT ![k] = new]]
  BY CompleteEffect
<1>15. QED
  BY <1>12, <1>13, <1>14

\* Every action keeps the answers in agreement.
LEMMA AgreementNext ==
    ASSUME Restarts = {"same"}, ShapeOK, ShapeOK', Stages, ReplayInv, LockInv,
           AgreementInv, [Next]_vars
    PROVE  AgreementInv'
<1> KeysAtHome
  BY DEF ReplayInv
<1>1. ASSUME NEW r \in Requests, BeginRun(r) PROVE AgreementInv'
  BY <1>1, RunKeepsAgreement
<1>2. ASSUME NEW r \in Requests, BeginDone(r) PROVE AgreementInv'
  BY <1>2, DoneKeepsAgreement
<1>3. ASSUME NEW r \in Requests, NEW result \in Results, CompletePhase(r, result)
      PROVE  AgreementInv'
  BY <1>3, CompleteKeepsAgreement
<1>4. CASE \/ \E r \in Requests : \/ Arrive(r) \/ Deny(r) \/ BeginKeyless(r)
                                  \/ BackendRuns(r) \/ Cancel(r)
           \/ \E s \in 0..(shardCount - 1), now \in 0..MaxClock : PruneExpired(s, now)
           \/ ScrapeShard
           \/ ScrapeDenied
           \/ Crash
           \/ Tick
           \/ UNCHANGED vars
  <2>1. Keeps
    BY <1>4, OthersKeep
  <2>2. "recount" \notin Restarts
    OBVIOUS
  <2>3. Forgets
    BY <1>4, <2>2, OthersForget
  <2>4. QED
    BY <2>1, <2>3, KeepingKeepsAgreement
<1>5. QED
  BY <1>1, <1>2, <1>3, <1>4 DEF Next

\* Initially no request runs, and none was answered.
LEMMA AgreementInit == LeaseMs > 0 /\ Init => LockInv /\ AgreementInv
<1> SUFFICES ASSUME Init PROVE LockInv /\ AgreementInv
  OBVIOUS
<1>1. \A r \in Requests : /\ pc[r] = "idle" /\ backend[r] = "none"
                          /\ answer[r].status = "none"
  BY DEF Init, NoAnswer
<1>2. LockInv
  BY <1>1 DEF LockInv, OneAtATime, WithinLease
<1>3. LeaseHeld /\ FinalIsStored /\ SingleAttempt
  BY <1>1 DEF LeaseHeld, FinalIsStored, SingleAttempt, Running, Final
<1>4. AnswersAgree
  BY <1>1 DEF AnswersAgree
<1>5. QED
  BY <1>2, <1>3, <1>4 DEF AgreementInv

\* Everything together is an invariant of gateways on strict logs.
THEOREM AgreementInvariant ==
    ASSUME Restarts = {"same"}, LeaseMs > 0
    PROVE  Spec => []AgreementInv
<1> DEFINE I == ShapeOK /\ FencesBelow /\ Stages /\ ReplayInv /\ LockInv /\ AgreementInv
<1>1. Init => I
  BY ShapeInit, ReplayInit, AgreementInit
<1>2. I /\ [Next]_vars => I'
  <2>1. SUFFICES ASSUME I, [Next]_vars PROVE I'
    OBVIOUS
  <2>2. ShapeOK' /\ FencesBelow'
    BY <2>1, ShapeNext
  <2>3. Stages'
    BY <2>1, StagesNext
  <2>4. "recount" \notin Restarts
    OBVIOUS
  <2>5. ReplayInv'
    BY <2>1, <2>2, <2>4, ReplayNext
  <2>6. LockInv'
    BY <2>1, LockNext
  <2>7. AgreementInv'
    BY <2>1, <2>2, AgreementNext
  <2>8. QED
    BY <2>2, <2>3, <2>5, <2>6, <2>7
<1>3. I => AgreementInv
  OBVIOUS
<1>4. QED
  BY <1>1, <1>2, <1>3, PTL DEF Spec

\* On strict logs and the same shards, with a lease that is not zero: all clients
\* that get a final answer in one life of a key get the same one, always when
\* the lock is held across the forward, and otherwise until a request is late.
THEOREM ClientsAgree ==
    ASSUME Restarts = {"same"}, LeaseMs > 0
    PROVE  Spec => []AnswersAgree
<1>1. AgreementInv => AnswersAgree
  BY DEF AgreementInv
<1>2. QED
  BY <1>1, AgreementInvariant, PTL

\* Under the same conditions the backend executes a key a second time in one
\* life of the key only after the gateway gave up on the first run.
THEOREM EffectIsSingle ==
    ASSUME Restarts = {"same"}, LeaseMs > 0
    PROVE  Spec => []SingleEffect
<1>1. AgreementInv => SingleEffect
  BY DEF AgreementInv, SingleAttempt, SingleEffect, Undisturbed
<1>2. QED
  BY <1>1, AgreementInvariant, PTL

-----------------------------------------------------------------------------
(***************************************************************************)
(* The scrape.                                                             *)
(***************************************************************************)

\* Only shards there are take requests, and only they have counted any.
ShardsInUse ==
    /\ nextShard < shardCount
    /\ \A r \in Requests : pc[r] = "forwarding" => home[r] < shardCount
    /\ \A s \in Shards, c \in Counters : s >= shardCount => metrics[s][c] = 0

\* The shards a scrape has read.
ReadSoFar == IF scrape.read <= shardCount THEN scrape.read ELSE shardCount

\* Its total is between what those shards had counted when it began and what they
\* have counted now; it has no more outcomes than requests.
ScrapeFollows ==
    /\ scrape.read <= shardCount + 1
    /\ scrape.read = 0 => \A c \in Counters : scrape.total[c] = 0
    /\ \A s \in Shards, c \in Counters : scrape.before[s][c] <= metrics[s][c]
    /\ \A c \in Counters :
        /\ Sums(scrape.before, c)[ReadSoFar] <= scrape.total[c]
        /\ scrape.total[c] <= Sums(metrics, c)[ReadSoFar]
    /\ OutcomeSum(scrape.total) <= scrape.total["requests_total"]
    /\ scrape.read = shardCount + 1 => scrape.denied <= denied

\* Finite sums exist: the recursive equation of Sums has a solution.
LEMMA SumsExist ==
    ASSUME NEW N \in Nat, NEW v \in [0..(N - 1) -> Nat]
    PROVE  \E f \in [0..N -> Nat] :
                \A n \in 0..N : f[n] = IF n = 0 THEN 0 ELSE f[n - 1] + v[n - 1]
<1> DEFINE Adds(f, m) == \A n \in 0..m : f[n] = IF n = 0 THEN 0 ELSE f[n - 1] + v[n - 1]
           Without == {m \in 0..N : ~ \E f \in [0..m -> Nat] : Adds(f, m)}
<1>1. ASSUME Without # {} PROVE FALSE
  <2>1. Without \in SUBSET Nat
    OBVIOUS
  <2>2. PICK m \in Without : \A x \in Without : m <= x
    <3> HIDE DEF Without
    <3>1. QED
      BY <1>1, <2>1, MinProperty
  <2>3. m \in 0..N /\ ~ \E f \in [0..m -> Nat] : Adds(f, m)
    OBVIOUS
  <2>4. CASE m = 0
    <3> DEFINE f == [n \in 0..0 |-> 0]
    <3>1. f \in [0..0 -> Nat] /\ Adds(f, 0)
      OBVIOUS
    <3>2. QED
      BY <2>3, <2>4, <3>1
  <2>5. CASE m # 0
    <3>1. m - 1 \in 0..N /\ m - 1 \notin Without
      <4>1. m \in Nat /\ m - 1 \in 0..N /\ ~ (m <= m - 1)
        BY <2>3, <2>5
      <4> HIDE DEF Without
      <4>2. QED
        BY <2>2, <4>1
    <3>2. PICK g \in [0..(m - 1) -> Nat] : Adds(g, m - 1)
      BY <3>1
    <3> DEFINE f == [n \in 0..m |-> IF n = m THEN g[m - 1] + v[m - 1] ELSE g[n]]
    <3>3. m \in Nat /\ m - 1 \in 0..(m - 1) /\ m - 1 \in 0..(N - 1)
      BY <2>3, <2>5
    <3>4. g[m - 1] \in Nat /\ v[m - 1] \in Nat
      BY <3>3
    <3>5. \A n \in 0..m : n # m => n \in 0..(m - 1)
      BY <3>3
    <3>6. f \in [0..m -> Nat]
      BY <3>4, <3>5
    <3>7. f[m] = g[m - 1] + v[m - 1] /\ \A n \in 0..(m - 1) : f[n] = g[n]
      BY <3>3
    <3> HIDE DEF f
    <3>8. ASSUME NEW n \in 0..m
          PROVE  f[n] = IF n = 0 THEN 0 ELSE f[n - 1] + v[n - 1]
      <4>1. CASE n = m
        BY <2>5, <3>3, <3>7, <4>1
      <4>2. CASE n # m
        <5>1. n \in 0..(m - 1) /\ (n # 0 => n - 1 \in 0..(m - 1))
          BY <3>3, <3>5, <4>2
        <5>2. QED
          BY <3>2, <3>7, <5>1
      <4>3. QED
        BY <4>1, <4>2
    <3>9. QED
      BY <2>3, <3>6, <3>8
  <2>6. QED
    BY <2>4, <2>5
<1>2. N \in 0..N
  OBVIOUS
<1>3. QED
  BY <1>1, <1>2

\* The sums over the shards, one after the other.
AddsUp(S, m, c) ==
    /\ \A n \in 0..Max(ShardCounts) : S[n] \in Nat
    /\ S[0] = 0
    /\ \A n \in Shards : S[n + 1] = S[n] + m[n][c]

\* What Sums computes.
LEMMA SumsProperty ==
    ASSUME NEW m \in [Shards -> [Counters -> Nat]], NEW c \in Counters
    PROVE  AddsUp(Sums(m, c), m, c)
<1> DEFINE N == Max(ShardCounts)
<1>1. N \in Nat /\ Shards = 0..(N - 1)
  <2>1. 1 \in ShardCounts
    BY GatewayAssumption
  <2>2. QED
    BY <2>1, ShardFacts DEF Shards
<1> HIDE DEF N
<1> DEFINE v == [n \in 0..(N - 1) |-> m[n][c]]
<1>2. v \in [0..(N - 1) -> Nat] /\ \A n \in 0..(N - 1) : v[n] = m[n][c]
  BY <1>1
<1> HIDE DEF v
<1>3. PICK f \in [0..N -> Nat] :
        \A n \in 0..N : f[n] = IF n = 0 THEN 0 ELSE f[n - 1] + v[n - 1]
  BY <1>1, <1>2, SumsExist
<1>4. \A n \in 0..N : n # 0 => n - 1 \in 0..(N - 1)
  BY <1>1
<1>5. f = [n \in 0..N |-> IF n = 0 THEN 0 ELSE f[n - 1] + m[n - 1][c]]
  <2>1. \A n \in 0..N : f[n] = IF n = 0 THEN 0 ELSE f[n - 1] + m[n - 1][c]
    BY <1>2, <1>3, <1>4
  <2>2. QED
    BY <2>1
<1>6. PICK S : S = Sums(m, c)
  OBVIOUS
<1>7. S = [n \in 0..N |-> IF n = 0 THEN 0 ELSE S[n - 1] + m[n - 1][c]]
  BY <1>5, <1>6 DEF Sums, N
<1>8. S[0] = 0 /\ \A n \in 0..N : n # 0 => S[n] = S[n - 1] + m[n - 1][c]
  <2>1. \A n \in 0..N : S[n] = IF n = 0 THEN 0 ELSE S[n - 1] + m[n - 1][c]
    BY <1>7
  <2>2. 0 \in 0..N
    BY <1>1
  <2>3. QED
    BY <2>1, <2>2
<1>9. \A n \in Shards : S[n + 1] = S[n] + m[n][c]
  <2>1. \A n \in Shards : n + 1 \in 0..N /\ n + 1 # 0 /\ (n + 1) - 1 = n
    BY <1>1
  <2>2. QED
    BY <1>8, <2>1
<1>10. \A n \in 0..N : S[n] \in Nat
  <2> DEFINE Bad == {n \in 0..N : S[n] \notin Nat}
  <2>1. ASSUME Bad # {} PROVE FALSE
    <3>1. Bad \in SUBSET Nat
      BY <1>1
    <3>2. PICK n \in Bad : \A x \in Bad : n <= x
      <4> HIDE DEF Bad
      <4>1. QED
        BY <2>1, <3>1, MinProperty
    <3>3. n \in 0..N /\ n # 0 /\ S[n] = S[n - 1] + m[n - 1][c]
      BY <1>8
    <3>4. n - 1 \in 0..N /\ n - 1 \in Shards /\ ~ (n <= n - 1)
      BY <1>1, <3>3
    <3>5. S[n - 1] \in Nat /\ m[n - 1][c] \in Nat
      BY <3>2, <3>4
    <3>6. QED
      BY <3>3, <3>5
  <2>2. QED
    BY <2>1
<1>11. QED
  BY <1>6, <1>8, <1>9, <1>10 DEF AddsUp, N

\* Sums of larger counters are larger.
LEMMA SumsMonotone ==
    ASSUME NEW m \in [Shards -> [Counters -> Nat]], NEW p \in [Shards -> [Counters -> Nat]],
           NEW c \in Counters, \A s \in Shards : m[s][c] <= p[s][c],
           NEW n \in 0..Max(ShardCounts)
    PROVE  Sums(m, c)[n] <= Sums(p, c)[n]
<1>1. PICK N : N = Max(ShardCounts)
  OBVIOUS
<1>2. N \in Nat /\ Shards = 0..(N - 1)
  <2>1. 1 \in ShardCounts
    BY GatewayAssumption
  <2>2. QED
    BY <1>1, <2>1, ShardFacts DEF Shards
<1>3. PICK S : S = Sums(m, c)
  OBVIOUS
<1>4. PICK T : T = Sums(p, c)
  OBVIOUS
<1>5. AddsUp(S, m, c) /\ AddsUp(T, p, c)
  BY <1>3, <1>4, SumsProperty
<1> DEFINE Bad == {i \in 0..N : ~ (S[i] <= T[i])}
<1>6. ASSUME Bad # {} PROVE FALSE
  <2>1. Bad \in SUBSET Nat
    BY <1>2
  <2>2. PICK i \in Bad : \A x \in Bad : i <= x
    <3> HIDE DEF Bad
    <3>1. QED
      BY <1>6, <2>1, MinProperty
  <2>3. i \in 0..N /\ ~ (S[i] <= T[i])
    OBVIOUS
  <2>4. i # 0
    BY <1>5, <2>3 DEF AddsUp
  <2>5. PICK j \in Shards : i = j + 1 /\ j \in 0..N /\ ~ (i <= j)
    BY <1>2, <2>3, <2>4
  <2>6. S[j] <= T[j]
    BY <2>2, <2>5
  <2>7. /\ S[i] = S[j] + m[j][c] /\ T[i] = T[j] + p[j][c]
        /\ S[j] \in Nat /\ T[j] \in Nat /\ m[j][c] \in Nat /\ p[j][c] \in Nat
    BY <1>1, <1>5, <2>5 DEF AddsUp
  <2>8. m[j][c] <= p[j][c]
    OBVIOUS
  <2>9. QED
    BY <2>3, <2>6, <2>7, <2>8
<1>7. QED
  BY <1>1, <1>3, <1>4, <1>6

\* Shards that counted nothing add nothing.
LEMMA SumsOfShardsInUse ==
    ASSUME NEW m \in [Shards -> [Counters -> Nat]], NEW c \in Counters,
           NEW k \in ShardCounts, \A s \in Shards : s >= k => m[s][c] = 0
    PROVE  Total(m, c) = Sums(m, c)[k]
<1>1. PICK N : N = Max(ShardCounts)
  OBVIOUS
<1>2. N \in Nat /\ Shards = 0..(N - 1) /\ k \in Nat /\ k <= N
  BY <1>1, ShardFacts DEF Shards
<1>3. PICK S : S = Sums(m, c)
  OBVIOUS
<1>4. AddsUp(S, m, c)
  BY <1>3, SumsProperty
<1> DEFINE Bad == {i \in k..N : S[i] # S[k]}
<1>5. ASSUME Bad # {} PROVE FALSE
  <2>1. Bad \in SUBSET Nat
    BY <1>2
  <2>2. PICK i \in Bad : \A x \in Bad : i <= x
    <3> HIDE DEF Bad
    <3>1. QED
      BY <1>5, <2>1, MinProperty
  <2>3. i \in k..N /\ S[i] # S[k]
    OBVIOUS
  <2>4. PICK j \in Shards : i = j + 1 /\ j \in k..N /\ ~ (i <= j) /\ j >= k
    BY <1>2, <2>3
  <2>5. S[j] = S[k] /\ m[j][c] = 0
    BY <2>2, <2>4
  <2>6. S[i] = S[j] + m[j][c] /\ S[j] \in Nat
    BY <1>1, <1>2, <1>4, <2>4 DEF AddsUp
  <2>7. QED
    BY <2>3, <2>5, <2>6
<1>6. N \in k..N
  BY <1>2
<1>7. S[N] = S[k]
  BY <1>5, <1>6
<1>8. QED
  BY <1>1, <1>3, <1>7 DEF Total

\* What a step other than a crash does to the shards: it counts, on one in use.
Grows ==
    /\ shardCount' = shardCount
    /\ nextShard' < shardCount
    /\ \A r \in Requests : pc'[r] = "forwarding" => home'[r] < shardCount
    /\ \A s \in Shards, c \in Counters :
        /\ metrics[s][c] <= metrics'[s][c]
        /\ s >= shardCount => metrics'[s][c] = metrics[s][c]
    /\ denied <= denied'

\* Counting on a shard in use, with the other requests left where they are.
LEMMA CountGrows ==
    ASSUME ShapeOK, ShardsInUse, NEW s \in Shards, s < shardCount, NEW cs, Count(s, cs),
           shardCount' = shardCount, nextShard' < shardCount, denied' = denied,
           \A q \in Requests : pc'[q] = "forwarding" => home'[q] < shardCount
    PROVE  Grows
<1>1. \A x \in Shards, c \in Counters :
        /\ metrics[x][c] \in Nat
        /\ metrics'[x][c] = IF x = s /\ c \in cs THEN metrics[x][c] + 1
                            ELSE metrics[x][c]
  BY CountEffect
<1>2. shardCount \in Nat /\ Shards \subseteq Nat /\ denied \in Nat
  BY ShardFacts DEF ShapeOK
<1>3. \A x \in Shards : x >= shardCount => x # s
  BY <1>2
<1>4. QED
  BY <1>1, <1>2, <1>3 DEF Grows

\* Steps that count nothing and admit nobody.
LEMMA SilentGrows ==
    ASSUME ShapeOK, ShardsInUse,
           shardCount' = shardCount, nextShard' = nextShard, metrics' = metrics,
           denied' = denied \/ denied' = denied + 1, home' = home,
           \A q \in Requests : pc'[q] = "forwarding" => pc[q] = "forwarding"
    PROVE  Grows
<1>1. /\ denied \in Nat
      /\ \A x \in Shards, c \in Counters : metrics[x][c] \in Nat
  BY DEF ShapeOK
<1>2. QED
  BY <1>1 DEF Grows, ShardsInUse

\* Every step but a crash is one of those, and only a scrape reads.
LEMMA GrowsNext ==
    ASSUME ShapeOK, ShardsInUse, [Next]_vars
    PROVE  Crash \/ (Grows /\ (scrape' = scrape \/ ScrapeShard \/ ScrapeDenied))
<1>a. /\ shardCount \in Nat \ {0} /\ Shards \subseteq Nat
      /\ \A a \in Nat : a % shardCount \in 0..(shardCount - 1)
      /\ \A a \in Nat : a % shardCount \in Shards /\ a % shardCount < shardCount
  <2>1. shardCount \in Nat \ {0} /\ Shards \subseteq Nat
    BY ShardFacts DEF ShapeOK
  <2>2. \A a \in Nat : a % shardCount \in 0..(shardCount - 1)
    BY <2>1
  <2>3. \A a \in Nat : a % shardCount \in Shards
    BY ShardFacts DEF ShapeOK
  <2>4. QED
    BY <2>1, <2>2, <2>3
<1>b. nextShard \in Shards /\ nextShard < shardCount
      /\ \A q \in Requests : pc[q] = "forwarding" => home[q] < shardCount
  BY DEF ShapeOK, ShardsInUse
<1>c. ASSUME NEW r \in Requests, req[r].key \in Keys
      PROVE  RouteShard(r) \in Shards /\ RouteShard(r) < shardCount
  <2>1. hash[req[r].key] \in Nat
    BY <1>c, GatewayAssumption DEF ShapeOK
  <2>2. QED
    BY <1>a, <2>1 DEF RouteShard
<1>1. ASSUME NEW r \in Requests, Arrive(r) PROVE Grows /\ scrape' = scrape
  <2>1. /\ pc' = [pc EXCEPT ![r] = "arrived"]
        /\ UNCHANGED <<metrics, denied, home, shardCount, nextShard, scrape>>
    BY <1>1 DEF Arrive, routerVars
  <2>2. \A q \in Requests : pc'[q] = "forwarding" => pc[q] = "forwarding"
    BY <2>1 DEF ShapeOK
  <2>3. QED
    BY <2>1, <2>2, SilentGrows
<1>2. ASSUME NEW r \in Requests, Deny(r) PROVE Grows /\ scrape' = scrape
  <2>1. /\ pc' = [pc EXCEPT ![r] = "answered"] /\ denied' = denied + 1
        /\ UNCHANGED <<metrics, home, shardCount, nextShard, scrape>>
    BY <1>2 DEF Deny
  <2>2. \A q \in Requests : pc'[q] = "forwarding" => pc[q] = "forwarding"
    BY <2>1 DEF ShapeOK
  <2>3. QED
    BY <2>1, <2>2, SilentGrows
<1>3. ASSUME NEW r \in Requests, BeginKeyless(r) PROVE Grows /\ scrape' = scrape
  <2>1. /\ home' = [home EXCEPT ![r] = nextShard]
        /\ nextShard' = (nextShard + 1) % shardCount
        /\ Count(nextShard, {"requests_total"})
        /\ pc' = [pc EXCEPT ![r] = "forwarding"]
        /\ UNCHANGED <<denied, shardCount, scrape>>
    BY <1>3 DEF BeginKeyless, routerVars
  <2>2. \A q \in Requests : pc'[q] = "forwarding" => home'[q] < shardCount
    BY <1>b, <2>1 DEF ShapeOK
  <2>3. nextShard' < shardCount
    BY <1>a, <1>b, <2>1
  <2>4. QED
    BY <1>b, <2>1, <2>2, <2>3, CountGrows
<1>4. ASSUME NEW r \in Requests, BeginRun(r) PROVE Grows /\ scrape' = scrape
  <2>1. PICK s : s = RouteShard(r)
    OBVIOUS
  <2>2. req[r].key \in Keys
    BY <1>4, BeginRunFacts
  <2>3. s \in Shards /\ s < shardCount
    BY <1>c, <2>1, <2>2
  <2>4. /\ home' = [home EXCEPT ![r] = s]
        /\ Count(s, {"requests_total"})
        /\ pc' = [pc EXCEPT ![r] = "forwarding"]
        /\ UNCHANGED <<denied, shardCount, nextShard, scrape>>
    BY <1>4, <2>1 DEF BeginRun, routerVars
  <2>5. \A q \in Requests : pc'[q] = "forwarding" => home'[q] < shardCount
    BY <1>b, <2>3, <2>4 DEF ShapeOK
  <2>6. QED
    BY <1>b, <2>3, <2>4, <2>5, CountGrows
<1>5. ASSUME NEW r \in Requests, BeginDone(r) PROVE Grows /\ scrape' = scrape
  <2>1. PICK s : s = RouteShard(r)
    OBVIOUS
  <2>2. req[r].key \in Keys /\ \E cs : Count(s, cs)
    BY <1>5, <2>1, BeginDoneFacts
  <2>3. s \in Shards /\ s < shardCount
    BY <1>c, <2>1, <2>2
  <2>4. /\ home' = [home EXCEPT ![r] = s]
        /\ pc' = [pc EXCEPT ![r] = "answered"]
        /\ UNCHANGED <<denied, shardCount, nextShard, scrape>>
    BY <1>5, <2>1 DEF BeginDone, routerVars
  <2>5. \A q \in Requests : pc'[q] = "forwarding" => home'[q] < shardCount
    BY <1>b, <2>3, <2>4 DEF ShapeOK
  <2>6. PICK cs : Count(s, cs)
    BY <2>2
  <2>7. QED
    BY <1>b, <2>3, <2>4, <2>5, <2>6, CountGrows
<1>6. ASSUME NEW r \in Requests, NEW result \in Results, CompletePhase(r, result)
      PROVE  Grows /\ scrape' = scrape
  <2>1. PICK s : s = home[r]
    OBVIOUS
  <2>2. /\ pc[r] = "forwarding" /\ Count(s, {OutcomeCounter(r, result)})
        /\ pc' = [pc EXCEPT ![r] = "answered"]
        /\ UNCHANGED <<denied, shardCount, nextShard, scrape, home>>
    BY <1>6, <2>1 DEF CompletePhase, CompleteShard, routerVars
  <2>3. s \in Shards /\ s < shardCount
    BY <1>b, <2>1, <2>2 DEF ShapeOK
  <2>4. \A q \in Requests : pc'[q] = "forwarding" => home'[q] < shardCount
    BY <1>b, <2>2 DEF ShapeOK
  <2>5. QED
    BY <1>b, <2>2, <2>3, <2>4, CountGrows
<1>7. ASSUME NEW r \in Requests, Cancel(r) PROVE Grows /\ scrape' = scrape
  <2>1. /\ pc' = [pc EXCEPT ![r] = "cancelled"]
        /\ UNCHANGED <<metrics, denied, home, shardCount, nextShard, scrape>>
    BY <1>7 DEF Cancel, routerVars
  <2>2. \A q \in Requests : pc'[q] = "forwarding" => pc[q] = "forwarding"
    BY <2>1 DEF ShapeOK
  <2>3. QED
    BY <2>1, <2>2, SilentGrows
<1>8. UNCHANGED <<metrics, denied, home, pc, shardCount, nextShard>> => Grows
  BY SilentGrows
<1>9. ASSUME NEW r \in Requests, BackendRuns(r) PROVE Grows /\ scrape' = scrape
  BY <1>8, <1>9 DEF BackendRuns, routerVars
<1>10. ASSUME NEW s \in 0..(shardCount - 1), NEW now \in 0..MaxClock, PruneExpired(s, now)
       PROVE  Grows /\ scrape' = scrape
  BY <1>8, <1>10 DEF PruneExpired, routerVars, requestVars
<1>11. CASE ScrapeShard \/ ScrapeDenied
  BY <1>8, <1>11 DEF ScrapeShard, ScrapeDenied, requestVars
<1>12. CASE Tick \/ UNCHANGED vars
  BY <1>8, <1>12 DEF Tick, vars, routerVars, requestVars
<1>13. QED
  BY <1>1, <1>2, <1>3, <1>4, <1>5, <1>6, <1>7, <1>9, <1>10, <1>11, <1>12 DEF Next

\* No step uses a shard there is not.
LEMMA ShardsInUseNext ==
    ASSUME ShapeOK, ShardsInUse, [Next]_vars
    PROVE  ShardsInUse'
<1>1. CASE Crash
  <2>1. /\ nextShard' = 0 /\ metrics' = NoCounts
        /\ \A r \in Requests : pc'[r] # "forwarding"
        /\ shardCount' \in ShardCounts
    BY <1>1 DEF Crash, ShapeOK
  <2>2. nextShard' < shardCount'
    BY <2>1, GatewayAssumption
  <2>3. QED
    BY <2>1, <2>2 DEF ShardsInUse, NoCounts
<1>2. CASE Grows
  BY <1>2 DEF Grows, ShardsInUse
<1>3. QED
  BY <1>1, <1>2, GrowsNext

\* The fields of a scrape.
LEMMA ScrapeType ==
    ASSUME ShapeOK
    PROVE  /\ scrape.read \in Nat /\ scrape.read <= Max(ShardCounts) + 1
           /\ scrape.total \in [Counters -> Nat] /\ scrape.denied \in Nat
           /\ scrape.before \in [Shards -> [Counters -> Nat]]
           /\ metrics \in [Shards -> [Counters -> Nat]]
           /\ shardCount \in ShardCounts /\ shardCount \in Nat \ {0}
           /\ Max(ShardCounts) \in Nat /\ shardCount <= Max(ShardCounts)
           /\ denied \in Nat
<1>1. scrape \in [read: 0..(Max(ShardCounts) + 1), total: [Counters -> Nat], denied: Nat,
                  before: [Shards -> [Counters -> Nat]]]
  BY DEF ShapeOK
<1>2. shardCount \in ShardCounts /\ metrics \in [Shards -> [Counters -> Nat]] /\ denied \in Nat
  BY DEF ShapeOK
<1>3. /\ shardCount \in Nat \ {0}
      /\ Max(ShardCounts) \in Nat /\ shardCount <= Max(ShardCounts)
  BY <1>2, ShardFacts
<1>4. QED
  BY <1>1, <1>2, <1>3

\* Adding the counters of a shard adds its outcomes.
LEMMA OutcomesAdd ==
    ASSUME NEW a \in [Counters -> Nat], NEW b \in [Counters -> Nat]
    PROVE  /\ OutcomeSum(Merge(a, b)) = OutcomeSum(a) + OutcomeSum(b)
           /\ OutcomeSum(a) \in Nat /\ OutcomeSum(b) \in Nat
<1>1. \A c \in {"created", "replayed", "in_progress", "mismatch", "upstream_error",
               "passthrough"} :
        a[c] \in Nat /\ b[c] \in Nat /\ Merge(a, b)[c] = a[c] + b[c]
  BY DEF Merge, Counters
<1>2. PICK p : p = Merge(a, b)
  OBVIOUS
<1>3. /\ p["created"] = a["created"] + b["created"]
      /\ p["replayed"] = a["replayed"] + b["replayed"]
      /\ p["in_progress"] = a["in_progress"] + b["in_progress"]
      /\ p["mismatch"] = a["mismatch"] + b["mismatch"]
      /\ p["upstream_error"] = a["upstream_error"] + b["upstream_error"]
      /\ p["passthrough"] = a["passthrough"] + b["passthrough"]
  BY <1>1, <1>2
<1>4. OutcomeSum(a) \in Nat /\ OutcomeSum(b) \in Nat
  BY <1>1 DEF OutcomeSum
<1>5. OutcomeSum(p) = OutcomeSum(a) + OutcomeSum(b)
  BY <1>1, <1>3 DEF OutcomeSum
<1>6. QED
  BY <1>2, <1>4, <1>5

\* While the shards go on counting, the scrape stays in between.
LEMMA CountingKeepsScrape ==
    ASSUME ShapeOK, ShapeOK', ScrapeFollows, Grows, scrape' = scrape
    PROVE  ScrapeFollows'
<1>1. /\ scrape.total \in [Counters -> Nat] /\ scrape.before \in [Shards -> [Counters -> Nat]]
      /\ metrics \in [Shards -> [Counters -> Nat]] /\ metrics' \in [Shards -> [Counters -> Nat]]
      /\ shardCount' = shardCount /\ shardCount \in Nat
      /\ scrape.denied \in Nat /\ denied \in Nat /\ denied' \in Nat /\ denied <= denied'
  <2>1. metrics' \in [Shards -> [Counters -> Nat]] /\ denied' \in Nat
    BY DEF ShapeOK
  <2>2. QED
    BY <2>1, ScrapeType DEF Grows
<1>2. ReadSoFar' = ReadSoFar /\ ReadSoFar \in 0..Max(ShardCounts)
  BY <1>1, ScrapeType DEF ReadSoFar
<1>3. \A s \in Shards, c \in Counters : metrics[s][c] <= metrics'[s][c]
  BY DEF Grows
<1>4. \A s \in Shards, c \in Counters : scrape.before[s][c] <= metrics'[s][c]
  <2>1. \A s \in Shards, c \in Counters :
          /\ scrape.before[s][c] <= metrics[s][c]
          /\ scrape.before[s][c] \in Nat /\ metrics[s][c] \in Nat /\ metrics'[s][c] \in Nat
    BY <1>1 DEF ScrapeFollows
  <2>2. QED
    BY <1>3, <2>1
<1>5. ASSUME NEW c \in Counters
      PROVE  scrape.total[c] <= Sums(metrics', c)[ReadSoFar]
  <2>1. PICK n \in 0..Max(ShardCounts) : n = ReadSoFar
    BY <1>2
  <2>2. PICK p : p = metrics'
    OBVIOUS
  <2>3. p \in [Shards -> [Counters -> Nat]] /\ \A s \in Shards : metrics[s][c] <= p[s][c]
    BY <1>1, <1>3, <2>2
  <2>4. Sums(metrics, c)[n] <= Sums(p, c)[n]
    BY <1>1, <2>3, SumsMonotone
  <2>5. Sums(metrics, c)[n] \in Nat /\ Sums(p, c)[n] \in Nat /\ scrape.total[c] \in Nat
    BY <1>1, <2>3, SumsProperty DEF AddsUp
  <2>6. scrape.total[c] <= Sums(metrics, c)[n]
    BY <2>1 DEF ScrapeFollows
  <2>7. QED
    BY <2>1, <2>2, <2>4, <2>5, <2>6
<1>6. scrape.read = shardCount + 1 => scrape.denied <= denied'
  BY <1>1 DEF ScrapeFollows
<1>7. QED
  BY <1>1, <1>2, <1>4, <1>5, <1>6 DEF ScrapeFollows

\* Reading one more shard keeps the total in between.
LEMMA ReadingKeepsScrape ==
    ASSUME ShapeOK, ScrapeFollows, CountersBalance, ScrapeShard
    PROVE  ScrapeFollows'
<1>1. PICK s : s = scrape.read
  OBVIOUS
<1>2. /\ s < shardCount
      /\ scrape' = [scrape EXCEPT !.read = s + 1, !.total = Merge(scrape.total, metrics[s]),
                                  !.before = IF s = 0 THEN metrics ELSE scrape.before]
      /\ UNCHANGED <<metrics, shardCount, denied>>
  BY <1>1 DEF ScrapeShard
<1>3. PICK total : total = Merge(scrape.total, metrics[s])
  OBVIOUS
<1>4. PICK before : before = IF s = 0 THEN metrics ELSE scrape.before
  OBVIOUS
<1>5. scrape'.read = s + 1 /\ scrape'.total = total /\ scrape'.before = before
  <2>1. scrape \in [read: 0..(Max(ShardCounts) + 1), total: [Counters -> Nat], denied: Nat,
                    before: [Shards -> [Counters -> Nat]]]
    BY DEF ShapeOK
  <2>2. QED
    BY <1>2, <1>3, <1>4, <2>1
<1>6. s \in Nat /\ s \in Shards /\ shardCount \in Nat /\ s + 1 <= shardCount
      /\ s \in 0..Max(ShardCounts) /\ s + 1 \in 0..Max(ShardCounts)
  BY <1>1, <1>2, ScrapeType DEF Shards
<1>7. /\ scrape.total \in [Counters -> Nat] /\ metrics[s] \in [Counters -> Nat]
      /\ metrics \in [Shards -> [Counters -> Nat]] /\ before \in [Shards -> [Counters -> Nat]]
  BY <1>4, <1>6, ScrapeType
<1>8. ReadSoFar = s /\ ReadSoFar' = s + 1
  BY <1>1, <1>2, <1>5, <1>6 DEF ReadSoFar
<1>9. \A c \in Counters : total[c] = scrape.total[c] + metrics[s][c]
  BY <1>3 DEF Merge
<1>10. ASSUME NEW x \in Shards, NEW c \in Counters
       PROVE  before[x][c] <= metrics[x][c]
  <2>1. metrics[x][c] \in Nat
    BY <1>7
  <2>2. QED
    BY <1>4, <2>1 DEF ScrapeFollows
<1>11. ASSUME NEW c \in Counters
       PROVE  /\ Sums(before, c)[s + 1] <= total[c]
              /\ total[c] <= Sums(metrics, c)[s + 1]
  <2>1. PICK S : S = Sums(before, c)
    OBVIOUS
  <2>2. PICK T : T = Sums(metrics, c)
    OBVIOUS
  <2>3. AddsUp(S, before, c) /\ AddsUp(T, metrics, c)
    BY <1>7, <2>1, <2>2, SumsProperty
  <2>4. /\ S[s + 1] = S[s] + before[s][c] /\ T[s + 1] = T[s] + metrics[s][c]
        /\ S[s] \in Nat /\ T[s] \in Nat
    BY <1>6, <2>3 DEF AddsUp
  <2>5. /\ scrape.total[c] \in Nat /\ metrics[s][c] \in Nat /\ before[s][c] \in Nat
        /\ before[s][c] <= metrics[s][c]
    BY <1>6, <1>7, <1>10
  <2>6. S[s] <= scrape.total[c]
    <3>1. CASE s = 0
      BY <2>3, <2>5, <3>1 DEF AddsUp
    <3>2. CASE s # 0
      BY <1>4, <1>8, <2>1, <3>2 DEF ScrapeFollows
    <3>3. QED
      BY <3>1, <3>2
  <2>7. scrape.total[c] <= T[s]
    BY <1>8, <2>2 DEF ScrapeFollows
  <2>8. QED
    BY <1>9, <2>1, <2>2, <2>4, <2>5, <2>6, <2>7
<1>12. OutcomeSum(total) <= total["requests_total"]
  <2>1. /\ OutcomeSum(total) = OutcomeSum(scrape.total) + OutcomeSum(metrics[s])
        /\ OutcomeSum(scrape.total) \in Nat /\ OutcomeSum(metrics[s]) \in Nat
    BY <1>3, <1>7, OutcomesAdd
  <2>2. OutcomeSum(metrics[s]) <= metrics[s]["requests_total"]
    <3>1. metrics[s]["requests_total"] = OutcomeSum(metrics[s]) + Cardinality(Open(s))
      BY <1>6 DEF CountersBalance, Open
    <3>2. Open(s) \in SUBSET Requests
      BY DEF Open
    <3>3. Cardinality(Open(s)) \in Nat
      BY <3>2, GatewayAssumption, FS_Subset, FS_CardinalityType
    <3>4. QED
      BY <2>1, <3>1, <3>3
  <2>3. /\ total["requests_total"]
            = scrape.total["requests_total"] + metrics[s]["requests_total"]
        /\ scrape.total["requests_total"] \in Nat /\ metrics[s]["requests_total"] \in Nat
    BY <1>7, <1>9 DEF Counters
  <2>4. OutcomeSum(scrape.total) <= scrape.total["requests_total"]
    BY DEF ScrapeFollows
  <2>5. QED
    BY <2>1, <2>2, <2>3, <2>4
<1>13. /\ scrape'.read # 0 /\ scrape'.read <= shardCount + 1
       /\ scrape'.read # shardCount + 1
  BY <1>5, <1>6
<1>14. QED
  BY <1>2, <1>5, <1>8, <1>10, <1>11, <1>12, <1>13 DEF ScrapeFollows

\* Every step keeps a scrape in between.
LEMMA ScrapeFollowsNext ==
    ASSUME ShapeOK, ShapeOK', ShardsInUse, ScrapeFollows, CountersBalance, [Next]_vars
    PROVE  ScrapeFollows'
<1>1. CASE Crash
  <2>1. scrape' = NoScrape /\ metrics' = NoCounts /\ shardCount' \in Nat \ {0}
    <3>1. shardCount' \in ShardCounts
      BY DEF ShapeOK
    <3>2. QED
      BY <1>1, <3>1, ShardFacts DEF Crash
  <2>2. /\ scrape'.read = 0 /\ scrape'.before = NoCounts
        /\ scrape'.total = [c \in Counters |-> 0]
    BY <2>1 DEF NoScrape
  <2>3. ReadSoFar' = 0
    BY <2>1, <2>2 DEF ReadSoFar
  <2>4. NoCounts \in [Shards -> [Counters -> Nat]]
    BY DEF NoCounts
  <2>5. \A c \in Counters : Sums(NoCounts, c)[0] = 0
    BY <2>4, SumsProperty DEF AddsUp
  <2>6. OutcomeSum(scrape'.total) = 0 /\ scrape'.total["requests_total"] = 0
    BY <2>2 DEF OutcomeSum, Counters
  <2>7. \A s \in Shards, c \in Counters : NoCounts[s][c] <= NoCounts[s][c]
    BY DEF NoCounts
  <2>8. \A c \in Counters : scrape'.total[c] = 0
    BY <2>2
  <2>9. scrape'.read <= shardCount' + 1 /\ scrape'.read # shardCount' + 1
    <3>1. PICK n \in Nat : n = shardCount'
      BY <2>1
    <3>2. 0 <= n + 1 /\ 0 # n + 1
      OBVIOUS
    <3>3. QED
      BY <2>2, <3>1, <3>2
  <2>10. \A c \in Counters : /\ Sums(scrape'.before, c)[ReadSoFar'] <= scrape'.total[c]
                              /\ scrape'.total[c] <= Sums(metrics', c)[ReadSoFar']
    BY <2>1, <2>2, <2>3, <2>5, <2>8
  <2>11. QED
    <3>1. OutcomeSum(scrape'.total) <= scrape'.total["requests_total"]
      BY <2>6
    <3>2. \A s \in Shards, c \in Counters : scrape'.before[s][c] <= metrics'[s][c]
      BY <2>1, <2>2, <2>7
    <3>3. QED
      BY <2>8, <2>9, <2>10, <3>1, <3>2 DEF ScrapeFollows
<1>2. CASE Grows /\ scrape' = scrape
  BY <1>2, CountingKeepsScrape
<1>3. CASE ScrapeShard
  BY <1>3, ReadingKeepsScrape
<1>4. CASE ScrapeDenied
  <2>1. /\ scrape.read = shardCount
        /\ scrape' = [scrape EXCEPT !.read = shardCount + 1, !.denied = denied]
        /\ UNCHANGED <<metrics, shardCount, denied>>
    BY <1>4 DEF ScrapeDenied
  <2>2. /\ scrape'.read = shardCount + 1 /\ scrape'.denied = denied
        /\ scrape'.total = scrape.total /\ scrape'.before = scrape.before
    <3>1. scrape \in [read: 0..(Max(ShardCounts) + 1), total: [Counters -> Nat], denied: Nat,
                      before: [Shards -> [Counters -> Nat]]]
      BY DEF ShapeOK
    <3>2. QED
      BY <2>1, <3>1
  <2>3. shardCount \in Nat /\ denied \in Nat
    BY ScrapeType
  <2>4. ReadSoFar' = ReadSoFar
    BY <2>1, <2>2, <2>3 DEF ReadSoFar
  <2>5. scrape'.read # 0 /\ scrape'.read <= shardCount' + 1 /\ scrape'.denied <= denied'
    BY <2>1, <2>2, <2>3
  <2>6. QED
    BY <2>1, <2>2, <2>4, <2>5 DEF ScrapeFollows
<1>5. QED
  BY <1>1, <1>2, <1>3, <1>4, GrowsNext

\* Before anything is counted or read.
LEMMA ScrapeInit == Init => ShardsInUse /\ ScrapeFollows
<1> SUFFICES ASSUME Init PROVE ShardsInUse /\ ScrapeFollows
  OBVIOUS
<1>1. /\ scrape = NoScrape /\ metrics = NoCounts /\ nextShard = 0
      /\ shardCount \in Nat \ {0} /\ \A r \in Requests : pc[r] # "forwarding"
  <2>1. shardCount \in ShardCounts
    BY DEF Init
  <2>2. QED
    BY <2>1, ShardFacts DEF Init
<1>2. scrape.read = 0 /\ scrape.before = NoCounts /\ scrape.total = [c \in Counters |-> 0]
  BY <1>1 DEF NoScrape
<1>3. ReadSoFar = 0
  BY <1>1, <1>2 DEF ReadSoFar
<1>4. NoCounts \in [Shards -> [Counters -> Nat]]
  BY DEF NoCounts
<1>5. \A c \in Counters : Sums(NoCounts, c)[0] = 0
  BY <1>4, SumsProperty DEF AddsUp
<1>6. OutcomeSum(scrape.total) = 0 /\ scrape.total["requests_total"] = 0
  BY <1>2 DEF OutcomeSum, Counters
<1>7. \A s \in Shards, c \in Counters : NoCounts[s][c] <= NoCounts[s][c] /\ NoCounts[s][c] = 0
  BY DEF NoCounts
<1>8. ShardsInUse
  BY <1>1, <1>7 DEF ShardsInUse
<1>9. ScrapeFollows
  BY <1>1, <1>2, <1>3, <1>5, <1>6, <1>7 DEF ScrapeFollows
<1>10. QED
  BY <1>8, <1>9

\* For any number of shards, however many requests begin and complete on the
\* others while aggregate_metrics reads one, /metrics reports counters between
\* their values when it began and when it ended, and no outcome without its
\* request.
THEOREM ScrapesAreBracketed == Spec => []ScrapeBracketed
<1> DEFINE Inv == /\ ShapeOK /\ FencesBelow /\ Counted /\ CountersBalance
                  /\ ShardsInUse /\ ScrapeFollows
<1>1. Init => Inv
  BY ShapeInit, CountersInit, ScrapeInit
<1>2. Inv /\ [Next]_vars => Inv'
  <2> SUFFICES ASSUME Inv, [Next]_vars PROVE Inv'
    OBVIOUS
  <2>1. ShapeOK' /\ FencesBelow' /\ Counted' /\ CountersBalance'
    BY ShapeNext, CountersNext
  <2>2. QED
    BY <2>1, ShardsInUseNext, ScrapeFollowsNext
<1>3. Inv => ScrapeBracketed
  <2> SUFFICES ASSUME Inv, scrape.read = shardCount + 1
               PROVE  /\ \A c \in Counters :
                            scrape.total[c] \in Total(scrape.before, c)..Total(metrics, c)
                      /\ OutcomeSum(scrape.total) <= scrape.total["requests_total"]
                      /\ scrape.denied <= denied
    BY DEF ScrapeBracketed
  <2>1. /\ scrape.total \in [Counters -> Nat] /\ scrape.before \in [Shards -> [Counters -> Nat]]
        /\ metrics \in [Shards -> [Counters -> Nat]]
        /\ shardCount \in ShardCounts /\ shardCount \in 0..Max(ShardCounts)
    BY ScrapeType
  <2>2. ReadSoFar = shardCount
    BY ScrapeType DEF ReadSoFar
  <2>3. ASSUME NEW c \in Counters
        PROVE  scrape.total[c] \in Total(scrape.before, c)..Total(metrics, c)
    <3>1. \A s \in Shards : s >= shardCount => metrics[s][c] = 0
      BY DEF ShardsInUse
    <3>2. \A s \in Shards : s >= shardCount => scrape.before[s][c] = 0
      <4>1. \A s \in Shards : scrape.before[s][c] <= metrics[s][c] /\ scrape.before[s][c] \in Nat
        BY <2>1 DEF ScrapeFollows
      <4>2. QED
        BY <3>1, <4>1
    <3>3. PICK b \in [Shards -> [Counters -> Nat]] : b = scrape.before
      BY <2>1
    <3>4. Total(metrics, c) = Sums(metrics, c)[shardCount]
      BY <2>1, <3>1, SumsOfShardsInUse
    <3>5. Total(b, c) = Sums(b, c)[shardCount]
      BY <2>1, <3>2, <3>3, SumsOfShardsInUse
    <3>6. /\ Sums(b, c)[shardCount] \in Nat /\ Sums(metrics, c)[shardCount] \in Nat
          /\ scrape.total[c] \in Nat
      BY <2>1, SumsProperty DEF AddsUp
    <3>7. /\ Sums(b, c)[shardCount] <= scrape.total[c]
          /\ scrape.total[c] <= Sums(metrics, c)[shardCount]
      BY <2>2, <3>3 DEF ScrapeFollows
    <3>8. QED
      BY <3>3, <3>4, <3>5, <3>6, <3>7
  <2>4. QED
    BY <2>3 DEF ScrapeFollows
<1>4. QED
  BY <1>1, <1>2, <1>3, PTL DEF Spec

=============================================================================
