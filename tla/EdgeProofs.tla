----------------------------- MODULE EdgeProofs -----------------------------
(***************************************************************************)
(* What stands between clients and the engine, for every number of callers,*)
(* rules, targets and keys, every window, limit and width, and every hash: *)
(* the sliding-window limiters, the distinct-target velocity limiter, the  *)
(* count-min sketch and proof of work.                                     *)
(***************************************************************************)
EXTENDS RateLimiter, Velocity, CountMin, Pow, SequenceTheorems, ExtremaLemmas

-----------------------------------------------------------------------------
(***************************************************************************)
(* The count-min sketch.                                                   *)
(***************************************************************************)

\* What saturating at CountMax does to an addition: it is monotone, and an
\* addition to a saturated count saturates where the exact sum would.
LEMMA CappedProperty ==
    ASSUME NEW m \in Nat, NEW n \in Nat
    PROVE  /\ Capped(m) \in 0..CountMax
           /\ Capped(Capped(m) + n) = Capped(m + n)
           /\ \A c \in 0..CountMax : c >= Capped(m) => Capped(c + n) >= Capped(m + n)
BY SketchAssumption DEF Capped

\* No counter is larger than a counter can be.
LEMMA SketchTypeOKNext == SketchTypeOK /\ [SketchNext]_sketchVars => SketchTypeOK'
<1> SUFFICES ASSUME SketchTypeOK, [SketchNext]_sketchVars PROVE SketchTypeOK'
  OBVIOUS
<1>1. CASE UNCHANGED sketchVars
  BY <1>1 DEF SketchTypeOK, sketchVars
<1>2. ASSUME NEW k \in Items, NEW n \in 0..MaxTotal, Add(k, n)
      PROVE  SketchTypeOK'
  <2>1. \A r \in Rows, c \in Columns : Bumped(r, c, k, n) \in 0..CountMax
    BY SketchAssumption DEF SketchTypeOK, Bumped, Capped
  <2>2. cells' \in [Rows -> [Columns -> 0..CountMax]]
    BY <1>2, <2>1 DEF Add
  <2>3. total' \in [Items -> 0..MaxTotal]
    BY <1>2, SketchAssumption DEF SketchTypeOK, Add
  <2>4. QED
    BY <1>2, <2>2, <2>3 DEF SketchTypeOK, Add
<1>3. QED
  BY <1>1, <1>2 DEF SketchNext

\* The counter of a key covers what was recorded for it, and is exact where no
\* other recorded key shares it: add() preserves this in every row.
LEMMA CellsCoverTotalsNext ==
    SketchTypeOK /\ CellsCoverTotals /\ [SketchNext]_sketchVars => CellsCoverTotals'
<1> SUFFICES ASSUME SketchTypeOK, CellsCoverTotals, [SketchNext]_sketchVars
             PROVE  CellsCoverTotals'
  OBVIOUS
<1>1. CASE UNCHANGED sketchVars
  BY <1>1 DEF CellsCoverTotals, Alone, sketchVars
<1>2. ASSUME NEW k \in Items, NEW n \in 0..MaxTotal, Add(k, n),
             NEW r \in Rows, NEW j \in Items
      PROVE  /\ cells'[r][column'[r][j]] >= Capped(total'[j])
             /\ Alone(r, j)' => cells'[r][column'[r][j]] = Capped(total'[j])
  <2> DEFINE c == column[r][j]
  <2>1. /\ column' = column
        /\ c \in Columns
        /\ cells[r][c] \in 0..CountMax
        /\ cells'[r][c] = Bumped(r, c, k, n)
        /\ total[j] \in Nat /\ n \in Nat
    BY <1>2, SketchAssumption DEF SketchTypeOK, Add
  <2>2. cells[r][c] >= Capped(total[j])
    BY DEF CellsCoverTotals
  <2>3. Alone(r, j) => cells[r][c] = Capped(total[j])
    BY DEF CellsCoverTotals
  <2>4. CASE j = k
    <3>1. total'[j] = total[j] + n
      BY <1>2, <2>4 DEF Add, SketchTypeOK
    <3>2. cells'[r][c] = Capped(cells[r][c] + n)
      BY <2>1, <2>4 DEF Bumped
    <3>3. \A i \in Items \ {j} : total'[i] = total[i]
      BY <1>2, <2>4 DEF Add, SketchTypeOK
    <3>4. Alone(r, j)' => Alone(r, j)
      BY <2>1, <3>3 DEF Alone
    <3>5. QED
      BY <2>1, <2>2, <2>3, <3>1, <3>2, <3>4, CappedProperty
  <2>5. CASE j # k
    <3>1. total'[j] = total[j]
      BY <1>2, <2>5 DEF Add, SketchTypeOK
    <3>2. cells'[r][c] >= cells[r][c]
      BY <2>1, SketchAssumption DEF Bumped, Capped
    <3>3. cells'[r][c] >= Capped(total'[j])
      <4>1. cells'[r][c] \in Nat /\ Capped(total[j]) \in Nat
        BY <2>1, SketchAssumption DEF Bumped, Capped
      <4>2. QED
        BY <2>1, <2>2, <3>1, <3>2, <4>1
    <3>4. ASSUME Alone(r, j)' PROVE Alone(r, j) /\ cells'[r][c] = cells[r][c]
      <4>1. \A i \in Items : total'[i] = 0 => total[i] = 0
        BY <1>2, <2>1 DEF Add, SketchTypeOK
      <4>2. Alone(r, j)
        BY <2>1, <3>4, <4>1 DEF Alone
      <4>3. CASE column[r][k] = c
        <5>1. total'[k] = 0 /\ total'[k] = total[k] + n
          BY <1>2, <2>1, <2>5, <3>4, <4>3 DEF Alone, Add, SketchTypeOK
        <5>2. n = 0
          BY <2>1, <5>1 DEF SketchTypeOK
        <5>3. QED
          BY <2>1, <4>2, <5>2, SketchAssumption DEF Bumped, Capped
      <4>4. CASE column[r][k] # c
        BY <2>1, <4>2, <4>4 DEF Bumped
      <4>5. QED
        BY <4>3, <4>4
    <3>5. QED
      BY <2>1, <2>3, <3>1, <3>3, <3>4
  <2>6. QED
    BY <2>4, <2>5
<1>3. ASSUME NEW k \in Items, NEW n \in 0..MaxTotal, Add(k, n)
      PROVE  CellsCoverTotals'
  BY <1>2, <1>3 DEF CellsCoverTotals
<1>4. QED
  BY <1>1, <1>3 DEF SketchNext

\* An empty sketch has recorded nothing.
LEMMA SketchInitial == SketchInit => SketchTypeOK /\ CellsCoverTotals
<1> SUFFICES ASSUME SketchInit PROVE SketchTypeOK /\ CellsCoverTotals
  OBVIOUS
<1>1. SketchTypeOK
  BY SketchAssumption DEF SketchInit, SketchTypeOK
<1>2. \A r \in Rows, k \in Items : cells[r][column[r][k]] = 0 /\ Capped(total[k]) = 0
  BY SketchAssumption DEF SketchInit, Capped
<1>3. QED
  BY <1>1, <1>2 DEF CellsCoverTotals

\* In every state a sketch reaches, its counters are in range, cover the counts
\* of the keys that hash to them, and are exact where there is one such key.
THEOREM SketchInvariant == SketchSpec => [](SketchTypeOK /\ CellsCoverTotals)
<1>1. SketchTypeOK /\ CellsCoverTotals /\ [SketchNext]_sketchVars
        => (SketchTypeOK /\ CellsCoverTotals)'
  BY SketchTypeOKNext, CellsCoverTotalsNext
<1>2. QED
  BY <1>1, SketchInitial, PTL DEF SketchSpec

\* The counters estimate() minimises over.
LEMMA EstimateProperty ==
    ASSUME SketchTypeOK, NEW k \in Items
    PROVE  /\ \E r \in Rows : Estimate(k) = cells[r][column[r][k]]
           /\ \A r \in Rows : Estimate(k) <= cells[r][column[r][k]]
<1> DEFINE S == {cells[r][column[r][k]] : r \in Rows}
<1>1. S \in SUBSET Nat /\ S # {}
  BY SketchAssumption DEF SketchTypeOK
<1>2. Min(S) \in S /\ \A x \in S : Min(S) <= x
  <2> HIDE DEF S
  <2>1. QED
    BY <1>1, MinProperty
<1>3. QED
  BY <1>2 DEF Estimate

\* estimate() never reports less than was recorded, saturated at the width of
\* a counter: collisions only add.
THEOREM OneSidedError == SketchSpec => []NeverUnderestimates
<1>1. SketchTypeOK /\ CellsCoverTotals => NeverUnderestimates
  <2> SUFFICES ASSUME SketchTypeOK, CellsCoverTotals, NEW k \in Items
               PROVE  Estimate(k) >= Capped(total[k])
    BY DEF NeverUnderestimates
  <2>1. PICK r \in Rows : Estimate(k) = cells[r][column[r][k]]
    BY EstimateProperty
  <2>2. QED
    BY <2>1 DEF CellsCoverTotals
<1>2. QED
  BY <1>1, SketchInvariant, PTL

\* estimate() is exact for a key that has a counter to itself in one row.
THEOREM ExactEstimate == SketchSpec => []ExactWhereAlone
<1>1. SketchTypeOK /\ CellsCoverTotals => ExactWhereAlone
  <2> SUFFICES ASSUME SketchTypeOK, CellsCoverTotals, NEW k \in Items,
                      NEW r \in Rows, Alone(r, k)
               PROVE  Estimate(k) = Capped(total[k])
    BY DEF ExactWhereAlone
  <2>1. PICK q \in Rows : Estimate(k) = cells[q][column[q][k]]
    BY EstimateProperty
  <2>2. Estimate(k) >= Capped(total[k])
    BY <2>1 DEF CellsCoverTotals
  <2>3. Estimate(k) <= Capped(total[k])
    <3>1. cells[r][column[r][k]] = Capped(total[k])
      BY DEF CellsCoverTotals
    <3>2. QED
      BY <3>1, EstimateProperty
  <2>4. Estimate(k) \in Nat /\ Capped(total[k]) \in Nat
    BY <2>1, SketchAssumption DEF SketchTypeOK, Capped
  <2>5. QED
    BY <2>2, <2>3, <2>4
<1>2. QED
  BY <1>1, SketchInvariant, PTL

-----------------------------------------------------------------------------
(***************************************************************************)
(* The sliding-window limiters.                                            *)
(***************************************************************************)

\* The inductive strengthening.  Where a rule's followed requests of id came in
\* order, its counter holds exactly those of its window and the one before.
InWindow(i, id, w) == {h \in Followed(i, id) : WindowOf(i, h) = w}

InWindowBefore(i, id, w) == {h \in Followed(i, id) : WindowOf(i, h) + 1 = w}

CounterHolds(i, id, w) ==
    LET c == counters[i][id]
    IN  /\ c.windowIndex = w
        /\ \E h \in Followed(i, id) : WindowOf(i, h) = w
        /\ \A h \in Followed(i, id) : WindowOf(i, h) <= w
        /\ c.current = Cardinality(InWindow(i, id, w))
        /\ c.previous = Cardinality(InWindowBefore(i, id, w))

CountersFollow ==
    \A i \in DOMAIN Rules : \A id \in DOMAIN counters[i] :
        InOrder(i, id) => CounterHolds(i, id, counters[i][id].windowIndex)

\* The requests of id in the window of h, up to h.
Rank(i, id, h) == {g \in InWindow(i, id, WindowOf(i, h)) : g <= h}

\* Whether h was within the budget of rule i, counted from the history.
WithinHistory(i, id, h) ==
    Cardinality(Rank(i, id, h)) * Rules[i].window
    + Cardinality(InWindowBefore(i, id, WindowOf(i, h)))
        * (Rules[i].window - (hits[h].at % Rules[i].window))
    <= Rules[i].limit * Rules[i].window

AllowedWithin ==
    \A i \in DOMAIN Rules, id \in Identities :
        InOrder(i, id) =>
            \A h \in Followed(i, id) :
                i \in hits[h].allowedBy => WithinHistory(i, id, h)

\* Readings that never stepped back never went back.
ReadingsSorted ==
    SortedUpTo(Len(hits)) =>
        \A g, h \in DOMAIN hits : g < h => hits[g].at <= hits[h].at

\* The record hits holds of one request.
Hit == [id: Identities, at: 0..MaxNow,
        allowedBy: SUBSET DOMAIN Rules, verdict: 0..Len(Rules)]

\* What the assumption says of each rule.
LEMMA RuleType ==
    /\ DOMAIN Rules = 1..Len(Rules)
    /\ Len(Rules) \in Nat
    /\ \A i \in DOMAIN Rules : /\ Rules[i].window \in Nat
                               /\ Rules[i].window # 0
                               /\ Rules[i].limit \in Nat
<1> DEFINE Rule == [window: Nat \ {0}, limit: Nat]
<1>1. Rules \in Seq(Rule)
  BY LimiterAssumption
<1>2. /\ DOMAIN Rules = 1..Len(Rules)
      /\ Len(Rules) \in Nat
      /\ \A i \in DOMAIN Rules : Rules[i] \in Rule
  <2> HIDE DEF Rule
  <2>1. QED
    BY <1>1
<1>3. \A r \in Rule : r.window \in Nat /\ r.window # 0 /\ r.limit \in Nat
  OBVIOUS
<1>4. QED
  BY <1>2, <1>3

\* Rolling a counter forward and counting a hit leaves a counter.
LEMMA RecordedType ==
    ASSUME NEW i \in DOMAIN Rules, NEW table, NEW id, NEW now \in 0..MaxNow,
           id \in DOMAIN table => table[id] \in Counter
    PROVE  Recorded(Rules[i], table, id, now) \in Counter
<1> DEFINE w == now \div Rules[i].window
           found == IF id \in DOMAIN table THEN table[id]
                    ELSE [windowIndex |-> w, current |-> 0, previous |-> 0]
<1>1. now \in Nat /\ w \in Nat
  <2>1. now \in Nat /\ Rules[i].window \in Nat /\ Rules[i].window # 0
    BY RuleType
  <2>2. QED
    BY <2>1
<1>2. found \in Counter
  BY <1>1 DEF Counter
<1> HIDE DEF found, w
<1>3. Roll(found, w) \in Counter
  BY <1>1, <1>2 DEF Roll, Counter
<1>4. [Roll(found, w) EXCEPT !.current = @ + 1] \in Counter
  BY <1>3 DEF Counter
<1>5. Recorded(Rules[i], table, id, now) = [Roll(found, w) EXCEPT !.current = @ + 1]
  BY DEF Recorded, found, w
<1>6. QED
  BY <1>4, <1>5

\* The verdict on a request is 0 or a rule that did not allow it.
LEMMA VerdictType ==
    ASSUME NEW allowing \in SUBSET DOMAIN Rules
    PROVE  /\ Verdict(allowing) \in 0..Len(Rules)
           /\ Verdict(allowing) # 0 => Verdict(allowing) \in DOMAIN Rules \ allowing
<1> DEFINE denied == DOMAIN Rules \ allowing
<1>1. denied \in SUBSET Nat /\ denied \subseteq 1..Len(Rules)
  BY RuleType
<1>2. CASE denied = {}
  BY <1>2, RuleType DEF Verdict
<1>3. CASE denied # {}
  <2>1. Min(denied) \in denied
    <3> HIDE DEF denied
    <3>1. QED
      BY <1>1, <1>3, MinProperty
  <2>2. Verdict(allowing) = Min(denied)
    BY <1>3 DEF Verdict
  <2>3. QED
    BY <1>1, <2>1, <2>2
<1>4. QED
  BY <1>2, <1>3

\* What evaluate() does to the table of one rule: the counter of the request's
\* identity is the recorded one, no other counter changes, and at most the one
\* of an evicted identity goes.
LEMMA TableStep ==
    ASSUME NEW id \in Identities, NEW now \in 0..MaxNow, Evaluate(id, now),
           NEW i \in DOMAIN Rules
    PROVE  \E room \in RoomFor(counters[i], id) :
            /\ DOMAIN counters'[i] = DOMAIN room \union {id}
            /\ counters'[i][id] = Recorded(Rules[i], room, id, now)
            /\ \A j \in DOMAIN room \ {id} : counters'[i][j] = room[j]
<1>1. PICK room \in [DOMAIN Rules -> UNION {RoomFor(counters[k], id) : k \in DOMAIN Rules}] :
        /\ \A k \in DOMAIN Rules : room[k] \in RoomFor(counters[k], id)
        /\ counters' = [k \in DOMAIN Rules |->
                [j \in DOMAIN room[k] \union {id} |->
                    IF j = id THEN Recorded(Rules[k], room[k], id, now)
                    ELSE room[k][j]]]
  BY DEF Evaluate
<1>2. counters'[i] = [j \in DOMAIN room[i] \union {id} |->
                    IF j = id THEN Recorded(Rules[i], room[i], id, now)
                    ELSE room[i][j]]
  BY <1>1
<1>3. room[i] \in RoomFor(counters[i], id)
  BY <1>1
<1>4. WITNESS room[i] \in RoomFor(counters[i], id)
<1>5. QED
  BY <1>2

\* Making room keeps counters as they are, keeps that of the identity it makes
\* room for, and leaves space for one more.
LEMMA RoomForProperty ==
    ASSUME NEW table, NEW id, NEW room \in RoomFor(table, id)
    PROVE  /\ DOMAIN room \subseteq DOMAIN table
           /\ \A j \in DOMAIN room : room[j] = table[j]
           /\ id \in DOMAIN table => room = table
           /\ IsFiniteSet(DOMAIN table) /\ Cardinality(DOMAIN table) <= MaxKeys
                => Cardinality(DOMAIN room \union {id}) <= MaxKeys
<1> DEFINE D == DOMAIN table
<1>1. CASE id \notin D /\ Cardinality(D) >= MaxKeys
  <2>1. PICK victim \in D : room = Restrict(table, D \ {victim})
    BY <1>1 DEF RoomFor
  <2>2. DOMAIN room = D \ {victim} /\ \A j \in DOMAIN room : room[j] = table[j]
    BY <2>1 DEF Restrict
  <2>3. ASSUME IsFiniteSet(D), Cardinality(D) <= MaxKeys
        PROVE  Cardinality(DOMAIN room \union {id}) <= MaxKeys
    <3> DEFINE R == D \ {victim}
    <3>1. Cardinality(D) \in Nat /\ MaxKeys \in Nat
      BY <2>3, FS_CardinalityType, LimiterAssumption
    <3>2. IsFiniteSet(R) /\ Cardinality(R) = Cardinality(D) - 1
      BY <2>1, <2>3, FS_RemoveElement
    <3>3. Cardinality(R \union {id}) = Cardinality(R) + 1
      <4>1. id \notin R
        BY <1>1
      <4> HIDE DEF R
      <4>2. QED
        BY <3>2, <4>1, FS_AddElement
    <3>4. QED
      BY <2>2, <2>3, <3>1, <3>2, <3>3
  <2>4. QED
    BY <1>1, <2>2, <2>3
<1>2. CASE ~ (id \notin D /\ Cardinality(D) >= MaxKeys)
  <2>1. room = table
    BY <1>2 DEF RoomFor
  <2>2. ASSUME IsFiniteSet(D), Cardinality(D) <= MaxKeys
        PROVE  Cardinality(D \union {id}) <= MaxKeys
    <3>1. Cardinality(D) \in Nat /\ MaxKeys \in Nat
      BY <2>2, FS_CardinalityType, LimiterAssumption
    <3>2. Cardinality(D \union {id}) = IF id \in D THEN Cardinality(D) ELSE Cardinality(D) + 1
      BY <2>2, FS_AddElement
    <3>3. QED
      BY <1>2, <2>2, <3>1, <3>2
  <2>3. QED
    BY <2>1, <2>2
<1>3. QED
  BY <1>1, <1>2

\* The tables stay tables of counters, and no larger than they may be.
LEMMA CountersStep ==
    ASSUME TypeOK, NEW id \in Identities, NEW now \in 0..MaxNow, Evaluate(id, now),
           NEW i \in DOMAIN Rules
    PROVE  /\ DOMAIN counters'[i] \subseteq DOMAIN counters[i] \union {id}
           /\ id \in DOMAIN counters'[i]
           /\ \A j \in DOMAIN counters'[i] \ {id} :
                j \in DOMAIN counters[i] /\ counters'[i][j] = counters[i][j]
           /\ counters'[i][id] = Recorded(Rules[i], counters[i], id, now)
           /\ Cardinality(DOMAIN counters[i]) <= MaxKeys
                => Cardinality(DOMAIN counters'[i]) <= MaxKeys
<1>1. PICK room \in RoomFor(counters[i], id) :
            /\ DOMAIN counters'[i] = DOMAIN room \union {id}
            /\ counters'[i][id] = Recorded(Rules[i], room, id, now)
            /\ \A j \in DOMAIN room \ {id} : counters'[i][j] = room[j]
  BY TableStep
<1>2. IsFiniteSet(DOMAIN counters[i])
  BY LimiterAssumption, FS_Subset DEF TypeOK
<1>3. /\ DOMAIN room \subseteq DOMAIN counters[i]
      /\ \A j \in DOMAIN room : room[j] = counters[i][j]
      /\ id \in DOMAIN counters[i] => room = counters[i]
      /\ Cardinality(DOMAIN counters[i]) <= MaxKeys
            => Cardinality(DOMAIN room \union {id}) <= MaxKeys
  BY <1>2, RoomForProperty
<1>4. Recorded(Rules[i], room, id, now) = Recorded(Rules[i], counters[i], id, now)
  BY <1>3 DEF Recorded
<1>5. QED
  BY <1>1, <1>3, <1>4

\* The requests a step adds to the history.
LEMMA HitsStep ==
    ASSUME TypeOK, NEW id \in Identities, NEW now \in 0..MaxNow, Evaluate(id, now)
    PROVE  \E allowing \in SUBSET DOMAIN Rules :
            /\ allowing = {i \in DOMAIN Rules :
                            WithinBudget(Rules[i], counters'[i][id], now)}
            /\ hits' = Append(hits, [id |-> id, at |-> now, allowedBy |-> allowing,
                                     verdict |-> Verdict(allowing)])
            /\ hits' \in Seq(Hit)
            /\ Len(hits') = Len(hits) + 1
            /\ Len(hits) \in Nat /\ Len(hits) < MaxHits
            /\ \A h \in DOMAIN hits : hits'[h] = hits[h]
            /\ hits'[Len(hits) + 1] = [id |-> id, at |-> now, allowedBy |-> allowing,
                                       verdict |-> Verdict(allowing)]
<1> DEFINE allowing == {i \in DOMAIN Rules :
                            WithinBudget(Rules[i], counters'[i][id], now)}
           hit == [id |-> id, at |-> now, allowedBy |-> allowing,
                   verdict |-> Verdict(allowing)]
<1>1. hits' = Append(hits, hit) /\ Len(hits) < MaxHits
  BY DEF Evaluate
<1>2. allowing \in SUBSET DOMAIN Rules
  OBVIOUS
<1>3. hit \in Hit
  <2>1. Verdict(allowing) \in 0..Len(Rules)
    BY <1>2, VerdictType
  <2> HIDE DEF allowing
  <2>2. QED
    BY <1>2, <2>1 DEF Hit
<1>4. hits \in Seq(Hit)
  BY DEF TypeOK, Hit
<1>5. /\ hits' \in Seq(Hit)
      /\ Len(hits') = Len(hits) + 1
      /\ Len(hits) \in Nat
      /\ \A h \in DOMAIN hits : hits'[h] = hits[h]
      /\ hits'[Len(hits) + 1] = hit
  <2> HIDE DEF hit
  <2>1. QED
    BY <1>1, <1>3, <1>4
<1>6. QED
  BY <1>1, <1>2, <1>5

\* What began when a rule began to track an identity.
LEMMA TrackedFromStep ==
    ASSUME TypeOK, NEW id \in Identities, NEW now \in 0..MaxNow, Evaluate(id, now),
           NEW i \in DOMAIN Rules, NEW j \in Identities
    PROVE  trackedFrom'[i][j] = IF j = id /\ id \notin DOMAIN counters[i]
                                THEN Len(hits) ELSE trackedFrom[i][j]
BY DEF Evaluate, TypeOK

\* Every request leaves the limiters and their history in their types.
LEMMA TypeOKNext == TypeOK /\ [Next]_vars => TypeOK'
<1> SUFFICES ASSUME TypeOK, [Next]_vars PROVE TypeOK'
  OBVIOUS
<1>1. CASE UNCHANGED vars
  BY <1>1 DEF TypeOK, vars
<1>2. ASSUME NEW id \in Identities, NEW now \in 0..MaxNow, Evaluate(id, now)
      PROVE  TypeOK'
  <2>1. DOMAIN counters' = DOMAIN Rules
    BY <1>2 DEF Evaluate
  <2>2. ASSUME NEW i \in DOMAIN Rules
        PROVE  /\ DOMAIN counters'[i] \subseteq Identities
               /\ \A j \in DOMAIN counters'[i] : counters'[i][j] \in Counter
    <3>1. Recorded(Rules[i], counters[i], id, now) \in Counter
      BY RecordedType DEF TypeOK
    <3>2. /\ DOMAIN counters'[i] \subseteq DOMAIN counters[i] \union {id}
          /\ \A j \in DOMAIN counters'[i] \ {id} :
                j \in DOMAIN counters[i] /\ counters'[i][j] = counters[i][j]
          /\ counters'[i][id] = Recorded(Rules[i], counters[i], id, now)
      BY <1>2, CountersStep
    <3>3. /\ DOMAIN counters[i] \subseteq Identities
          /\ \A j \in DOMAIN counters[i] : counters[i][j] \in Counter
      BY DEF TypeOK
    <3>4. QED
      BY <3>1, <3>2, <3>3
  <2>3. hits' \in Seq(Hit) /\ Len(hits) \in Nat /\ Len(hits') = Len(hits) + 1
    BY <1>2, HitsStep
  <2>4. trackedFrom' \in [DOMAIN Rules -> [Identities -> 0..Len(hits')]]
    <3>1. \A i \in DOMAIN Rules : trackedFrom'[i] \in [Identities -> 0..Len(hits')]
      BY <1>2, <2>3, SMTT(30) DEF Evaluate, TypeOK
    <3>2. trackedFrom' = [i \in DOMAIN Rules |-> trackedFrom'[i]]
      BY <1>2 DEF Evaluate
    <3>3. QED
      BY <3>1, <3>2
  <2>5. QED
    BY <2>1, <2>2, <2>3, <2>4 DEF TypeOK, Hit
<1>3. QED
  BY <1>1, <1>2 DEF Next

\* A limiter starts without counters.
LEMMA LimiterInitial ==
    Init => /\ TypeOK /\ TrackedKeysBounded
            /\ CountersFollow /\ AllowedWithin
            /\ ReadingsSorted /\ DeniesOnlyOverLimit
<1> SUFFICES ASSUME Init
             PROVE  /\ TypeOK /\ TrackedKeysBounded
                    /\ CountersFollow /\ AllowedWithin
                    /\ ReadingsSorted /\ DeniesOnlyOverLimit
  OBVIOUS
<1>1. \A i \in DOMAIN Rules : counters[i] = <<>> /\ DOMAIN counters[i] = {}
  BY DEF Init
<1>2. hits = <<>> /\ DOMAIN hits = {}
  BY DEF Init
<1>3. TypeOK
  <2>1. DOMAIN counters = DOMAIN Rules
    BY DEF Init
  <2>2. trackedFrom \in [DOMAIN Rules -> [Identities -> 0..Len(hits)]]
    BY <1>2 DEF Init
  <2>3. QED
    BY <1>1, <1>2, <2>1, <2>2 DEF TypeOK
<1>4. TrackedKeysBounded
  <2>1. MaxKeys \in Nat /\ Cardinality({}) = 0
    BY LimiterAssumption, FS_EmptySet
  <2>2. QED
    BY <1>1, <2>1 DEF TrackedKeysBounded
<1>5. CountersFollow
  BY <1>1 DEF CountersFollow
<1>6. AllowedWithin
  BY <1>2 DEF AllowedWithin, Followed
<1>7. ReadingsSorted /\ DeniesOnlyOverLimit
  BY <1>2 DEF ReadingsSorted, DeniesOnlyOverLimit
<1>8. QED
  BY <1>3, <1>4, <1>5, <1>6, <1>7

\* No request makes a limiter track more identities than it may.
LEMMA TrackedKeysBoundedNext ==
    TypeOK /\ TrackedKeysBounded /\ [Next]_vars => TrackedKeysBounded'
<1> SUFFICES ASSUME TypeOK, TrackedKeysBounded, [Next]_vars PROVE TrackedKeysBounded'
  OBVIOUS
<1>1. CASE UNCHANGED vars
  BY <1>1 DEF TrackedKeysBounded, vars
<1>2. ASSUME NEW id \in Identities, NEW now \in 0..MaxNow, Evaluate(id, now),
             NEW i \in DOMAIN Rules
      PROVE  Cardinality(DOMAIN counters'[i]) <= MaxKeys
  BY <1>2, CountersStep DEF TrackedKeysBounded
<1>3. QED
  BY <1>1, <1>2 DEF Next, TrackedKeysBounded

\* What a request adds to those a rule follows: itself, to those of its
\* identity, after the earlier ones if the rule was tracking it.
LEMMA FollowedStep ==
    ASSUME TypeOK, NEW id \in Identities, NEW now \in 0..MaxNow, Evaluate(id, now),
           NEW i \in DOMAIN Rules, NEW j \in Identities
    PROVE  /\ Followed(i, j) \subseteq 1..Len(hits)
           /\ j # id => Followed(i, j)' = Followed(i, j)
           /\ j = id => Followed(i, j)' =
                (IF id \in DOMAIN counters[i] THEN Followed(i, id) ELSE {})
                    \union {Len(hits) + 1}
<1> DEFINE n == Len(hits) + 1
<1>1. /\ hits' \in Seq(Hit) /\ Len(hits') = Len(hits) + 1 /\ Len(hits) \in Nat
      /\ \A h \in DOMAIN hits : hits'[h] = hits[h]
      /\ hits'[n].id = id
  <2>1. PICK allowing \in SUBSET DOMAIN Rules :
            /\ hits' \in Seq(Hit) /\ Len(hits') = Len(hits) + 1 /\ Len(hits) \in Nat
            /\ \A h \in DOMAIN hits : hits'[h] = hits[h]
            /\ hits'[n] = [id |-> id, at |-> now, allowedBy |-> allowing,
                           verdict |-> Verdict(allowing)]
    BY HitsStep
  <2>2. QED
    BY <2>1
<1>2. hits \in Seq(Hit)
  BY DEF TypeOK, Hit
<1>3. DOMAIN hits = 1..Len(hits) /\ DOMAIN hits' = DOMAIN hits \union {n}
  BY <1>1, <1>2
<1>4. trackedFrom'[i][j] = IF j = id /\ id \notin DOMAIN counters[i]
                           THEN Len(hits) ELSE trackedFrom[i][j]
  BY TrackedFromStep
<1>5. trackedFrom[i][j] \in 0..Len(hits)
  BY DEF TypeOK
<1>6. Followed(i, j) \subseteq 1..Len(hits)
  BY <1>3 DEF Followed
<1>7. CASE j # id
  <2>1. trackedFrom'[i][j] = trackedFrom[i][j]
    BY <1>4, <1>7
  <2>2. \A h : h \in Followed(i, j)' <=> h \in Followed(i, j)
    BY <1>1, <1>3, <1>7, <2>1 DEF Followed
  <2>3. QED
    BY <1>6, <1>7, <2>2
<1>8. CASE j = id /\ id \in DOMAIN counters[i]
  <2>1. trackedFrom'[i][j] = trackedFrom[i][j]
    BY <1>4, <1>8
  <2>2. trackedFrom[i][j] < n
    BY <1>1, <1>5 DEF TypeOK
  <2>3. \A h : h \in Followed(i, j)' <=> h \in Followed(i, j) \union {n}
    BY <1>1, <1>3, <1>8, <2>1, <2>2 DEF Followed
  <2>4. QED
    BY <1>6, <1>8, <2>3
<1>9. CASE j = id /\ id \notin DOMAIN counters[i]
  <2>1. trackedFrom'[i][j] = Len(hits)
    BY <1>4, <1>9
  <2>2. \A h : h \in Followed(i, j)' <=> h = n
    BY <1>1, <1>3, <1>9, <2>1 DEF Followed
  <2>3. QED
    BY <1>6, <1>9, <2>2
<1>10. QED
  BY <1>7, <1>8, <1>9

\* A later reading is not in an earlier window.
LEMMA DivMonotone ==
    ASSUME NEW a \in Nat, NEW b \in Nat, NEW k \in Nat, k # 0, a <= b
    PROVE  a \div k \in Nat /\ b \div k \in Nat /\ a \div k <= b \div k
<1> DEFINE x == a \div k
           y == b \div k
           p == a % k
           q == b % k
<1>1. x \in Nat /\ y \in Nat /\ p \in 0..(k - 1) /\ q \in 0..(k - 1)
  OBVIOUS
<1>2. a = (k * x) + p /\ b = (k * y) + q
  OBVIOUS
<1> HIDE DEF x, y, p, q
<1>3. ASSUME x > y PROVE FALSE
  <2>1. PICK d \in Nat : x = y + 1 + d
    BY <1>1, <1>3
  <2>2. k * x = k * y + k + k * d /\ k * d \in Nat /\ k * y \in Nat
    BY <1>1, <2>1
  <2>3. QED
    BY <1>1, <1>2, <2>2
<1>4. QED
  BY <1>1, <1>3 DEF x, y

\* Where the history of an identity is left as it is, so is what is counted of
\* it.
LEMMA SameHistory ==
    ASSUME NEW i \in DOMAIN Rules, NEW j \in Identities,
           Followed(i, j)' = Followed(i, j),
           \A h \in Followed(i, j) : hits'[h] = hits[h]
    PROVE  /\ InOrder(i, j)' <=> InOrder(i, j)
           /\ \A h \in Followed(i, j) : WindowOf(i, h)' = WindowOf(i, h)
           /\ \A w : InWindow(i, j, w)' = InWindow(i, j, w)
           /\ \A w : InWindowBefore(i, j, w)' = InWindowBefore(i, j, w)
           /\ \A h \in Followed(i, j) : Rank(i, j, h)' = Rank(i, j, h)
<1>1. \A h \in Followed(i, j) : WindowOf(i, h)' = WindowOf(i, h)
  BY DEF WindowOf
<1>2. InOrder(i, j)' <=> InOrder(i, j)
  BY DEF InOrder
<1>3. \A w : InWindow(i, j, w)' = InWindow(i, j, w)
  BY <1>1 DEF InWindow
<1>4. \A w : InWindowBefore(i, j, w)' = InWindowBefore(i, j, w)
  BY <1>1 DEF InWindowBefore
<1>5. \A h \in Followed(i, j) : Rank(i, j, h)' = Rank(i, j, h)
  BY <1>1, <1>3 DEF Rank
<1>6. QED
  BY <1>1, <1>2, <1>3, <1>4, <1>5

\* The requests a rule follows are finitely many, each with a reading and a
\* window.
LEMMA FollowedType ==
    ASSUME TypeOK, NEW i \in DOMAIN Rules, NEW j \in Identities
    PROVE  /\ Followed(i, j) \subseteq 1..Len(hits)
           /\ Len(hits) \in Nat
           /\ \A h \in Followed(i, j) : hits[h] \in Hit /\ hits[h].at \in Nat
           /\ \A h \in Followed(i, j) : WindowOf(i, h) \in Nat
           /\ \A S \in SUBSET Followed(i, j) : IsFiniteSet(S) /\ Cardinality(S) \in Nat
<1>1. hits \in Seq(Hit)
  BY DEF TypeOK, Hit
<1>2. Followed(i, j) \subseteq 1..Len(hits) /\ Len(hits) \in Nat
  BY <1>1 DEF Followed
<1>3. \A h \in Followed(i, j) : hits[h] \in Hit
  BY <1>1, <1>2
<1>4. \A h \in Followed(i, j) : hits[h].at \in Nat
  BY <1>3 DEF Hit
<1>5. \A h \in Followed(i, j) : WindowOf(i, h) \in Nat
  <2>1. Rules[i].window \in Nat /\ Rules[i].window # 0
    BY RuleType
  <2>2. QED
    BY <1>4, <2>1 DEF WindowOf
<1>6. ASSUME NEW S \in SUBSET Followed(i, j)
      PROVE  IsFiniteSet(S) /\ Cardinality(S) \in Nat
  <2>1. IsFiniteSet(1..Len(hits))
    BY <1>2, FS_Interval
  <2>2. IsFiniteSet(S)
    BY <1>2, <2>1, FS_Subset
  <2>3. QED
    BY <2>2, FS_CardinalityType
<1>7. QED
  BY <1>2, <1>3, <1>4, <1>5, <1>6

\* What check() leaves in the counter of an identity it has, when the reading is
\* not of an earlier window, and of one it has not.
LEMMA RecordedFields ==
    ASSUME NEW i \in DOMAIN Rules, NEW table, NEW id, NEW now \in Nat
    PROVE  LET w == now \div Rules[i].window
               c == table[id]
               r == Recorded(Rules[i], table, id, now)
           IN  /\ id \in DOMAIN table /\ c \in Counter /\ w >= c.windowIndex =>
                    /\ r.windowIndex = w
                    /\ r.current = IF w = c.windowIndex THEN c.current + 1 ELSE 1
                    /\ r.previous = CASE w = c.windowIndex -> c.previous
                                      [] w = c.windowIndex + 1 -> c.current
                                      [] OTHER -> 0
               /\ id \notin DOMAIN table =>
                    r.windowIndex = w /\ r.current = 1 /\ r.previous = 0
<1> DEFINE w == now \div Rules[i].window
           c == table[id]
           r == Recorded(Rules[i], table, id, now)
           fresh == [windowIndex |-> w, current |-> 0, previous |-> 0]
<1>1. w \in Nat
  <2>1. Rules[i].window \in Nat /\ Rules[i].window # 0
    BY RuleType
  <2>2. QED
    BY <2>1
<1>2. ASSUME NEW b \in Counter, r = [Roll(b, w) EXCEPT !.current = @ + 1], w >= b.windowIndex
      PROVE  /\ r.windowIndex = w
             /\ r.current = IF w = b.windowIndex THEN b.current + 1 ELSE 1
             /\ r.previous = CASE w = b.windowIndex -> b.previous
                               [] w = b.windowIndex + 1 -> b.current
                               [] OTHER -> 0
  <2> DEFINE rolled == Roll(b, w)
  <2> HIDE DEF r, w
  <2>1. b.windowIndex \in Nat /\ b.current \in Nat /\ b.previous \in Nat
    BY DEF Counter
  <2>2. rolled \in Counter
    BY <1>1 DEF Roll, Counter
  <2>3. /\ r.windowIndex = rolled.windowIndex
        /\ r.current = rolled.current + 1
        /\ r.previous = rolled.previous
    <3> HIDE DEF rolled
    <3>1. r = [rolled EXCEPT !.current = @ + 1]
      BY <1>2 DEF rolled
    <3>2. QED
      BY <2>2, <3>1 DEF Counter
  <2>4. CASE w = b.windowIndex
    <3>1. rolled = b
      BY <1>1, <2>1, <2>4 DEF Roll
    <3>2. QED
      BY <2>1, <2>3, <2>4, <3>1
  <2>5. CASE w = b.windowIndex + 1
    <3>1. rolled = [windowIndex |-> w, current |-> 0, previous |-> b.current]
      BY <1>1, <2>1, <2>5 DEF Roll
    <3>2. QED
      BY <2>1, <2>3, <2>5, <3>1
  <2>6. CASE w > b.windowIndex + 1
    <3>1. rolled = [windowIndex |-> w, current |-> 0, previous |-> 0]
      BY <1>1, <2>1, <2>6 DEF Roll
    <3>2. QED
      BY <1>1, <2>1, <2>3, <2>6, <3>1
  <2>7. QED
    BY <1>1, <1>2, <2>1, <2>4, <2>5, <2>6
<1>3. ASSUME id \in DOMAIN table, c \in Counter, w >= c.windowIndex
      PROVE  /\ r.windowIndex = w
             /\ r.current = IF w = c.windowIndex THEN c.current + 1 ELSE 1
             /\ r.previous = CASE w = c.windowIndex -> c.previous
                               [] w = c.windowIndex + 1 -> c.current
                               [] OTHER -> 0
  <2>1. r = [Roll(c, w) EXCEPT !.current = @ + 1]
    BY <1>3 DEF Recorded
  <2> HIDE DEF r, c, w
  <2>2. QED
    BY <1>2, <1>3, <2>1
<1>4. ASSUME id \notin DOMAIN table
      PROVE  r.windowIndex = w /\ r.current = 1 /\ r.previous = 0
  <2>1. r = [Roll(fresh, w) EXCEPT !.current = @ + 1]
    BY <1>4 DEF Recorded
  <2>2. fresh \in Counter /\ fresh.windowIndex = w /\ fresh.current = 0 /\ fresh.previous = 0
    BY <1>1 DEF Counter
  <2> HIDE DEF r, fresh, w
  <2>3. /\ r.windowIndex = w
        /\ r.current = fresh.current + 1
        /\ r.previous = fresh.previous
    BY <1>1, <1>2, <2>1, <2>2
  <2>4. QED
    BY <2>2, <2>3
<1>5. QED
  BY <1>3, <1>4

\* While the readings for an identity are in order, check() leaves in its
\* counter the number of the followed requests in the window of the reading and
\* in the one before, this request included.
LEMMA OwnCounterStep ==
    ASSUME TypeOK, CountersFollow,
           NEW id \in Identities, NEW now \in 0..MaxNow, Evaluate(id, now),
           NEW i \in DOMAIN Rules, InOrder(i, id)',
           NEW n, n = Len(hits) + 1
    PROVE  LET w == now \div Rules[i].window
               c == counters'[i][id]
           IN  /\ n \in Followed(i, id)'
               /\ WindowOf(i, n)' = w
               /\ \A h \in Followed(i, id)' : WindowOf(i, h)' <= w
               /\ c.windowIndex = w
               /\ c.current = Cardinality(InWindow(i, id, w)')
               /\ c.previous = Cardinality(InWindowBefore(i, id, w)')
<1> DEFINE w == now \div Rules[i].window
           c == counters'[i][id]
           B == IF id \in DOMAIN counters[i] THEN Followed(i, id) ELSE {}
           Same == {h \in B : WindowOf(i, h) = w}
           Before == {h \in B : WindowOf(i, h) + 1 = w}
<1>1. PICK allowing \in SUBSET DOMAIN Rules :
        /\ Len(hits) \in Nat
        /\ \A h \in DOMAIN hits : hits'[h] = hits[h]
        /\ hits'[n] = [id |-> id, at |-> now, allowedBy |-> allowing,
                       verdict |-> Verdict(allowing)]
  BY HitsStep
<1>2. /\ B \subseteq Followed(i, id) /\ B \subseteq 1..Len(hits)
      /\ Followed(i, id)' = B \union {n}
  BY FollowedStep
<1>3. now \in Nat /\ Rules[i].window \in Nat /\ Rules[i].window # 0 /\ w \in Nat
  <2>1. now \in Nat /\ Rules[i].window \in Nat /\ Rules[i].window # 0
    BY RuleType
  <2>2. QED
    BY <2>1
<1>4. \A h \in B : /\ hits'[h] = hits[h] /\ hits[h].at \in Nat
                   /\ WindowOf(i, h)' = WindowOf(i, h) /\ WindowOf(i, h) \in Nat
  <2>1. \A h \in B : hits[h].at \in Nat /\ WindowOf(i, h) \in Nat
    BY <1>2, FollowedType
  <2>2. \A h \in B : hits'[h] = hits[h]
    BY <1>1, <1>2 DEF Followed
  <2>3. QED
    BY <2>1, <2>2 DEF WindowOf
<1>5. WindowOf(i, n)' = w /\ hits'[n].at = now
  BY <1>1 DEF WindowOf
<1>6. n \notin B /\ \A h \in B : h < n
  BY <1>1, <1>2
<1>7. \A h \in B : WindowOf(i, h) <= w
  <2>1. \A h \in B : hits'[h].at <= hits'[n].at
    BY <1>2, <1>6 DEF InOrder
  <2>2. \A h \in B : hits[h].at <= now
    BY <1>4, <1>5, <2>1
  <2>3. QED
    BY <1>3, <1>4, <2>2, DivMonotone DEF WindowOf
<1>8. InWindow(i, id, w)' = Same \union {n}
  BY <1>2, <1>4, <1>5 DEF InWindow
<1>9. InWindowBefore(i, id, w)' = Before
  <2>1. w + 1 # w
    BY <1>3
  <2>2. QED
    BY <1>2, <1>4, <1>5, <2>1 DEF InWindowBefore
<1>10. /\ IsFiniteSet(Same) /\ Cardinality(Same) \in Nat
       /\ Cardinality(InWindow(i, id, w)') = Cardinality(Same) + 1
  <2>1. Same \in SUBSET Followed(i, id)
    BY <1>2
  <2>2. n \notin Same
    BY <1>6
  <2> HIDE DEF Same
  <2>3. IsFiniteSet(Same) /\ Cardinality(Same) \in Nat
    BY <2>1, FollowedType
  <2>4. QED
    BY <1>8, <2>2, <2>3, FS_AddElement
<1>11. /\ n \in Followed(i, id)'
       /\ WindowOf(i, n)' = w
       /\ \A h \in Followed(i, id)' : WindowOf(i, h)' <= w
  BY <1>2, <1>3, <1>4, <1>5, <1>7
<1>12. SUFFICES /\ c.windowIndex = w
                /\ c.current = Cardinality(InWindow(i, id, w)')
                /\ c.previous = Cardinality(InWindowBefore(i, id, w)')
  BY <1>11
<1>13. c = Recorded(Rules[i], counters[i], id, now)
  BY CountersStep
<1>14. CASE id \in DOMAIN counters[i]
  <2> DEFINE d == counters[i][id]
  <2>1. d \in Counter
    BY <1>14 DEF TypeOK
  <2>2. InOrder(i, id)
    BY <1>2, <1>4, <1>14 DEF InOrder
  <2>3. /\ \E h \in B : WindowOf(i, h) = d.windowIndex
        /\ \A h \in B : WindowOf(i, h) <= d.windowIndex
        /\ d.current = Cardinality(InWindow(i, id, d.windowIndex))
        /\ d.previous = Cardinality(InWindowBefore(i, id, d.windowIndex))
    BY <1>14, <2>2 DEF CountersFollow, CounterHolds
  <2>4. d.windowIndex \in Nat /\ d.windowIndex <= w
    BY <1>7, <2>1, <2>3 DEF Counter
  <2>5. /\ c.windowIndex = w
        /\ c.current = IF w = d.windowIndex THEN d.current + 1 ELSE 1
        /\ c.previous = CASE w = d.windowIndex -> d.previous
                          [] w = d.windowIndex + 1 -> d.current
                          [] OTHER -> 0
    BY <1>3, <1>13, <1>14, <2>1, <2>4, RecordedFields
  <2>6. CASE w = d.windowIndex
    <3>1. Same = InWindow(i, id, w) /\ Before = InWindowBefore(i, id, w)
      BY <1>14 DEF InWindow, InWindowBefore
    <3>2. c.current = d.current + 1 /\ c.previous = d.previous
      BY <2>4, <2>5, <2>6
    <3>3. d.current = Cardinality(Same) /\ d.previous = Cardinality(Before)
      BY <2>3, <2>6, <3>1
    <3> HIDE DEF w, c, Same, Before, d
    <3>4. QED
      BY <1>9, <1>10, <2>5, <3>2, <3>3
  <2>7. CASE w = d.windowIndex + 1
    <3>1. Same = {}
      BY <1>4, <2>3, <2>4, <2>7
    <3>2. Before = InWindow(i, id, d.windowIndex)
      BY <1>4, <1>14, <2>4, <2>7 DEF InWindow
    <3>3. Cardinality(Same) = 0
      BY <3>1, FS_EmptySet
    <3>4. c.current = 1 /\ c.previous = d.current
      BY <2>4, <2>5, <2>7
    <3> HIDE DEF w, c, Same, Before, d
    <3>5. QED
      BY <1>9, <1>10, <2>3, <2>5, <3>2, <3>3, <3>4
  <2>8. CASE w > d.windowIndex + 1
    <3>1. Same = {} /\ Before = {}
      BY <1>3, <1>4, <2>3, <2>4, <2>8
    <3>2. Cardinality(Same) = 0 /\ Cardinality(Before) = 0
      BY <3>1, FS_EmptySet
    <3>3. c.current = 1 /\ c.previous = 0
      BY <1>3, <2>4, <2>5, <2>8
    <3> HIDE DEF w, c, Same, Before, d
    <3>4. QED
      BY <1>9, <1>10, <2>5, <3>2, <3>3
  <2>9. QED
    BY <1>3, <2>4, <2>6, <2>7, <2>8
<1>15. CASE id \notin DOMAIN counters[i]
  <2>1. Same = {} /\ Before = {}
    BY <1>15
  <2>2. Cardinality(Same) = 0 /\ Cardinality(Before) = 0
    BY <2>1, FS_EmptySet
  <2>3. c.windowIndex = w /\ c.current = 1 /\ c.previous = 0
    BY <1>3, <1>13, <1>15, RecordedFields
  <2> HIDE DEF w, c, Same, Before
  <2>4. QED
    BY <1>9, <1>10, <2>2, <2>3
<1>16. QED
  BY <1>14, <1>15

\* A counter that is left as it is, with its history, holds what it held.
LEMMA SameCounter ==
    ASSUME CountersFollow, NEW i \in DOMAIN Rules, NEW j \in Identities,
           j \in DOMAIN counters[i], counters'[i][j] = counters[i][j],
           Followed(i, j)' = Followed(i, j),
           \A h \in Followed(i, j) : hits'[h] = hits[h],
           InOrder(i, j)'
    PROVE  CounterHolds(i, j, counters[i][j].windowIndex)'
<1>1. PICK w : w = counters[i][j].windowIndex
  OBVIOUS
<1>2. /\ InOrder(i, j)
      /\ \A h \in Followed(i, j) : WindowOf(i, h)' = WindowOf(i, h)
      /\ InWindow(i, j, w)' = InWindow(i, j, w)
      /\ InWindowBefore(i, j, w)' = InWindowBefore(i, j, w)
  BY SameHistory
<1>3. CounterHolds(i, j, w)
  BY <1>1, <1>2 DEF CountersFollow
<1>4. CounterHolds(i, j, w)'
  BY <1>2, <1>3 DEF CounterHolds
<1>5. QED
  BY <1>1, <1>4 DEF CounterHolds

\* Every request leaves the counters with what they should have counted.
LEMMA CountersFollowNext ==
    TypeOK /\ CountersFollow /\ [Next]_vars => CountersFollow'
<1> SUFFICES ASSUME TypeOK, CountersFollow, [Next]_vars PROVE CountersFollow'
  OBVIOUS
<1>1. CASE UNCHANGED vars
  <2>1. counters' = counters /\ hits' = hits /\ trackedFrom' = trackedFrom
    BY <1>1 DEF vars
  <2>2. \A i \in DOMAIN Rules : \A j \in Identities : Followed(i, j)' = Followed(i, j)
    BY <2>1 DEF Followed
  <2>3. ASSUME NEW i \in DOMAIN Rules, NEW j \in DOMAIN counters'[i], InOrder(i, j)'
        PROVE  CounterHolds(i, j, counters[i][j].windowIndex)'
    BY <2>1, <2>2, <2>3, SameCounter DEF TypeOK
  <2>4. QED
    BY <2>3 DEF CountersFollow
<1>2. ASSUME NEW id \in Identities, NEW now \in 0..MaxNow, Evaluate(id, now),
             NEW i \in DOMAIN Rules, NEW j \in DOMAIN counters'[i], InOrder(i, j)'
      PROVE  CounterHolds(i, j, counters[i][j].windowIndex)'
  <2>1. CASE j = id
    <3>1. PICK n : n = Len(hits) + 1
      OBVIOUS
    <3>2. PICK w : w = now \div Rules[i].window
      OBVIOUS
    <3>3. /\ n \in Followed(i, id)'
          /\ WindowOf(i, n)' = w
          /\ \A h \in Followed(i, id)' : WindowOf(i, h)' <= w
          /\ counters'[i][id].windowIndex = w
          /\ counters'[i][id].current = Cardinality(InWindow(i, id, w)')
          /\ counters'[i][id].previous = Cardinality(InWindowBefore(i, id, w)')
      BY <1>2, <2>1, <3>1, <3>2, OwnCounterStep
    <3>4. CounterHolds(i, id, w)'
      BY <3>3 DEF CounterHolds
    <3>5. QED
      BY <2>1, <3>3, <3>4 DEF CounterHolds
  <2>2. CASE j # id
    <3>1. j \in DOMAIN counters[i] /\ counters'[i][j] = counters[i][j] /\ j \in Identities
      BY <1>2, <2>2, CountersStep DEF TypeOK
    <3>2. Followed(i, j)' = Followed(i, j)
      BY <1>2, <2>2, <3>1, FollowedStep
    <3>3. \A h \in Followed(i, j) : hits'[h] = hits[h]
      BY <1>2, HitsStep DEF Followed
    <3>4. QED
      BY <1>2, <3>1, <3>2, <3>3, SameCounter
  <2>3. QED
    BY <2>1, <2>2
<1>3. ASSUME NEW id \in Identities, NEW now \in 0..MaxNow, Evaluate(id, now)
      PROVE  CountersFollow'
  BY <1>2, <1>3 DEF CountersFollow
<1>4. QED
  BY <1>1, <1>3 DEF Next

\* What a rule let through stays within the budget, whatever comes later.
LEMMA SameAllowed ==
    ASSUME AllowedWithin, NEW i \in DOMAIN Rules, NEW j \in Identities,
           Followed(i, j)' = Followed(i, j),
           \A h \in Followed(i, j) : hits'[h] = hits[h],
           InOrder(i, j)',
           NEW h \in Followed(i, j)', i \in hits'[h].allowedBy
    PROVE  WithinHistory(i, j, h)'
<1>1. PICK w : w = WindowOf(i, h)
  OBVIOUS
<1>2. /\ InOrder(i, j)
      /\ WindowOf(i, h)' = w
      /\ InWindowBefore(i, j, w)' = InWindowBefore(i, j, w)
      /\ Rank(i, j, h)' = Rank(i, j, h)
  BY <1>1, SameHistory
<1>3. WithinHistory(i, j, h) /\ hits'[h] = hits[h]
  BY <1>2 DEF AllowedWithin
<1>4. Cardinality(InWindowBefore(i, j, WindowOf(i, h)))'
        = Cardinality(InWindowBefore(i, j, WindowOf(i, h)))
  BY <1>1, <1>2 DEF InWindowBefore
<1>5. QED
  BY <1>2, <1>3, <1>4 DEF WithinHistory

\* A request is let through only within the budget of its rule, by what the
\* history says.
LEMMA AllowedWithinNext ==
    TypeOK /\ CountersFollow /\ AllowedWithin /\ [Next]_vars => AllowedWithin'
<1> SUFFICES ASSUME TypeOK, CountersFollow, AllowedWithin, [Next]_vars
             PROVE  AllowedWithin'
  OBVIOUS
<1>1. CASE UNCHANGED vars
  <2>1. counters' = counters /\ hits' = hits /\ trackedFrom' = trackedFrom
    BY <1>1 DEF vars
  <2>2. \A i \in DOMAIN Rules : \A j \in Identities : Followed(i, j)' = Followed(i, j)
    BY <2>1 DEF Followed
  <2>3. ASSUME NEW i \in DOMAIN Rules, NEW j \in Identities, InOrder(i, j)',
               NEW h \in Followed(i, j)', i \in hits'[h].allowedBy
        PROVE  WithinHistory(i, j, h)'
    BY <2>1, <2>2, <2>3, SameAllowed
  <2>4. QED
    BY <2>3 DEF AllowedWithin
<1>2. ASSUME NEW id \in Identities, NEW now \in 0..MaxNow, Evaluate(id, now),
             NEW i \in DOMAIN Rules, InOrder(i, id)',
             NEW h \in Followed(i, id)', i \in hits'[h].allowedBy
      PROVE  WithinHistory(i, id, h)'
  <2> DEFINE B == IF id \in DOMAIN counters[i] THEN Followed(i, id) ELSE {}
  <2>1. PICK n : n = Len(hits) + 1
    OBVIOUS
  <2>2. PICK w : w = now \div Rules[i].window
    OBVIOUS
  <2>3. /\ n \in Followed(i, id)'
        /\ WindowOf(i, n)' = w
        /\ counters'[i][id].current = Cardinality(InWindow(i, id, w)')
        /\ counters'[i][id].previous = Cardinality(InWindowBefore(i, id, w)')
    BY <1>2, <2>1, <2>2, OwnCounterStep
  <2>4. PICK allowing \in SUBSET DOMAIN Rules :
            /\ allowing = {k \in DOMAIN Rules :
                            WithinBudget(Rules[k], counters'[k][id], now)}
            /\ Len(hits) \in Nat
            /\ \A g \in DOMAIN hits : hits'[g] = hits[g]
            /\ hits'[n] = [id |-> id, at |-> now, allowedBy |-> allowing,
                           verdict |-> Verdict(allowing)]
    BY <1>2, <2>1, HitsStep
  <2>5. /\ B \subseteq Followed(i, id) /\ B \subseteq 1..Len(hits)
        /\ Followed(i, id)' = B \union {n}
    BY <1>2, <2>1, FollowedStep
  <2>6. CASE h = n
    <3>1. WithinBudget(Rules[i], counters'[i][id], now) /\ hits'[n].at = now
      BY <1>2, <2>4, <2>6
    <3>2. Rank(i, id, n)' = InWindow(i, id, w)'
      <4>1. \A g \in Followed(i, id)' : g <= n
        BY <2>1, <2>4, <2>5
      <4>2. \A g : g \in Rank(i, id, n)' <=> g \in InWindow(i, id, w)'
        BY <2>3, <4>1 DEF Rank, InWindow
      <4>3. QED
        BY <4>2
    <3>3. InWindowBefore(i, id, WindowOf(i, n))' = InWindowBefore(i, id, w)'
      BY <2>3 DEF InWindowBefore
    <3>4. WithinHistory(i, id, n)'
      BY <2>3, <3>1, <3>2, <3>3 DEF WithinHistory, WithinBudget
    <3>5. QED
      BY <2>6, <3>4
  <2>7. CASE h # n
    <3>1. h \in B /\ id \in DOMAIN counters[i] /\ h \in Followed(i, id) /\ B = Followed(i, id)
      BY <2>5, <2>7
    <3>2. \A g \in B : hits'[g] = hits[g] /\ WindowOf(i, g)' = WindowOf(i, g)
      <4>1. \A g \in B : hits'[g] = hits[g]
        BY <2>4, <2>5 DEF Followed
      <4>2. QED
        BY <4>1 DEF WindowOf
    <3>3. InOrder(i, id)
      BY <1>2, <2>5, <3>1, <3>2 DEF InOrder
    <3>4. WithinHistory(i, id, h) /\ hits'[h] = hits[h]
      BY <1>2, <3>1, <3>2, <3>3 DEF AllowedWithin
    <3>5. h < n /\ ~ (n <= h)
      BY <2>1, <2>4, <2>5, <3>1
    <3>6. Rank(i, id, h)' = Rank(i, id, h)
      <4>1. \A g : g \in Rank(i, id, h)' <=> g \in Rank(i, id, h)
        BY <2>5, <3>1, <3>2, <3>5 DEF Rank, InWindow
      <4>2. QED
        BY <4>1
    <3>7. WindowOf(i, h) \in Nat /\ WindowOf(i, n)' \in Nat /\ WindowOf(i, h) <= WindowOf(i, n)'
      <4>1. hits[h].at \in Nat /\ now \in Nat /\ Rules[i].window \in Nat /\ Rules[i].window # 0
        BY <3>1, FollowedType, RuleType
      <4>2. hits[h].at <= now
        BY <1>2, <2>3, <2>4, <3>4, <3>5 DEF InOrder
      <4>3. QED
        BY <2>2, <2>3, <4>1, <4>2, DivMonotone DEF WindowOf
    <3>8. InWindowBefore(i, id, WindowOf(i, h))' = InWindowBefore(i, id, WindowOf(i, h))
      <4>1. WindowOf(i, n)' + 1 # WindowOf(i, h)
        BY <3>7
      <4>2. \A g : g \in InWindowBefore(i, id, WindowOf(i, h))'
                    <=> g \in InWindowBefore(i, id, WindowOf(i, h))
        BY <2>5, <3>1, <3>2, <4>1 DEF InWindowBefore
      <4>3. QED
        BY <4>2
    <3>9. QED
      BY <3>4, <3>6, <3>8 DEF WithinHistory
  <2>8. QED
    BY <2>6, <2>7
<1>3. ASSUME NEW id \in Identities, NEW now \in 0..MaxNow, Evaluate(id, now),
             NEW i \in DOMAIN Rules, NEW j \in Identities, InOrder(i, j)',
             NEW h \in Followed(i, j)', i \in hits'[h].allowedBy
      PROVE  WithinHistory(i, j, h)'
  <2>1. CASE j = id
    BY <1>2, <1>3, <2>1
  <2>2. CASE j # id
    <3>1. Followed(i, j)' = Followed(i, j)
      BY <1>3, <2>2, FollowedStep
    <3>2. \A g \in Followed(i, j) : hits'[g] = hits[g]
      BY <1>3, HitsStep DEF Followed
    <3>3. QED
      BY <1>3, <3>1, <3>2, SameAllowed
  <2>3. QED
    BY <2>1, <2>2
<1>4. ASSUME NEW id \in Identities, NEW now \in 0..MaxNow, Evaluate(id, now)
      PROVE  AllowedWithin'
  BY <1>3, <1>4 DEF AllowedWithin
<1>5. QED
  BY <1>1, <1>4 DEF Next

\* A reading no more than a window later is at most one window later.
LEMMA DivNext ==
    ASSUME NEW a \in Nat, NEW b \in Nat, NEW k \in Nat, k # 0, b <= a + k
    PROVE  b \div k <= a \div k + 1
<1> DEFINE x == a \div k
           y == b \div k
           p == a % k
           q == b % k
<1>1. x \in Nat /\ y \in Nat /\ p \in 0..(k - 1) /\ q \in 0..(k - 1)
  OBVIOUS
<1>2. a = (k * x) + p /\ b = (k * y) + q
  OBVIOUS
<1> HIDE DEF x, y, p, q
<1>3. ASSUME y > x + 1 PROVE FALSE
  <2>1. PICK d \in Nat : y = x + 2 + d
    BY <1>1, <1>3
  <2>2. k * y = k * x + k + k + k * d /\ k * d \in Nat /\ k * x \in Nat
    BY <1>1, <2>1
  <2>3. QED
    BY <1>1, <1>2, <2>2
<1>4. QED
  BY <1>1, <1>3 DEF x, y

\* A weighted count within the limit: the count alone is, and is below it once
\* the previous window weighs anything.
LEMMA WeightedCount ==
    ASSUME NEW s \in Nat, NEW r \in Nat, s <= r,
           NEW p \in Nat, NEW q \in Nat, q # 0,
           NEW k \in Nat, k # 0, NEW m \in Nat,
           r * k + p * q <= m * k
    PROVE  s <= m /\ (p # 0 => s < m)
<1>1. r * k \in Nat /\ p * q \in Nat /\ m * k \in Nat
  OBVIOUS
<1>2. ASSUME r > m PROVE FALSE
  <2>1. PICK d \in Nat : r = m + 1 + d
    BY <1>2
  <2>2. r * k = m * k + k + d * k /\ d * k \in Nat
    BY <2>1
  <2>3. QED
    BY <1>1, <2>2
<1>3. ASSUME r = m, p # 0 PROVE FALSE
  <2>1. PICK a \in Nat, b \in Nat : p = a + 1 /\ q = b + 1
    <3>1. p - 1 \in Nat /\ q - 1 \in Nat /\ p = (p - 1) + 1 /\ q = (q - 1) + 1
      BY <1>3
    <3>2. QED
      BY <3>1
  <2>2. p * q = a * b + a + b + 1 /\ a * b \in Nat
    BY <2>1
  <2>3. QED
    BY <1>1, <1>3, <2>2
<1>4. QED
  BY <1>2, <1>3

\* The requests of one window that a rule let through: at most its limit, and
\* less once there was one in the window before.
LEMMA PerWindow ==
    ASSUME TypeOK, AllowedWithin, NEW i \in DOMAIN Rules, NEW id \in Identities,
           InOrder(i, id), NEW v \in Nat,
           NEW S \in SUBSET InWindow(i, id, v), \A h \in S : i \in hits[h].allowedBy
    PROVE  /\ Cardinality(S) <= Rules[i].limit
           /\ S # {} /\ InWindowBefore(i, id, v) # {} => Cardinality(S) < Rules[i].limit
<1>1. /\ Rules[i].window \in Nat /\ Rules[i].window # 0 /\ Rules[i].limit \in Nat
  BY RuleType
<1>2. /\ Followed(i, id) \subseteq 1..Len(hits)
      /\ Len(hits) \in Nat
      /\ \A h \in Followed(i, id) : hits[h].at \in Nat
      /\ \A T \in SUBSET Followed(i, id) : IsFiniteSet(T) /\ Cardinality(T) \in Nat
  BY FollowedType
<1>3. S \in SUBSET Followed(i, id) /\ S \in SUBSET Nat
  BY <1>2 DEF InWindow
<1>4. CASE S = {}
  BY <1>1, <1>4, FS_EmptySet
<1>5. CASE S # {}
  <2>1. PICK h \in S : \A g \in S : g <= h
    <3>1. \A g \in S : g <= Len(hits)
      BY <1>2, <1>3
    <3>2. QED
      BY <1>2, <1>3, <1>5, <3>1, MaxProperty
  <2>2. h \in Followed(i, id) /\ WindowOf(i, h) = v
    BY <2>1 DEF InWindow
  <2>3. S \subseteq Rank(i, id, h) /\ Rank(i, id, h) \in SUBSET Followed(i, id)
    BY <2>1, <2>2 DEF Rank, InWindow
  <2>4. Cardinality(S) <= Cardinality(Rank(i, id, h)) /\ Cardinality(Rank(i, id, h)) \in Nat
    <3>1. IsFiniteSet(Rank(i, id, h)) /\ Cardinality(Rank(i, id, h)) \in Nat
      BY <1>2, <2>3
    <3>2. QED
      BY <2>3, <3>1, FS_Subset
  <2>5. WithinHistory(i, id, h)
    BY <2>2 DEF AllowedWithin
  <2> DEFINE Before == InWindowBefore(i, id, v)
             q == Rules[i].window - (hits[h].at % Rules[i].window)
  <2>6. Cardinality(Before) \in Nat /\ IsFiniteSet(Before)
    <3>1. Before \in SUBSET Followed(i, id)
      BY DEF InWindowBefore
    <3>2. QED
      BY <1>2, <3>1
  <2>7. q \in Nat /\ q # 0
    <3>1. hits[h].at \in Nat
      BY <1>2, <2>2
    <3>2. QED
      BY <1>1, <3>1
  <2>8. Cardinality(Rank(i, id, h)) * Rules[i].window + Cardinality(Before) * q
            <= Rules[i].limit * Rules[i].window
    BY <2>2, <2>5 DEF WithinHistory
  <2>9. Cardinality(S) \in Nat
    BY <1>2, <1>3
  <2>10. Before # {} => Cardinality(Before) # 0
    BY <2>6, FS_EmptySet
  <2> HIDE DEF q, Before
  <2>11. /\ Cardinality(S) <= Rules[i].limit
         /\ Cardinality(Before) # 0 => Cardinality(S) < Rules[i].limit
    BY <1>1, <2>4, <2>6, <2>7, <2>8, <2>9, WeightedCount
  <2>12. QED
    BY <2>10, <2>11 DEF Before
<1>6. QED
  BY <1>4, <1>5

\* A trailing window spans two windows, which together let through less than
\* twice the limit.
LEMMA BurstWithinLimits ==
    ASSUME TypeOK, AllowedWithin, NEW i \in DOMAIN Rules, NEW id \in Identities,
           InOrder(i, id)
    PROVE  BurstBounded(i, id)
<1> SUFFICES ASSUME NEW t \in 0..MaxNow, Rules[i].limit > 0
             PROVE  Cardinality(LetThrough(i, id, t)) < 2 * Rules[i].limit
  BY DEF BurstBounded
<1> DEFINE L == LetThrough(i, id, t)
           u == t \div Rules[i].window
           Late == {h \in L : WindowOf(i, h) = u}
           Early == {h \in L : WindowOf(i, h) + 1 = u}
<1>1. Rules[i].window \in Nat /\ Rules[i].window # 0 /\ Rules[i].limit \in Nat /\ t \in Nat
  BY RuleType
<1>2. u \in Nat
  BY <1>1
<1>3. /\ \A h \in Followed(i, id) : hits[h].at \in Nat /\ WindowOf(i, h) \in Nat
      /\ \A T \in SUBSET Followed(i, id) : IsFiniteSet(T) /\ Cardinality(T) \in Nat
  BY FollowedType
<1>4. /\ L \in SUBSET Followed(i, id)
      /\ \A h \in L : i \in hits[h].allowedBy /\ hits[h].at <= t /\ hits[h].at + Rules[i].window > t
  BY DEF LetThrough
<1>5. \A h \in L : WindowOf(i, h) <= u /\ u <= WindowOf(i, h) + 1
  <2>1. \A h \in L : hits[h].at \in Nat
    BY <1>3, <1>4
  <2>2. QED
    BY <1>1, <1>4, <2>1, DivMonotone, DivNext DEF WindowOf
<1>6. L = Early \union Late
  <2>1. \A h \in L : WindowOf(i, h) = u \/ WindowOf(i, h) + 1 = u
    BY <1>2, <1>3, <1>4, <1>5
  <2>2. QED
    BY <2>1
<1>7. Late \in SUBSET InWindow(i, id, u) /\ \A h \in Late : i \in hits[h].allowedBy
  BY <1>4 DEF InWindow
<1>8. Early \subseteq InWindowBefore(i, id, u)
  BY <1>4 DEF InWindowBefore
<1>9. /\ IsFiniteSet(Late) /\ Cardinality(Late) \in Nat
      /\ IsFiniteSet(Early) /\ Cardinality(Early) \in Nat
  <2>1. Late \in SUBSET Followed(i, id) /\ Early \in SUBSET Followed(i, id)
    BY <1>4
  <2> HIDE DEF Late, Early
  <2>2. QED
    BY <1>3, <2>1
<1>10. Cardinality(L) <= Cardinality(Early) + Cardinality(Late)
  <2> HIDE DEF Late, Early, L
  <2>1. Cardinality(L) = Cardinality(Early) + Cardinality(Late) - Cardinality(Early \cap Late)
    BY <1>6, <1>9, FS_Union
  <2>2. Cardinality(Early \cap Late) \in Nat
    BY <1>9, FS_Intersection, FS_CardinalityType
  <2>3. QED
    BY <1>9, <2>1, <2>2
<1>11. Cardinality(L) \in Nat
  BY <1>3, <1>4
<1>12. /\ Cardinality(Late) <= Rules[i].limit
       /\ Late # {} /\ InWindowBefore(i, id, u) # {} => Cardinality(Late) < Rules[i].limit
  <2> HIDE DEF Late, u
  <2>1. QED
    BY <1>2, <1>7, PerWindow
<1>13. CASE Early = {}
  <2>1. Cardinality(Early) = 0
    BY <1>13, FS_EmptySet
  <2> HIDE DEF Early, Late, L
  <2>2. QED
    BY <1>1, <1>9, <1>10, <1>11, <1>12, <2>1 DEF L
<1>14. CASE Early # {}
  <2>1. u # 0 /\ u - 1 \in Nat
    BY <1>2, <1>3, <1>4, <1>14
  <2>2. Early \in SUBSET InWindow(i, id, u - 1) /\ \A h \in Early : i \in hits[h].allowedBy
    BY <1>2, <1>3, <1>4, <2>1 DEF InWindow
  <2>3. Cardinality(Early) <= Rules[i].limit
    <3> HIDE DEF Early, u
    <3>1. QED
      BY <2>1, <2>2, PerWindow
  <2>4. InWindowBefore(i, id, u) # {}
    BY <1>8, <1>14
  <2>5. CASE Late = {}
    <3>1. Cardinality(Late) = 0
      BY <2>5, FS_EmptySet
    <3> HIDE DEF Early, Late, L
    <3>2. QED
      BY <1>1, <1>9, <1>10, <1>11, <2>3, <3>1 DEF L
  <2>6. CASE Late # {}
    <3> HIDE DEF Early, Late, L
    <3>1. Cardinality(Late) < Rules[i].limit
      BY <1>12, <2>4, <2>6
    <3>2. QED
      BY <1>1, <1>9, <1>10, <1>11, <2>3, <3>1 DEF L
  <2>7. QED
    BY <2>5, <2>6
<1>15. QED
  BY <1>13, <1>14

\* Readings that are sorted one by one are sorted.
LEMMA ReadingsSortedNext == TypeOK /\ ReadingsSorted /\ [Next]_vars => ReadingsSorted'
<1> SUFFICES ASSUME TypeOK, ReadingsSorted, [Next]_vars PROVE ReadingsSorted'
  OBVIOUS
<1>1. CASE UNCHANGED vars
  BY <1>1 DEF ReadingsSorted, SortedUpTo, vars
<1>2. ASSUME NEW id \in Identities, NEW now \in 0..MaxNow, Evaluate(id, now),
             SortedUpTo(Len(hits))',
             NEW g \in DOMAIN hits', NEW h \in DOMAIN hits', g < h
      PROVE  hits'[g].at <= hits'[h].at
  <2>1. /\ hits' \in Seq(Hit) /\ Len(hits') = Len(hits) + 1 /\ Len(hits) \in Nat
        /\ \A f \in DOMAIN hits : hits'[f] = hits[f]
    BY <1>2, HitsStep
  <2>2. DOMAIN hits = 1..Len(hits) /\ DOMAIN hits' = 1..(Len(hits) + 1)
    BY <2>1 DEF TypeOK
  <2>3. \A f \in DOMAIN hits' : hits'[f].at \in Nat
    <3>1. \A f \in DOMAIN hits' : hits'[f] \in Hit
      BY <2>1
    <3>2. QED
      BY <3>1 DEF Hit
  <2>4. \A f \in 1..Len(hits) : hits'[f].at <= hits'[f + 1].at
    BY <1>2, <2>1 DEF SortedUpTo
  <2>5. SortedUpTo(Len(hits))
    <3>1. \A f \in 1..(Len(hits) - 1) : /\ f \in 1..Len(hits) /\ f + 1 \in 1..Len(hits)
      BY <2>1
    <3>2. QED
      BY <2>1, <2>2, <2>4, <3>1 DEF SortedUpTo
  <2>6. \A e, f \in DOMAIN hits : e < f => hits[e].at <= hits[f].at
    BY <2>5 DEF ReadingsSorted
  <2>7. CASE h \in DOMAIN hits
    BY <1>2, <2>1, <2>2, <2>6, <2>7
  <2>8. CASE h = Len(hits) + 1
    <3>1. g \in DOMAIN hits /\ Len(hits) \in DOMAIN hits /\ g <= Len(hits)
      BY <1>2, <2>1, <2>2, <2>8
    <3>2. hits'[g].at <= hits'[Len(hits)].at
      <4>1. CASE g = Len(hits)
        BY <2>2, <2>3, <3>1, <4>1
      <4>2. CASE g # Len(hits)
        BY <2>1, <2>2, <2>6, <3>1, <4>2
      <4>3. QED
        BY <4>1, <4>2
    <3>3. hits'[Len(hits)].at <= hits'[h].at
      BY <2>2, <2>4, <2>8, <3>1
    <3>4. /\ hits'[g].at \in Nat /\ hits'[Len(hits)].at \in Nat /\ hits'[h].at \in Nat
      BY <2>1, <2>2, <2>3, <3>1
    <3>5. QED
      BY <3>2, <3>3, <3>4
  <2>9. QED
    BY <2>1, <2>2, <2>7, <2>8
<1>3. ASSUME NEW id \in Identities, NEW now \in 0..MaxNow, Evaluate(id, now)
      PROVE  ReadingsSorted'
  BY <1>2, <1>3 DEF ReadingsSorted
<1>4. QED
  BY <1>1, <1>3 DEF Next

\* An estimate over the limit comes with more hits than the limit: the previous
\* window weighs at most as much as it counts.
LEMMA OverLimit ==
    ASSUME NEW s \in Nat, NEW p \in Nat, NEW k \in Nat, k # 0, NEW o \in 0..(k - 1),
           NEW m \in Nat, s * k + p * (k - o) > m * k
    PROVE  s + p > m
<1>1. p * (k - o) <= p * k /\ p * k \in Nat /\ s * k \in Nat /\ p * (k - o) \in Nat
  <2>1. k - o \in Nat /\ k = (k - o) + o
    OBVIOUS
  <2>2. p * k = p * (k - o) + p * o /\ p * o \in Nat /\ p * (k - o) \in Nat
    BY <2>1
  <2>3. QED
    BY <2>1, <2>2
<1>2. (s + p) * k > m * k
  <2>1. (s + p) * k = s * k + p * k
    OBVIOUS
  <2>2. m * k \in Nat
    OBVIOUS
  <2>3. QED
    BY <1>1, <2>1, <2>2
<1>3. ASSUME ~ (s + p > m) PROVE FALSE
  <2>1. PICK d \in Nat : m = (s + p) + d
    <3>1. m - (s + p) \in Nat /\ m = (s + p) + (m - (s + p))
      BY <1>3
    <3>2. QED
      BY <3>1
  <2>2. m * k = (s + p) * k + d * k /\ d * k \in Nat /\ (s + p) * k \in Nat
    BY <2>1
  <2>3. QED
    BY <1>2, <2>2
<1>4. QED
  BY <1>3

\* Nobody is denied by a rule for less than its limit.
LEMMA DeniesOnlyOverLimitNext ==
    /\ TypeOK /\ CountersFollow /\ ReadingsSorted /\ ReadingsSorted'
    /\ DeniesOnlyOverLimit /\ [Next]_vars
    => DeniesOnlyOverLimit'
<1> SUFFICES ASSUME TypeOK, CountersFollow, ReadingsSorted', DeniesOnlyOverLimit, [Next]_vars
             PROVE  DeniesOnlyOverLimit'
  OBVIOUS
<1>1. CASE UNCHANGED vars
  BY <1>1 DEF DeniesOnlyOverLimit, SortedUpTo, Recent, WindowOf, vars
<1>2. ASSUME NEW id \in Identities, NEW now \in 0..MaxNow, Evaluate(id, now),
             NEW h \in DOMAIN hits', NEW r, r = hits'[h].verdict,
             r # 0, SortedUpTo(h)'
      PROVE  Cardinality(Recent(r, h)') > Rules[r].limit
  <2>1. PICK n : n = Len(hits) + 1
    OBVIOUS
  <2>2. PICK allowing \in SUBSET DOMAIN Rules :
            /\ allowing = {k \in DOMAIN Rules :
                            WithinBudget(Rules[k], counters'[k][id], now)}
            /\ hits' \in Seq(Hit)
            /\ Len(hits') = n
            /\ Len(hits) \in Nat
            /\ \A g \in DOMAIN hits : hits'[g] = hits[g]
            /\ hits'[n] = [id |-> id, at |-> now, allowedBy |-> allowing,
                           verdict |-> Verdict(allowing)]
    BY <1>2, <2>1, HitsStep
  <2>3. DOMAIN hits = 1..Len(hits) /\ DOMAIN hits' = 1..n
    BY <2>2 DEF TypeOK
  <2>4. CASE h \in DOMAIN hits
    <3>1. \A g \in 1..h : g \in DOMAIN hits /\ hits'[g] = hits[g]
      BY <2>2, <2>3, <2>4
    <3>2. SortedUpTo(h)
      <4>1. \A g \in 1..(h - 1) : g \in 1..h /\ g + 1 \in 1..h
        BY <2>2, <2>3, <2>4
      <4>2. QED
        BY <1>2, <3>1, <4>1 DEF SortedUpTo
    <3>3. r = hits[h].verdict /\ h \in 1..h
      BY <1>2, <2>2, <2>3, <2>4
    <3>4. Recent(r, h)' = Recent(r, h)
      <4>1. \A g \in 1..h : WindowOf(r, g)' = WindowOf(r, g)
        BY <3>1 DEF WindowOf
      <4>2. QED
        BY <3>1, <3>3, <4>1 DEF Recent
    <3>5. QED
      BY <1>2, <2>4, <3>2, <3>3, <3>4 DEF DeniesOnlyOverLimit
  <2>5. CASE h = n
    <3> DEFINE c == counters'[r][id]
               w == now \div Rules[r].window
               Same == InWindow(r, id, w)'
               Before == InWindowBefore(r, id, w)'
    <3>1. r \in DOMAIN Rules \ allowing
      BY <1>2, <2>2, <2>5, VerdictType
    <3>2. ~ WithinBudget(Rules[r], c, now)
      BY <2>2, <3>1
    <3>3. InOrder(r, id)'
      <4>1. \A e, f \in DOMAIN hits' : e < f => hits'[e].at <= hits'[f].at
        <5>1. SortedUpTo(Len(hits))'
          BY <1>2, <2>2, <2>5 DEF SortedUpTo
        <5>2. QED
          BY <5>1 DEF ReadingsSorted
      <4>2. QED
        BY <4>1 DEF InOrder, Followed
    <3>4. /\ \A g \in Followed(r, id)' : WindowOf(r, g)' <= w
          /\ n \in Followed(r, id)' /\ WindowOf(r, n)' = w
          /\ c.current = Cardinality(Same)
          /\ c.previous = Cardinality(Before)
      BY <1>2, <2>1, <3>1, <3>3, OwnCounterStep
    <3>5. TypeOK'
      BY TypeOKNext
    <3>6. /\ Followed(r, id)' \subseteq 1..n
          /\ \A g \in Followed(r, id)' : WindowOf(r, g)' \in Nat
          /\ \A S \in SUBSET Followed(r, id)' : IsFiniteSet(S) /\ Cardinality(S) \in Nat
      <4>1. DOMAIN hits' = 1..n
        BY <2>3
      <4>2. Followed(r, id)' \subseteq DOMAIN hits'
        BY DEF Followed
      <4>3. \A g \in Followed(r, id)' : hits'[g].at \in Nat
        <5>1. \A g \in DOMAIN hits' : hits'[g] \in Hit
          BY <2>2
        <5>2. \A g \in DOMAIN hits' : hits'[g].at \in Nat
          BY <5>1 DEF Hit
        <5>3. QED
          BY <4>2, <5>2
      <4>4. Rules[r].window \in Nat /\ Rules[r].window # 0
        BY <3>1, RuleType
      <4>5. \A g \in Followed(r, id)' : WindowOf(r, g)' \in Nat
        BY <4>3, <4>4 DEF WindowOf
      <4>6. IsFiniteSet(1..n)
        BY <2>1, <2>2, FS_Interval
      <4>7. ASSUME NEW S \in SUBSET Followed(r, id)'
            PROVE  IsFiniteSet(S) /\ Cardinality(S) \in Nat
        BY <4>1, <4>2, <4>6, FS_Subset, FS_CardinalityType
      <4>8. QED
        BY <4>1, <4>2, <4>5, <4>7
    <3>7. Same \in SUBSET Followed(r, id)' /\ Before \in SUBSET Followed(r, id)'
      BY DEF InWindow, InWindowBefore
    <3>8. w \in Nat
      BY <3>4, <3>6
    <3>9. Same \cap Before = {}
      <4>1. \A g \in Same : WindowOf(r, g)' = w
        BY DEF InWindow
      <4>2. \A g \in Before : WindowOf(r, g)' + 1 = w
        BY DEF InWindowBefore
      <4>3. w + 1 # w
        BY <3>8
      <4> HIDE DEF w, Same, Before
      <4>4. QED
        BY <4>1, <4>2, <4>3
    <3>10. Same \union Before \subseteq Recent(r, n)'
      <4>1. \A g \in Followed(r, id)' : hits'[g].id = id /\ g \in 1..n
        BY <3>6 DEF Followed
      <4>2. hits'[n].id = id
        BY <2>2
      <4>3. \A g \in Same : WindowOf(r, g)' + 1 >= w
        BY <3>8 DEF InWindow
      <4>4. \A g \in Before : WindowOf(r, g)' + 1 >= w
        BY <3>8 DEF InWindowBefore
      <4> HIDE DEF w, Same, Before
      <4>5. QED
        BY <3>4, <3>7, <4>1, <4>2, <4>3, <4>4 DEF Recent
    <3>11. IsFiniteSet(Recent(r, n)') /\ Cardinality(Recent(r, n)') \in Nat
      <4>1. IsFiniteSet(1..n)
        BY <2>1, <2>2, FS_Interval
      <4>2. Recent(r, n)' \subseteq 1..n
        BY DEF Recent
      <4>3. QED
        BY <4>1, <4>2, FS_Subset, FS_CardinalityType
    <3>12. /\ IsFiniteSet(Same) /\ Cardinality(Same) \in Nat
           /\ IsFiniteSet(Before) /\ Cardinality(Before) \in Nat
      <4> HIDE DEF Same, Before
      <4>1. QED
        BY <3>6, <3>7
    <3> HIDE DEF Same, Before
    <3>13. Cardinality(Same) + Cardinality(Before) <= Cardinality(Recent(r, n)')
      <4>1. Cardinality(Same \union Before) = Cardinality(Same) + Cardinality(Before) - 0
        BY <3>9, <3>12, FS_Union, FS_EmptySet
      <4>2. Cardinality(Same \union Before) <= Cardinality(Recent(r, n)')
        BY <3>10, <3>11, FS_Subset
      <4>3. QED
        BY <3>12, <4>1, <4>2
    <3>14. Cardinality(Same) + Cardinality(Before) > Rules[r].limit
      <4>1. /\ Rules[r].window \in Nat /\ Rules[r].window # 0 /\ Rules[r].limit \in Nat
            /\ now \in Nat
        BY <3>1, RuleType
      <4>2. now % Rules[r].window \in 0..(Rules[r].window - 1)
        BY <4>1
      <4>3. ~ (Cardinality(Same) * Rules[r].window
                + Cardinality(Before) * (Rules[r].window - (now % Rules[r].window))
                <= Rules[r].limit * Rules[r].window)
        BY <3>2, <3>4 DEF WithinBudget
      <4>4. PICK s \in Nat, p \in Nat, o \in 0..(Rules[r].window - 1) :
                /\ s = Cardinality(Same) /\ p = Cardinality(Before)
                /\ o = now % Rules[r].window
        BY <3>12, <4>2
      <4>5. s * Rules[r].window + p * (Rules[r].window - o) > Rules[r].limit * Rules[r].window
        <5>1. s * Rules[r].window \in Nat /\ p * (Rules[r].window - o) \in Int
              /\ Rules[r].limit * Rules[r].window \in Nat
          BY <4>1, <4>4
        <5>2. QED
          BY <4>3, <4>4, <5>1
      <4>6. s + p > Rules[r].limit
        BY <4>1, <4>5, OverLimit
      <4>7. QED
        BY <4>4, <4>6
    <3>15. Rules[r].limit \in Nat
      BY <3>1, RuleType
    <3>16. QED
      BY <2>5, <3>11, <3>12, <3>13, <3>14, <3>15
  <2>6. QED
    BY <2>1, <2>2, <2>3, <2>4, <2>5
<1>3. ASSUME NEW id \in Identities, NEW now \in 0..MaxNow, Evaluate(id, now)
      PROVE  DeniesOnlyOverLimit'
  <2>1. SUFFICES ASSUME NEW h \in DOMAIN hits', hits'[h].verdict # 0, SortedUpTo(h)'
                 PROVE  Cardinality(Recent(hits[h].verdict, h)') > Rules[hits'[h].verdict].limit
    BY DEF DeniesOnlyOverLimit
  <2>2. PICK r : r = hits'[h].verdict
    OBVIOUS
  <2>3. Cardinality(Recent(r, h)') > Rules[r].limit
    BY <1>2, <1>3, <2>1, <2>2
  <2>4. QED
    BY <2>2, <2>3 DEF Recent
<1>4. QED
  BY <1>1, <1>3 DEF Next

\* What every request preserves, together.
LimiterInvariant ==
    /\ TypeOK /\ TrackedKeysBounded
    /\ CountersFollow /\ AllowedWithin
    /\ ReadingsSorted /\ DeniesOnlyOverLimit

\* In every state the limiters reach, their counters and their history agree.
THEOREM LimiterInvariance == Spec => []LimiterInvariant
<1>1. Init => LimiterInvariant
  BY LimiterInitial DEF LimiterInvariant
<1>2. LimiterInvariant /\ [Next]_vars => LimiterInvariant'
  BY TypeOKNext, TrackedKeysBoundedNext, CountersFollowNext, AllowedWithinNext,
     ReadingsSortedNext, DeniesOnlyOverLimitNext DEF LimiterInvariant
<1>3. QED
  BY <1>1, <1>2, PTL DEF Spec

\* The limiters' tables hold counters of known identities, for any number of
\* rules and identities.
THEOREM LimiterTyped == Spec => []TypeOK
<1>1. LimiterInvariant => TypeOK
  BY DEF LimiterInvariant
<1>2. QED
  BY <1>1, LimiterInvariance, PTL

\* However many identities come by, each limiter tracks at most max_keys.
THEOREM LimiterMemoryBounded == Spec => []TrackedKeysBounded
<1>1. LimiterInvariant => TrackedKeysBounded
  BY DEF LimiterInvariant
<1>2. QED
  BY <1>1, LimiterInvariance, PTL

\* For every window and limit, no trailing window lets through twice the limit
\* of an identity that stays tracked, while its readings are in order.
THEOREM NoDoubleBurst == Spec => []BoundaryBurst
<1>1. LimiterInvariant => BoundaryBurst
  BY BurstWithinLimits DEF LimiterInvariant, BoundaryBurst
<1>2. QED
  BY <1>1, LimiterInvariance, PTL

\* For every set of rules, whoever is denied made more requests than the limit of
\* the rule that the verdict names.
THEOREM NoUnjustDenial == Spec => []DeniesOnlyOverLimit
<1>1. LimiterInvariant => DeniesOnlyOverLimit
  BY DEF LimiterInvariant
<1>2. QED
  BY <1>1, LimiterInvariance, PTL

-----------------------------------------------------------------------------
(***************************************************************************)
(* The distinct-target velocity limiter.                                   *)
(***************************************************************************)

\* The inductive strengthening.  The calls of a in window w after the first n.
CallsIn(a, w, n) ==
    {g \in DOMAIN touches :
        g > n /\ touches[g].actor = a /\ TouchWindow(g) = w}

\* The sketch of a holds registers it hit in the window, and, while the readings
\* are in order, all those it hit there since it is tracked.
SketchHolds(a, w) ==
    /\ actors[a].windowIndex = w
    /\ \A r \in Occupied(actors[a].seen) :
        \E g \in CallsIn(a, w, 0) : r = register[touches[g].target]
    /\ TouchesInOrder(Len(touches)) =>
        /\ CallsIn(a, w, followedFrom[a]) # {}
        /\ \A g \in DOMAIN touches :
            g > followedFrom[a] /\ touches[g].actor = a => TouchWindow(g) <= w
        /\ \A g \in CallsIn(a, w, followedFrom[a]) :
            register[touches[g].target] \in Occupied(actors[a].seen)

SketchesFollow ==
    \A a \in DOMAIN actors : SketchHolds(a, actors[a].windowIndex)

\* Readings that never stepped back never went back.
TouchesSorted ==
    TouchesInOrder(Len(touches)) =>
        \A g, h \in DOMAIN touches : g < h => touches[g].at <= touches[h].at

\* Making room keeps sketches as they are, keeps that of the actor it makes room
\* for, and leaves space for one more.
LEMMA AdmittedProperty ==
    ASSUME VelocityTypeOK, NEW a \in Actors, NEW table \in AdmittedActors(a)
    PROVE  /\ DOMAIN table \subseteq DOMAIN actors
           /\ \A b \in DOMAIN table : table[b] = actors[b]
           /\ a \in DOMAIN actors => table = actors
           /\ Cardinality(DOMAIN actors) <= MaxActors
                => Cardinality(DOMAIN table \union {a}) <= MaxActors
<1> DEFINE D == DOMAIN actors
<1>1. IsFiniteSet(D) /\ Cardinality(D) \in Nat /\ MaxActors \in Nat
  <2>1. IsFiniteSet(D)
    BY VelocityAssumption, FS_Subset DEF VelocityTypeOK
  <2>2. QED
    BY <2>1, VelocityAssumption, FS_CardinalityType
<1>2. CASE a \notin D /\ Cardinality(D) >= MaxActors
  <2>1. PICK victim \in D : table = Restrict(actors, D \ {victim})
    BY <1>2 DEF AdmittedActors
  <2>2. DOMAIN table = D \ {victim} /\ \A b \in DOMAIN table : table[b] = actors[b]
    BY <2>1 DEF Restrict
  <2>3. ASSUME Cardinality(D) <= MaxActors
        PROVE  Cardinality(DOMAIN table \union {a}) <= MaxActors
    <3> DEFINE R == D \ {victim}
    <3>1. IsFiniteSet(R) /\ Cardinality(R) = Cardinality(D) - 1
      BY <1>1, <2>1, FS_RemoveElement
    <3>2. Cardinality(R \union {a}) = Cardinality(R) + 1
      <4>1. a \notin R
        BY <1>2
      <4> HIDE DEF R
      <4>2. QED
        BY <3>1, <4>1, FS_AddElement
    <3>3. QED
      BY <1>1, <2>2, <2>3, <3>1, <3>2
  <2>4. QED
    BY <1>2, <2>2, <2>3
<1>3. CASE ~ (a \notin D /\ Cardinality(D) >= MaxActors)
  <2>1. table = actors
    BY <1>3 DEF AdmittedActors
  <2>2. ASSUME Cardinality(D) <= MaxActors
        PROVE  Cardinality(D \union {a}) <= MaxActors
    <3>1. Cardinality(D \union {a}) = IF a \in D THEN Cardinality(D) ELSE Cardinality(D) + 1
      BY <1>1, FS_AddElement
    <3>2. QED
      BY <1>1, <1>3, <2>2, <3>1
  <2>3. QED
    BY <2>1, <2>2
<1>4. QED
  BY <1>2, <1>3

\* A fresh sketch is empty.
LEMMA FreshProperty == Fresh \in Sketches /\ Occupied(Fresh) = {}
BY VelocityAssumption DEF Fresh, Sketches, Occupied

\* add() occupies the register of the target.
LEMMA ObservedProperty ==
    ASSUME VelocityTypeOK, NEW seen \in Sketches, NEW t \in Targets
    PROVE  /\ Observed(seen, t) \in Sketches
           /\ Occupied(Observed(seen, t)) = Occupied(seen) \union {register[t]}
<1>1. MaxRank \in Nat
  BY VelocityAssumption
<1>2. PICK g \in Registers : g = register[t]
  BY DEF VelocityTypeOK
<1>3. PICK k \in 1..MaxRank : k = rank[t]
  BY DEF VelocityTypeOK
<1>4. Observed(seen, t) = [seen EXCEPT ![g] = IF k > seen[g] THEN k ELSE seen[g]]
  BY <1>2, <1>3 DEF Observed
<1>5. PICK v \in 0..MaxRank : v = (IF k > seen[g] THEN k ELSE seen[g]) /\ v # 0
  BY <1>1, <1>3 DEF Sketches
<1>6. Observed(seen, t) = [seen EXCEPT ![g] = v]
  BY <1>4, <1>5
<1>7. Observed(seen, t) \in Sketches
  BY <1>5, <1>6 DEF Sketches
<1>8. Occupied(Observed(seen, t)) = Occupied(seen) \union {g}
  BY <1>5, <1>6 DEF Sketches, Occupied
<1>9. QED
  BY <1>2, <1>7, <1>8

\* What check() does: the sketch of the actor is the one of the window with the
\* target's register occupied, no other sketch changes, and the call is decided
\* on that sketch.
Checked(a, t, now, w, seen) ==
    /\ Occupied(seen) = Occupied(SeenInWindow(actors, a, w)) \union {register[t]}
    /\ register[t] \in Registers
    /\ DOMAIN actors' \subseteq DOMAIN actors \union {a}
    /\ a \in DOMAIN actors'
    /\ actors'[a] = [windowIndex |-> w, seen |-> seen]
    /\ \A b \in DOMAIN actors' \ {a} :
        b \in DOMAIN actors /\ actors'[b] = actors[b]
    /\ Cardinality(DOMAIN actors) <= MaxActors
        => Cardinality(DOMAIN actors') <= MaxActors
    /\ touches' = Append(touches,
            [actor |-> a, target |-> t, at |-> now,
             decision |-> IF Flagged(seen) THEN "Deny" ELSE "Allow"])

\* Whatever actor is evicted, check() does that.
LEMMA CheckStep ==
    ASSUME VelocityTypeOK, NEW a \in Actors, NEW t \in Targets, NEW now \in 0..MaxReading,
           Check(a, t, now), NEW w, w = now \div WindowMs
    PROVE  \E seen \in Sketches : Checked(a, t, now, w, seen)
<1>1. PICK table \in AdmittedActors(a) :
        LET seen == Observed(SeenInWindow(table, a, w), t)
        IN  /\ actors' = [b \in DOMAIN table \union {a} |->
                            IF b = a THEN [windowIndex |-> w, seen |-> seen]
                            ELSE table[b]]
            /\ touches' = Append(touches,
                    [actor |-> a, target |-> t, at |-> now,
                     decision |-> IF Flagged(seen) THEN "Deny" ELSE "Allow"])
  BY DEF Check
<1>2. /\ DOMAIN table \subseteq DOMAIN actors
      /\ \A b \in DOMAIN table : table[b] = actors[b]
      /\ a \in DOMAIN actors => table = actors
      /\ Cardinality(DOMAIN actors) <= MaxActors
            => Cardinality(DOMAIN table \union {a}) <= MaxActors
  BY AdmittedProperty
<1>3. SeenInWindow(table, a, w) = SeenInWindow(actors, a, w)
  BY <1>2 DEF SeenInWindow
<1>4. register[t] \in Registers
  BY DEF VelocityTypeOK
<1>5. SeenInWindow(actors, a, w) \in Sketches
  BY FreshProperty DEF SeenInWindow, VelocityTypeOK
<1>6. PICK seen \in Sketches :
        /\ seen = Observed(SeenInWindow(actors, a, w), t)
        /\ Occupied(seen) = Occupied(SeenInWindow(actors, a, w)) \union {register[t]}
  BY <1>5, ObservedProperty
<1>7. Observed(SeenInWindow(table, a, w), t) = seen
  BY <1>3, <1>6
<1>8. /\ actors' = [b \in DOMAIN table \union {a} |->
                            IF b = a THEN [windowIndex |-> w, seen |-> seen]
                            ELSE table[b]]
      /\ touches' = Append(touches,
                    [actor |-> a, target |-> t, at |-> now,
                     decision |-> IF Flagged(seen) THEN "Deny" ELSE "Allow"])
  BY <1>1, <1>7
<1>9. /\ DOMAIN actors' = DOMAIN table \union {a}
      /\ actors'[a] = [windowIndex |-> w, seen |-> seen]
      /\ \A b \in DOMAIN table \ {a} : actors'[b] = table[b]
  BY <1>8
<1>10. QED
  BY <1>2, <1>4, <1>6, <1>8, <1>9 DEF Checked

\* The call a step adds to the history.
Touched(a, t, now, w, n) ==
    /\ touches' \in Seq(Touch)
    /\ Len(touches) \in Nat /\ Len(touches') = n
    /\ DOMAIN touches = 1..Len(touches) /\ DOMAIN touches' = 1..n
    /\ DOMAIN touches' = DOMAIN touches \union {n}
    /\ \A g \in DOMAIN touches :
         touches'[g] = touches[g] /\ TouchWindow(g)' = TouchWindow(g)
    /\ \A g \in DOMAIN touches' :
         touches'[g].at \in Nat /\ TouchWindow(g)' \in Nat /\ touches'[g].target \in Targets
    /\ touches'[n].actor = a /\ touches'[n].target = t /\ touches'[n].at = now
    /\ TouchWindow(n)' = w
    /\ w \in Nat
    /\ register' = register /\ rank' = rank
    /\ \A b \in Actors : followedFrom'[b] =
         IF b = a /\ a \notin DOMAIN actors THEN Len(touches) ELSE followedFrom[b]

\* check() appends one call to the history.
LEMMA TouchesStep ==
    ASSUME VelocityTypeOK, NEW a \in Actors, NEW t \in Targets, NEW now \in 0..MaxReading,
           Check(a, t, now), NEW w, w = now \div WindowMs, NEW n, n = Len(touches) + 1
    PROVE  Touched(a, t, now, w, n)
<1>1. PICK seen \in Sketches : Checked(a, t, now, w, seen)
  BY CheckStep
<1> DEFINE call == [actor |-> a, target |-> t, at |-> now,
                    decision |-> IF Flagged(seen) THEN "Deny" ELSE "Allow"]
<1>2. call \in Touch
  BY DEF Touch
<1>3. call.actor = a /\ call.target = t /\ call.at = now
  OBVIOUS
<1>4. touches \in Seq(Touch)
  BY DEF VelocityTypeOK
<1> HIDE DEF call
<1>5. /\ touches' \in Seq(Touch)
      /\ Len(touches) \in Nat /\ Len(touches') = n
      /\ DOMAIN touches = 1..Len(touches) /\ DOMAIN touches' = 1..n
      /\ \A g \in DOMAIN touches : touches'[g] = touches[g]
      /\ touches'[n] = call
  BY <1>1, <1>2, <1>4 DEF call, Checked
<1>6. DOMAIN touches' = DOMAIN touches \union {n}
  BY <1>5
<1>7. \A g \in DOMAIN touches' : touches'[g].at \in Nat /\ touches'[g].target \in Targets
  <2>1. \A g \in DOMAIN touches' : touches'[g] \in Touch
    BY <1>5
  <2>2. QED
    BY <2>1 DEF Touch
<1>8. \A g \in DOMAIN touches' : TouchWindow(g)' \in Nat
  <2>1. WindowMs \in Nat /\ WindowMs # 0
    BY VelocityAssumption
  <2>2. QED
    BY <1>7, <2>1 DEF TouchWindow
<1>9. \A g \in DOMAIN touches : TouchWindow(g)' = TouchWindow(g)
  BY <1>5 DEF TouchWindow
<1>10. TouchWindow(n)' = w
  BY <1>3, <1>5 DEF TouchWindow
<1>11. w \in Nat
  BY <1>6, <1>8, <1>10
<1>12. /\ register' = register /\ rank' = rank
       /\ \A b \in Actors : followedFrom'[b] =
            IF b = a /\ a \notin DOMAIN actors THEN Len(touches) ELSE followedFrom[b]
  BY DEF Check, VelocityTypeOK
<1>13. QED
  BY <1>3, <1>5, <1>6, <1>7, <1>8, <1>9, <1>10, <1>11, <1>12 DEF Touched

\* Every call leaves the limiter and its history in their types.
LEMMA VelocityTypeOKNext ==
    VelocityTypeOK /\ [VelocityNext]_velocityVars => VelocityTypeOK'
<1> SUFFICES ASSUME VelocityTypeOK, [VelocityNext]_velocityVars PROVE VelocityTypeOK'
  OBVIOUS
<1>1. CASE UNCHANGED velocityVars
  BY <1>1 DEF VelocityTypeOK, velocityVars
<1>2. ASSUME NEW a \in Actors, NEW t \in Targets, NEW now \in 0..MaxReading, Check(a, t, now)
      PROVE  VelocityTypeOK'
  <2>1. PICK w : w = now \div WindowMs
    OBVIOUS
  <2>2. PICK seen \in Sketches : Checked(a, t, now, w, seen)
    BY <1>2, <2>1, CheckStep
  <2>3. /\ touches' \in Seq(Touch) /\ Len(touches) \in Nat /\ Len(touches') = Len(touches) + 1
        /\ w \in Nat /\ register' = register /\ rank' = rank
    <3>1. PICK n : n = Len(touches) + 1
      OBVIOUS
    <3>2. Touched(a, t, now, w, n)
      BY <1>2, <2>1, <3>1, TouchesStep
    <3>3. QED
      BY <3>1, <3>2 DEF Touched
  <2>4. DOMAIN actors' \subseteq Actors
    BY <2>2 DEF VelocityTypeOK, Checked
  <2>5. \A b \in DOMAIN actors' : actors'[b] \in [windowIndex: Nat, seen: Sketches]
    BY <2>2, <2>3, SMTT(30) DEF VelocityTypeOK, Checked
  <2>6. followedFrom' \in [Actors -> 0..Len(touches')]
    BY <1>2, <2>3 DEF Check, VelocityTypeOK
  <2>7. QED
    BY <2>3, <2>4, <2>5, <2>6 DEF VelocityTypeOK
<1>3. QED
  BY <1>1, <1>2 DEF VelocityNext

\* Earlier calls keep their order.
LEMMA OrderStep ==
    ASSUME VelocityTypeOK, NEW a \in Actors, NEW t \in Targets, NEW now \in 0..MaxReading,
           Check(a, t, now)
    PROVE  /\ \A h \in DOMAIN touches : TouchesInOrder(h)' <=> TouchesInOrder(h)
           /\ TouchesInOrder(Len(touches))' => TouchesInOrder(Len(touches))
           /\ TouchesInOrder(Len(touches))' =>
                \A g \in DOMAIN touches : touches'[g].at <= touches'[g + 1].at
<1>1. /\ Len(touches) \in Nat /\ Len(touches') = Len(touches) + 1
      /\ DOMAIN touches = 1..Len(touches)
      /\ \A g \in DOMAIN touches : touches'[g] = touches[g]
  BY TouchesStep DEF Touched
<1>2. \A h \in DOMAIN touches : \A g \in 1..(h - 1) :
        g \in DOMAIN touches /\ g + 1 \in DOMAIN touches
  BY <1>1
<1>3. \A h \in DOMAIN touches : TouchesInOrder(h)' <=> TouchesInOrder(h)
  BY <1>1, <1>2 DEF TouchesInOrder
<1>4. ASSUME TouchesInOrder(Len(touches))'
      PROVE  /\ TouchesInOrder(Len(touches))
             /\ \A g \in DOMAIN touches : touches'[g].at <= touches'[g + 1].at
  <2>1. \A g \in 1..Len(touches) : touches'[g].at <= touches'[g + 1].at
    BY <1>1, <1>4 DEF TouchesInOrder
  <2>2. \A g \in 1..(Len(touches) - 1) : g \in DOMAIN touches /\ g + 1 \in DOMAIN touches
    BY <1>1
  <2>3. QED
    BY <1>1, <2>1, <2>2 DEF TouchesInOrder
<1>5. QED
  BY <1>3, <1>4

\* Readings that are sorted one by one are sorted.
LEMMA TouchesSortedNext ==
    VelocityTypeOK /\ TouchesSorted /\ [VelocityNext]_velocityVars => TouchesSorted'
<1> SUFFICES ASSUME VelocityTypeOK, TouchesSorted, [VelocityNext]_velocityVars
             PROVE  TouchesSorted'
  OBVIOUS
<1>1. CASE UNCHANGED velocityVars
  BY <1>1 DEF TouchesSorted, TouchesInOrder, velocityVars
<1>2. ASSUME NEW a \in Actors, NEW t \in Targets, NEW now \in 0..MaxReading, Check(a, t, now),
             TouchesInOrder(Len(touches))',
             NEW g \in DOMAIN touches', NEW h \in DOMAIN touches', g < h
      PROVE  touches'[g].at <= touches'[h].at
  <2>1. PICK n : n = Len(touches) + 1
    OBVIOUS
  <2>2. /\ Len(touches) \in Nat
        /\ DOMAIN touches = 1..Len(touches) /\ DOMAIN touches' = 1..n
        /\ \A f \in DOMAIN touches : touches'[f] = touches[f]
        /\ \A f \in DOMAIN touches' : touches'[f].at \in Nat
    BY <1>2, <2>1, TouchesStep DEF Touched
  <2>3. /\ TouchesInOrder(Len(touches))
        /\ \A f \in DOMAIN touches : touches'[f].at <= touches'[f + 1].at
    BY <1>2, OrderStep
  <2>4. \A e, f \in DOMAIN touches : e < f => touches[e].at <= touches[f].at
    BY <2>3 DEF TouchesSorted
  <2>5. CASE h \in DOMAIN touches
    BY <1>2, <2>1, <2>2, <2>4, <2>5
  <2>6. CASE h = n
    <3>1. g \in DOMAIN touches /\ Len(touches) \in DOMAIN touches /\ g <= Len(touches)
      BY <1>2, <2>1, <2>2, <2>6
    <3>2. touches'[g].at <= touches'[Len(touches)].at
      <4>1. CASE g = Len(touches)
        BY <2>1, <2>2, <3>1, <4>1
      <4>2. CASE g # Len(touches)
        BY <2>2, <2>4, <3>1, <4>2
      <4>3. QED
        BY <4>1, <4>2
    <3>3. touches'[Len(touches)].at <= touches'[h].at
      BY <2>1, <2>3, <2>6, <3>1
    <3>4. touches'[g].at \in Nat /\ touches'[Len(touches)].at \in Nat /\ touches'[h].at \in Nat
      BY <2>1, <2>2, <3>1
    <3>5. QED
      BY <3>2, <3>3, <3>4
  <2>7. QED
    BY <2>1, <2>2, <2>5, <2>6
<1>3. ASSUME NEW a \in Actors, NEW t \in Targets, NEW now \in 0..MaxReading, Check(a, t, now)
      PROVE  TouchesSorted'
  BY <1>2, <1>3 DEF TouchesSorted
<1>4. QED
  BY <1>1, <1>3 DEF VelocityNext

\* No call makes the limiter track more actors than it may.
LEMMA TrackedActorsBoundedNext ==
    VelocityTypeOK /\ TrackedActorsBounded /\ [VelocityNext]_velocityVars
        => TrackedActorsBounded'
<1> SUFFICES ASSUME VelocityTypeOK, TrackedActorsBounded, [VelocityNext]_velocityVars
             PROVE  TrackedActorsBounded'
  OBVIOUS
<1>1. CASE UNCHANGED velocityVars
  BY <1>1 DEF TrackedActorsBounded, velocityVars
<1>2. ASSUME NEW a \in Actors, NEW t \in Targets, NEW now \in 0..MaxReading, Check(a, t, now)
      PROVE  TrackedActorsBounded'
  <2>1. PICK w : w = now \div WindowMs
    OBVIOUS
  <2>2. PICK seen \in Sketches : Checked(a, t, now, w, seen)
    BY <1>2, <2>1, CheckStep
  <2>3. QED
    BY <2>2 DEF Checked, TrackedActorsBounded
<1>3. QED
  BY <1>1, <1>2 DEF VelocityNext

\* The calls of a step's actor in a window.
LEMMA CallsStep ==
    ASSUME VelocityTypeOK, NEW a \in Actors, NEW t \in Targets, NEW now \in 0..MaxReading,
           Check(a, t, now), NEW w, w = now \div WindowMs, NEW n, n = Len(touches) + 1,
           NEW v, NEW m
    PROVE  CallsIn(a, v, m)' = CallsIn(a, v, m) \union
                                (IF v = w /\ n > m THEN {n} ELSE {})
<1>1. /\ DOMAIN touches' = DOMAIN touches \union {n}
      /\ DOMAIN touches = 1..Len(touches) /\ Len(touches) \in Nat
      /\ \A g \in DOMAIN touches : touches'[g] = touches[g] /\ TouchWindow(g)' = TouchWindow(g)
      /\ touches'[n].actor = a /\ TouchWindow(n)' = w
  <2>1. Touched(a, t, now, w, n)
    BY TouchesStep
  <2>2. QED
    BY <2>1 DEF Touched
<1>2. n \notin DOMAIN touches
  BY <1>1
<1>3. \A g : g \in CallsIn(a, v, m)' <=>
            g \in CallsIn(a, v, m) \/ (g = n /\ v = w /\ n > m)
  BY <1>1, <1>2 DEF CallsIn
<1>4. QED
  BY <1>3

\* Every call leaves the sketches with what they should have seen.
LEMMA SketchesFollowNext ==
    /\ VelocityTypeOK /\ SketchesFollow /\ TouchesSorted'
    /\ [VelocityNext]_velocityVars
    => SketchesFollow'
<1> SUFFICES ASSUME VelocityTypeOK, SketchesFollow, TouchesSorted',
                    [VelocityNext]_velocityVars
             PROVE  SketchesFollow'
  OBVIOUS
<1>1. CASE UNCHANGED velocityVars
  <2>1. /\ actors' = actors /\ register' = register
        /\ touches' = touches /\ followedFrom' = followedFrom
    BY <1>1 DEF velocityVars
  <2>2. \A g : TouchWindow(g)' = TouchWindow(g)
    BY <2>1 DEF TouchWindow
  <2>3. \A b, w, m : CallsIn(b, w, m)' = CallsIn(b, w, m)
    BY <2>1, <2>2 DEF CallsIn
  <2>4. TouchesInOrder(Len(touches))' = TouchesInOrder(Len(touches))
    BY <2>1 DEF TouchesInOrder
  <2>5. \A s : Occupied(s)' = Occupied(s)
    BY DEF Occupied
  <2>6. ASSUME NEW b, NEW w PROVE SketchHolds(b, w)' = SketchHolds(b, w)
    BY <2>1, <2>2, <2>3, <2>4, <2>5, ZenonT(60) DEF SketchHolds
  <2>7. QED
    BY <2>1, <2>6, Zenon DEF SketchesFollow
<1>2. ASSUME NEW a \in Actors, NEW t \in Targets, NEW now \in 0..MaxReading, Check(a, t, now),
             NEW w, w = now \div WindowMs, NEW n, n = Len(touches) + 1
      PROVE  SketchHolds(a, w)'
  <2>1. PICK seen \in Sketches : Checked(a, t, now, w, seen)
    BY <1>2, CheckStep
  <2>2. Touched(a, t, now, w, n)
    BY <1>2, TouchesStep
  <2>3. actors'[a].windowIndex = w /\ actors'[a].seen = seen
    BY <2>1 DEF Checked
  <2>4. Len(touches) \in Nat /\ n \in Nat /\ n > 0 /\ n > Len(touches)
    BY <1>2, <2>2 DEF Touched
  <2>5. \A m : n > m => n \in CallsIn(a, w, m)'
    BY <1>2, CallsStep
  <2>6. \A m : CallsIn(a, w, m) \subseteq CallsIn(a, w, m)'
    BY <1>2, CallsStep
  <2>7. ASSUME NEW r \in Occupied(seen)
        PROVE  \E g \in CallsIn(a, w, 0)' : r = register'[touches'[g].target]
    <3>1. CASE r = register[t]
      BY <2>2, <2>4, <2>5, <3>1 DEF Touched
    <3>2. CASE r # register[t]
      <4>1. a \in DOMAIN actors /\ actors[a].windowIndex = w
            /\ r \in Occupied(actors[a].seen)
        <5>1. r \in Occupied(SeenInWindow(actors, a, w))
          BY <2>1, <2>7, <3>2 DEF Checked
        <5>2. QED
          BY <5>1, FreshProperty DEF SeenInWindow
      <4>2. PICK g \in CallsIn(a, w, 0) : r = register[touches[g].target]
        BY <4>1 DEF SketchesFollow, SketchHolds
      <4>3. g \in CallsIn(a, w, 0)' /\ touches'[g] = touches[g] /\ register' = register
        BY <2>2, <2>6 DEF Touched, CallsIn
      <4>4. QED
        BY <4>2, <4>3
    <3>3. QED
      BY <3>1, <3>2
  <2>8. ASSUME TouchesInOrder(Len(touches))'
        PROVE  /\ CallsIn(a, w, followedFrom[a])' # {}
               /\ \A g \in DOMAIN touches' :
                    g > followedFrom'[a] /\ touches'[g].actor = a => TouchWindow(g)' <= w
               /\ \A g \in CallsIn(a, w, followedFrom[a])' :
                    register'[touches'[g].target] \in Occupied(actors'[a].seen)
    <3>1. TouchesInOrder(Len(touches))
      BY <1>2, <2>8, OrderStep
    <3>2. \A g \in DOMAIN touches' : g < n => touches'[g].at <= touches'[n].at
      BY <2>2, <2>8 DEF TouchesSorted, Touched
    <3>3. \A g \in DOMAIN touches : TouchWindow(g)' <= w /\ TouchWindow(g) <= w
      <4>1. ASSUME NEW g \in DOMAIN touches
            PROVE  TouchWindow(g)' <= w
        <5>1. g \in DOMAIN touches' /\ g < n /\ touches'[n].at = now /\ now \in Nat
          BY <1>2, <2>2, <4>1 DEF Touched
        <5>2. touches'[g].at \in Nat /\ touches'[g].at <= now
          BY <2>2, <3>2, <5>1 DEF Touched
        <5>3. WindowMs \in Nat /\ WindowMs # 0
          BY VelocityAssumption
        <5>4. touches'[g].at \div WindowMs <= now \div WindowMs
          BY <5>1, <5>2, <5>3, DivMonotone
        <5>5. QED
          BY <1>2, <5>4 DEF TouchWindow
      <4>2. QED
        BY <2>2, <4>1 DEF Touched
    <3>4. PICK m : m = followedFrom'[a]
      OBVIOUS
    <3>5. n > m
      <4>1. followedFrom[a] \in 0..Len(touches)
        BY DEF VelocityTypeOK
      <4>2. QED
        BY <2>2, <2>4, <3>4, <4>1 DEF Touched
    <3>6. CallsIn(a, w, followedFrom[a])' = CallsIn(a, w, m)'
      BY <3>4 DEF CallsIn
    <3>7. n \in CallsIn(a, w, m)'
      BY <2>5, <3>5
    <3>8. \A g \in DOMAIN touches' : TouchWindow(g)' <= w
      <4>1. w \in Nat /\ w <= w
        BY <2>2 DEF Touched
      <4>2. QED
        BY <2>2, <3>3, <4>1 DEF Touched
    <3>9. ASSUME NEW g \in CallsIn(a, w, m)', g # n
          PROVE  register'[touches'[g].target] \in Occupied(seen)
      <4>1. /\ g \in CallsIn(a, w, m)
            /\ g \in DOMAIN touches /\ g > m
            /\ touches[g].actor = a /\ TouchWindow(g) = w
        <5>1. g \in CallsIn(a, w, m)
          BY <1>2, <3>9, CallsStep
        <5>2. QED
          BY <5>1 DEF CallsIn
      <4>2. a \in DOMAIN actors /\ m = followedFrom[a]
        <5>1. g <= Len(touches) /\ g \in Nat
          BY <2>2, <4>1 DEF Touched
        <5>2. m # Len(touches)
          BY <2>4, <4>1, <5>1
        <5>3. QED
          BY <2>2, <3>4, <5>2 DEF Touched
      <4>3. PICK v : v = actors[a].windowIndex
        OBVIOUS
      <4>4. /\ CallsIn(a, v, m) # {}
            /\ \A f \in DOMAIN touches :
                f > m /\ touches[f].actor = a => TouchWindow(f) <= v
            /\ \A f \in CallsIn(a, v, m) : register[touches[f].target] \in Occupied(actors[a].seen)
        BY <3>1, <4>2, <4>3 DEF SketchesFollow, SketchHolds
      <4>5. v <= w /\ w <= v
        <5>1. PICK f \in CallsIn(a, v, m) : TRUE
          BY <4>4
        <5>2. f \in DOMAIN touches /\ TouchWindow(f) = v
          BY <5>1 DEF CallsIn
        <5>3. QED
          BY <3>3, <4>1, <4>4, <5>2
      <4>6. v = w
        <5>1. v \in Nat /\ w \in Nat
          BY <2>2, <4>2, <4>3 DEF Touched, VelocityTypeOK
        <5>2. QED
          BY <4>5, <5>1
      <4>7. register[touches[g].target] \in Occupied(actors[a].seen)
        BY <4>1, <4>4, <4>6
      <4>8. Occupied(actors[a].seen) \subseteq Occupied(seen)
        BY <2>1, <4>2, <4>3, <4>6 DEF Checked, SeenInWindow
      <4>9. QED
        BY <2>2, <4>1, <4>7, <4>8 DEF Touched
    <3>10. register'[touches'[n].target] \in Occupied(seen)
      BY <2>1, <2>2 DEF Touched, Checked
    <3>11. QED
      BY <2>3, <3>4, <3>6, <3>7, <3>8, <3>9, <3>10
  <2>9. QED
    BY <2>3, <2>7, <2>8 DEF SketchHolds
<1>3. ASSUME NEW a \in Actors, NEW t \in Targets, NEW now \in 0..MaxReading, Check(a, t, now),
             NEW b \in DOMAIN actors', b # a, NEW v, v = actors'[b].windowIndex
      PROVE  SketchHolds(b, v)'
  <2>1. PICK w : w = now \div WindowMs
    OBVIOUS
  <2>2. PICK n : n = Len(touches) + 1
    OBVIOUS
  <2>3. PICK seen \in Sketches : Checked(a, t, now, w, seen)
    BY <1>3, <2>1, CheckStep
  <2>4. Touched(a, t, now, w, n)
    BY <1>3, <2>1, <2>2, TouchesStep
  <2>5. b \in DOMAIN actors /\ actors'[b] = actors[b] /\ b \in Actors
    BY <1>3, <2>3 DEF Checked, VelocityTypeOK
  <2>6. SketchHolds(b, v)
    BY <1>3, <2>5 DEF SketchesFollow
  <2>7. ASSUME NEW m
        PROVE  CallsIn(b, v, m)' = CallsIn(b, v, m)
    <3>1. n \notin DOMAIN touches
      BY <2>2, <2>4 DEF Touched
    <3>2. \A g : g \in CallsIn(b, v, m)' <=> g \in CallsIn(b, v, m)
      BY <1>3, <2>4, <3>1 DEF Touched, CallsIn
    <3>3. QED
      BY <3>2
  <2>8. followedFrom'[b] = followedFrom[b] /\ register' = register
    BY <1>3, <2>4, <2>5 DEF Touched
  <2>9. \A m : \A g \in CallsIn(b, v, m) : touches'[g] = touches[g]
    BY <2>4 DEF Touched, CallsIn
  <2>10. \A r \in Occupied(actors'[b].seen) : \E g \in CallsIn(b, v, 0)' : r = register'[touches'[g].target]
    BY <2>5, <2>6, <2>7, <2>8, <2>9 DEF SketchHolds
  <2>11. CallsIn(b, v, followedFrom[b])' = CallsIn(b, v, followedFrom[b])
    <3>1. PICK m : m = followedFrom[b]
      OBVIOUS
    <3>2. CallsIn(b, v, m)' = CallsIn(b, v, m)
      BY <2>7
    <3>3. QED
      BY <2>8, <3>1, <3>2 DEF CallsIn
  <2>12. ASSUME TouchesInOrder(Len(touches))'
         PROVE  /\ CallsIn(b, v, followedFrom[b])' # {}
                /\ \A g \in DOMAIN touches' :
                     g > followedFrom'[b] /\ touches'[g].actor = b => TouchWindow(g)' <= v
                /\ \A g \in CallsIn(b, v, followedFrom[b])' :
                     register'[touches'[g].target] \in Occupied(actors'[b].seen)
    <3>1. TouchesInOrder(Len(touches))
      BY <1>3, <2>12, OrderStep
    <3>2. /\ CallsIn(b, v, followedFrom[b]) # {}
          /\ \A g \in DOMAIN touches :
               g > followedFrom[b] /\ touches[g].actor = b => TouchWindow(g) <= v
          /\ \A g \in CallsIn(b, v, followedFrom[b]) :
               register[touches[g].target] \in Occupied(actors[b].seen)
      BY <2>6, <3>1 DEF SketchHolds
    <3>3. \A g \in DOMAIN touches' :
            g > followedFrom'[b] /\ touches'[g].actor = b => TouchWindow(g)' <= v
      BY <1>3, <2>4, <2>8, <3>2 DEF Touched
    <3>4. \A g \in CallsIn(b, v, followedFrom[b])' :
            register'[touches'[g].target] \in Occupied(actors'[b].seen)
      BY <2>5, <2>8, <2>9, <2>11, <3>2
    <3>5. QED
      BY <2>11, <3>2, <3>3, <3>4
  <2>13. QED
    BY <1>3, <2>10, <2>12 DEF SketchHolds
<1>4. ASSUME NEW a \in Actors, NEW t \in Targets, NEW now \in 0..MaxReading, Check(a, t, now),
             NEW b \in DOMAIN actors'
      PROVE  SketchHolds(b, actors[b].windowIndex)'
  <2>1. PICK v : v = actors'[b].windowIndex
    OBVIOUS
  <2>2. SketchHolds(b, v)'
    <3>1. CASE b = a
      <4>1. PICK w : w = now \div WindowMs
        OBVIOUS
      <4>2. PICK n : n = Len(touches) + 1
        OBVIOUS
      <4>3. SketchHolds(a, w)'
        BY <1>2, <1>4, <4>1, <4>2
      <4>4. v = w
        BY <2>1, <3>1, <4>3 DEF SketchHolds
      <4>5. QED
        BY <3>1, <4>3, <4>4
    <3>2. CASE b # a
      BY <1>3, <1>4, <2>1, <3>2
    <3>3. QED
      BY <3>1, <3>2
  <2>3. QED
    BY <2>1, <2>2 DEF SketchHolds, CallsIn
<1>5. ASSUME NEW a \in Actors, NEW t \in Targets, NEW now \in 0..MaxReading, Check(a, t, now)
      PROVE  SketchesFollow'
  BY <1>4, <1>5 DEF SketchesFollow
<1>6. QED
  BY <1>1, <1>5 DEF VelocityNext

\* A set that a function covers from a finite one is no larger than that one.
LEMMA CoveredBy ==
    ASSUME NEW S, IsFiniteSet(S), NEW f, NEW T, \A y \in T : \E x \in S : y = f[x]
    PROVE  IsFiniteSet(T) /\ Cardinality(T) <= Cardinality(S)
<1> DEFINE I == {f[x] : x \in S}
           g == [x \in S |-> f[x]]
<1>1. g \in Surjection(S, I)
  BY DEF Surjection
<1>2. T \in SUBSET I
  OBVIOUS
<1> HIDE DEF I, g
<1>3. IsFiniteSet(I) /\ Cardinality(I) <= Cardinality(S)
  BY <1>1, FS_Surjection
<1>4. IsFiniteSet(T) /\ Cardinality(T) <= Cardinality(I)
  BY <1>2, <1>3, FS_Subset
<1>5. Cardinality(S) \in Nat /\ Cardinality(I) \in Nat /\ Cardinality(T) \in Nat
  BY <1>3, <1>4, FS_CardinalityType
<1>6. QED
  BY <1>3, <1>4, <1>5

\* The last call is decided on what the limiter has just seen.
LEMMA DecisionStep ==
    ASSUME VelocityTypeOK, SketchesFollow',
           NEW a \in Actors, NEW t \in Targets, NEW now \in 0..MaxReading,
           Check(a, t, now), NEW w, w = now \div WindowMs, NEW n, n = Len(touches) + 1
    PROVE  /\ SketchHolds(a, w)'
           /\ actors'[a].seen \in Sketches
           /\ Occupied(actors'[a].seen) # {}
           /\ touches'[n].decision = IF Flagged(actors'[a].seen) THEN "Deny" ELSE "Allow"
<1>1. PICK seen \in Sketches : Checked(a, t, now, w, seen)
  BY CheckStep
<1>2. a \in DOMAIN actors' /\ actors'[a].windowIndex = w /\ actors'[a].seen = seen
  BY <1>1 DEF Checked
<1>3. SketchHolds(a, w)'
  <2>1. SketchHolds(a, actors[a].windowIndex)'
    BY <1>2 DEF SketchesFollow
  <2>2. QED
    BY <1>2, <2>1 DEF SketchHolds, CallsIn
<1>4. touches'[n].decision = IF Flagged(seen) THEN "Deny" ELSE "Allow"
  <2> DEFINE call == [actor |-> a, target |-> t, at |-> now,
                      decision |-> IF Flagged(seen) THEN "Deny" ELSE "Allow"]
  <2>1. call \in Touch
    BY DEF Touch
  <2>2. call.decision = IF Flagged(seen) THEN "Deny" ELSE "Allow"
    OBVIOUS
  <2>3. touches' = Append(touches, call) /\ touches \in Seq(Touch)
    BY <1>1 DEF Checked, VelocityTypeOK
  <2> HIDE DEF call
  <2>4. touches'[n] = call
    BY <2>1, <2>3
  <2>5. QED
    BY <2>2, <2>4
<1>5. Occupied(seen) # {}
  BY <1>1 DEF Checked
<1>6. QED
  BY <1>2, <1>3, <1>4, <1>5

\* A call is denied only for targets its actor touched in the window.
LEMMA RepeatsNeverFlaggedNext ==
    /\ VelocityTypeOK /\ SketchesFollow' /\ RepeatsNeverFlagged
    /\ [VelocityNext]_velocityVars
    => RepeatsNeverFlagged'
<1> SUFFICES ASSUME VelocityTypeOK, SketchesFollow', RepeatsNeverFlagged,
                    [VelocityNext]_velocityVars
             PROVE  RepeatsNeverFlagged'
  OBVIOUS
<1>1. CASE UNCHANGED velocityVars
  BY <1>1 DEF RepeatsNeverFlagged, TouchedBy, SameWindow, TouchWindow, velocityVars
<1>2. ASSUME NEW a \in Actors, NEW t \in Targets, NEW now \in 0..MaxReading, Check(a, t, now),
             NEW h \in DOMAIN touches', touches'[h].decision = "Deny"
      PROVE  \/ Cardinality(TouchedBy(h)') >= MaxDistinct
             \/ Cardinality(TouchedBy(h)') >= Accurate
  <2>1. PICK w : w = now \div WindowMs
    OBVIOUS
  <2>2. PICK n : n = Len(touches) + 1
    OBVIOUS
  <2>3. Touched(a, t, now, w, n)
    BY <1>2, <2>1, <2>2, TouchesStep
  <2>4. CASE h \in DOMAIN touches
    <3>1. \A g \in 1..h : g \in DOMAIN touches
      BY <2>3, <2>4 DEF Touched
    <3>2. TouchedBy(h)' = TouchedBy(h)
      <4>1. \A g \in 1..h : SameWindow(h, g)' <=> SameWindow(h, g)
        BY <2>3, <2>4, <3>1 DEF Touched, SameWindow
      <4>2. \A x : x \in TouchedBy(h)' <=> x \in TouchedBy(h)
        BY <2>3, <3>1, <4>1, ZenonT(60) DEF Touched, TouchedBy
      <4>3. QED
        BY <4>2
    <3>3. touches[h].decision = "Deny"
      BY <1>2, <2>3, <2>4 DEF Touched
    <3>4. QED
      BY <2>4, <3>2, <3>3 DEF RepeatsNeverFlagged
  <2>5. CASE h = n
    <3>1. PICK seen : seen = actors'[a].seen
      OBVIOUS
    <3>2. PICK by : by = TouchedBy(n)'
      OBVIOUS
    <3>3. SketchHolds(a, w)' /\ Flagged(seen) /\ seen \in Sketches
      BY <1>2, <2>1, <2>2, <2>5, <3>1, DecisionStep
    <3>4. PICK full : full = Occupied(seen)
      OBVIOUS
    <3>5. \A r \in full : \E x \in by : r = register[x]
      <4>1. SUFFICES ASSUME NEW r \in full PROVE \E x \in by : r = register[x]
        OBVIOUS
      <4>2. PICK g \in CallsIn(a, w, 0)' : r = register'[touches'[g].target]
        BY <3>1, <3>3, <3>4 DEF SketchHolds
      <4>3. g \in 1..n /\ touches'[g].actor = a /\ TouchWindow(g)' = w
        BY <2>3, <4>2 DEF CallsIn, Touched
      <4>4. SameWindow(n, g)'
        BY <2>3, <4>3 DEF Touched, SameWindow
      <4>5. touches'[g].target \in by
        BY <3>2, <4>3, <4>4 DEF TouchedBy
      <4>6. QED
        BY <2>3, <4>2, <4>5 DEF Touched
    <3>6. IsFiniteSet(by)
      <4> DEFINE target == [g \in 1..n |-> touches'[g].target]
      <4>1. IsFiniteSet(1..n)
        <5>1. n \in Nat
          BY <2>2, <2>3 DEF Touched
        <5>2. QED
          BY <5>1, FS_Interval
      <4>2. \A x \in by : \E g \in 1..n : x = target[g]
        BY <3>2 DEF TouchedBy
      <4> HIDE DEF target
      <4>3. QED
        BY <4>1, <4>2, CoveredBy
    <3>7. Cardinality(full) <= Cardinality(by) /\ IsFiniteSet(full)
      BY <3>5, <3>6, CoveredBy
    <3>8. Cardinality(full) \in Nat /\ Cardinality(by) \in Nat /\ MaxDistinct \in Nat
      BY <3>6, <3>7, FS_CardinalityType, VelocityAssumption
    <3>9. PICK e \in Nat : e > MaxDistinct /\ (Cardinality(full) < 45 => e <= Cardinality(full) + 1)
      BY <3>3, <3>4, VelocityAssumption DEF Flagged, Accurate
    <3>10. Cardinality(by) >= MaxDistinct \/ Cardinality(by) >= 45
      BY <3>7, <3>8, <3>9
    <3>11. QED
      BY <2>5, <3>2, <3>10 DEF Accurate
  <2>6. QED
    BY <2>3, <2>4, <2>5 DEF Touched
<1>3. ASSUME NEW a \in Actors, NEW t \in Targets, NEW now \in 0..MaxReading, Check(a, t, now)
      PROVE  RepeatsNeverFlagged'
  BY <1>2, <1>3 DEF RepeatsNeverFlagged
<1>4. QED
  BY <1>1, <1>3 DEF VelocityNext

\* A tracked actor that hit more registers than its budget is denied.
LEMMA DistinctFloodFlaggedNext ==
    /\ VelocityTypeOK /\ SketchesFollow' /\ DistinctFloodFlagged
    /\ [VelocityNext]_velocityVars
    => DistinctFloodFlagged'
<1> SUFFICES ASSUME VelocityTypeOK, SketchesFollow', DistinctFloodFlagged,
                    [VelocityNext]_velocityVars
             PROVE  DistinctFloodFlagged'
  OBVIOUS
<1>1. CASE UNCHANGED velocityVars
  BY <1>1 DEF DistinctFloodFlagged, HitSince, TouchesInOrder, SameWindow, TouchWindow,
              velocityVars
<1>2. ASSUME NEW a \in Actors, NEW t \in Targets, NEW now \in 0..MaxReading, Check(a, t, now),
             NEW h \in DOMAIN touches', TouchesInOrder(h)',
             Cardinality(HitSince(h)') > MaxDistinct
      PROVE  touches'[h].decision = "Deny"
  <2>1. PICK w : w = now \div WindowMs
    OBVIOUS
  <2>2. PICK n : n = Len(touches) + 1
    OBVIOUS
  <2>3. Touched(a, t, now, w, n)
    BY <1>2, <2>1, <2>2, TouchesStep
  <2>4. PICK hit : hit = HitSince(h)'
    OBVIOUS
  <2>5. IsFiniteSet(Registers) /\ MaxDistinct \in Nat
    BY VelocityAssumption
  <2>6. CASE h \in DOMAIN touches
    <3>1. PICK past : past = HitSince(h)
      OBVIOUS
    <3>2. \A g \in 1..h : g \in DOMAIN touches
      BY <2>3, <2>6 DEF Touched
    <3>3. touches[h].actor \in Actors
      <4>1. touches[h] \in Touch
        BY <2>6 DEF VelocityTypeOK
      <4>2. QED
        BY <4>1 DEF Touch
    <3>4. \A g \in 1..h : touches[g].target \in Targets
      <4>1. \A g \in 1..h : touches[g] \in Touch
        BY <3>2 DEF VelocityTypeOK
      <4>2. QED
        BY <4>1 DEF Touch
    <3>5. past \in SUBSET Registers
      BY <3>1, <3>4 DEF HitSince, VelocityTypeOK
    <3>6. ASSUME NEW g \in 1..h, g > followedFrom'[touches[h].actor]
          PROVE  g > followedFrom[touches[h].actor]
      <4>1. /\ followedFrom[touches[h].actor] \in 0..Len(touches)
            /\ Len(touches) \in Nat /\ DOMAIN touches = 1..Len(touches)
        BY <2>3, <3>3 DEF VelocityTypeOK, Touched
      <4>2. g \in 1..Len(touches)
        BY <3>2, <4>1
      <4>3. \/ followedFrom'[touches[h].actor] = Len(touches)
            \/ followedFrom'[touches[h].actor] = followedFrom[touches[h].actor]
        BY <2>3, <3>3 DEF Touched
      <4>4. QED
        BY <3>6, <4>1, <4>2, <4>3
    <3>7. \A g \in 1..h : SameWindow(h, g)' <=> SameWindow(h, g)
      BY <2>3, <2>6, <3>2 DEF Touched, SameWindow
    <3>8. touches'[h] = touches[h] /\ register' = register
          /\ \A g \in 1..h : touches'[g] = touches[g]
      BY <2>3, <2>6, <3>2 DEF Touched
    <3>9. hit \in SUBSET past
      BY <2>4, <3>1, <3>6, <3>7, <3>8 DEF HitSince
    <3>10. Cardinality(past) > MaxDistinct
      <4>1. IsFiniteSet(past)
        BY <2>5, <3>5, FS_Subset
      <4>2. IsFiniteSet(hit) /\ Cardinality(hit) <= Cardinality(past)
        BY <3>9, <4>1, FS_Subset
      <4>3. Cardinality(hit) \in Nat /\ Cardinality(past) \in Nat
        BY <4>1, <4>2, FS_CardinalityType
      <4>4. QED
        BY <1>2, <2>4, <2>5, <4>2, <4>3
    <3>11. TouchesInOrder(h)
      BY <1>2, <2>6, OrderStep
    <3>12. QED
      BY <2>6, <3>1, <3>8, <3>10, <3>11 DEF DistinctFloodFlagged
  <2>7. CASE h = n
    <3>1. PICK seen : seen = actors'[a].seen
      OBVIOUS
    <3>2. /\ SketchHolds(a, w)' /\ seen \in Sketches
          /\ touches'[n].decision = IF Flagged(seen) THEN "Deny" ELSE "Allow"
      BY <1>2, <2>1, <2>2, <3>1, DecisionStep
    <3>3. TouchesInOrder(Len(touches))'
      BY <1>2, <2>3, <2>7 DEF Touched, TouchesInOrder
    <3>4. \A g \in CallsIn(a, w, followedFrom[a])' : register'[touches'[g].target] \in Occupied(seen)
      BY <3>1, <3>2, <3>3 DEF SketchHolds
    <3>5. \A g \in 1..n : SameWindow(n, g)' /\ g > followedFrom'[a]
                            => g \in CallsIn(a, w, followedFrom[a])'
      BY <2>3 DEF Touched, SameWindow, CallsIn
    <3>6. hit \in SUBSET Occupied(seen)
      <4>1. touches'[n].actor = a
        BY <2>3 DEF Touched
      <4>2. QED
        BY <2>4, <2>7, <3>4, <3>5, <4>1 DEF HitSince
    <3>7. Estimated[seen] > MaxDistinct
      <4>1. PICK full \in SUBSET Registers : full = Occupied(seen)
        BY DEF Occupied
      <4>2. IsFiniteSet(full)
        BY <2>5, <4>1, FS_Subset
      <4>3. IsFiniteSet(hit) /\ Cardinality(hit) <= Cardinality(full)
        BY <3>6, <4>1, <4>2, FS_Subset
      <4>4. Cardinality(hit) \in Nat /\ Cardinality(full) \in Nat
        BY <4>2, <4>3, FS_CardinalityType
      <4>5. Cardinality(full) > MaxDistinct
        BY <1>2, <2>4, <2>5, <4>3, <4>4
      <4>6. PICK e \in Nat : e = Estimated[seen] /\ (Cardinality(full) > 0 => e > Cardinality(full))
        BY <3>2, <4>1, VelocityAssumption
      <4>7. QED
        BY <2>5, <4>4, <4>5, <4>6
    <3>8. QED
      BY <2>7, <3>2, <3>7 DEF Flagged
  <2>8. QED
    BY <2>3, <2>6, <2>7 DEF Touched
<1>3. ASSUME NEW a \in Actors, NEW t \in Targets, NEW now \in 0..MaxReading, Check(a, t, now)
      PROVE  DistinctFloodFlagged'
  BY <1>2, <1>3 DEF DistinctFloodFlagged
<1>4. QED
  BY <1>1, <1>3 DEF VelocityNext

\* What every call preserves, together.
VelocityInvariant ==
    /\ VelocityTypeOK /\ TrackedActorsBounded
    /\ TouchesSorted /\ SketchesFollow
    /\ DistinctFloodFlagged /\ RepeatsNeverFlagged

\* A limiter that has seen nobody satisfies it.
LEMMA VelocityInitial == VelocityInit => VelocityInvariant
<1> SUFFICES ASSUME VelocityInit PROVE VelocityInvariant
  OBVIOUS
<1>1. /\ DOMAIN actors = {} /\ DOMAIN touches = {}
      /\ touches \in Seq(Touch) /\ Len(touches) = 0
      /\ register \in [Targets -> Registers] /\ rank \in [Targets -> 1..MaxRank]
      /\ followedFrom = [a \in Actors |-> 0]
  BY DEF VelocityInit
<1>2. VelocityTypeOK
  BY <1>1 DEF VelocityTypeOK
<1>3. TrackedActorsBounded
  <2>1. Cardinality({}) = 0
    BY FS_EmptySet
  <2>2. QED
    BY <1>1, <2>1, VelocityAssumption DEF TrackedActorsBounded
<1>4. TouchesSorted /\ SketchesFollow
  BY <1>1 DEF TouchesSorted, SketchesFollow
<1>5. DistinctFloodFlagged /\ RepeatsNeverFlagged
  BY <1>1 DEF DistinctFloodFlagged, RepeatsNeverFlagged
<1>6. QED
  BY <1>2, <1>3, <1>4, <1>5 DEF VelocityInvariant

\* In every state the velocity limiter reaches, its sketches and its history
\* agree.
THEOREM VelocityInvariance == VelocitySpec => []VelocityInvariant
<1>1. VelocityInvariant /\ [VelocityNext]_velocityVars => VelocityInvariant'
  <2> SUFFICES ASSUME VelocityInvariant, [VelocityNext]_velocityVars PROVE VelocityInvariant'
    OBVIOUS
  <2>1. VelocityTypeOK' /\ TrackedActorsBounded' /\ TouchesSorted'
    BY VelocityTypeOKNext, TrackedActorsBoundedNext, TouchesSortedNext DEF VelocityInvariant
  <2>2. SketchesFollow'
    BY <2>1, SketchesFollowNext DEF VelocityInvariant
  <2>3. QED
    BY <2>1, <2>2, DistinctFloodFlaggedNext, RepeatsNeverFlaggedNext DEF VelocityInvariant
<1>2. QED
  BY <1>1, VelocityInitial, PTL DEF VelocitySpec

\* However many actors come by, check() tracks at most max_actors of them.
THEOREM VelocityMemoryBounded == VelocitySpec => []TrackedActorsBounded
<1>1. VelocityInvariant => TrackedActorsBounded
  BY DEF VelocityInvariant
<1>2. QED
  BY <1>1, VelocityInvariance, PTL

\* For every budget and every hash, an actor that stays tracked is denied once
\* its targets in the window hit more registers than its budget.
THEOREM FloodsAreDenied == VelocitySpec => []DistinctFloodFlagged
<1>1. VelocityInvariant => DistinctFloodFlagged
  BY DEF VelocityInvariant
<1>2. QED
  BY <1>1, VelocityInvariance, PTL

\* For every hash, every budget and every order of evictions, whoever is denied
\* touched at least max_distinct targets in the window, or at least 45.
THEOREM RepeatsAreAllowed == VelocitySpec => []RepeatsNeverFlagged
<1>1. VelocityInvariant => RepeatsNeverFlagged
  BY DEF VelocityInvariant
<1>2. QED
  BY <1>1, VelocityInvariance, PTL

-----------------------------------------------------------------------------
(***************************************************************************)
(* Proof of work.                                                          *)
(***************************************************************************)

\* The inductive strengthening.  The challenge that is followed is the one its
\* client, request and moment derive, and no submission since is older.
IssuedHolds ==
    issued # Nothing =>
        /\ issued.id \in ClientIds /\ issued.hash \in RequestHashes
        /\ issued.at \in Nat /\ issued.at <= powNow
        /\ issued.overage \in Overages
        /\ issued.difficulty = DifficultyFor(issued.overage)
        /\ issued.challenge =
            DeriveChallengeAt(issued.id, issued.hash, issued.at \div PowWindowMs)
        /\ verified # Nothing => issued.at <= verified.at

\* Every digest was computed for a challenge of those it was computed for.
DigestsHold ==
    /\ DOMAIN drawnFor = DOMAIN digest
    /\ \A e \in DOMAIN digest :
        /\ digest[e] \in Digests
        /\ drawnFor[e].id \in ClientIds /\ drawnFor[e].hash \in RequestHashes
        /\ drawnFor[e].window \in Nat
        /\ e.challenge = DeriveChallengeAt(drawnFor[e].id, drawnFor[e].hash,
                                           drawnFor[e].window)

\* What verify() computes the digest of for a submission, in window w.
Submitted(w) ==
    [challenge |-> DeriveChallengeAt(verified.id, verified.hash, w),
     nonce |-> verified.nonce]

\* The last submission was judged on the digests of its windows, which stay.
VerifiedHolds ==
    verified # Nothing =>
        /\ verified.id \in ClientIds /\ verified.hash \in RequestHashes
        /\ verified.at \in Nat /\ verified.overage \in Overages
        /\ \A w \in Windows(verified.at) : Submitted(w) \in DOMAIN digest
        /\ verified.accepted <=>
            \E w \in Windows(verified.at) :
                LeadingZeroBits(digest[Submitted(w)]) >= DifficultyFor(verified.overage)

PowInvariant == powNow \in Nat /\ IssuedHolds /\ DigestsHold /\ VerifiedHolds


\* The windows verify() accepts at a reading: they began less than two windows
\* before it, and the window of a reading at most window_ms before is one.
LEMMA WindowsProperty ==
    ASSUME NEW now \in Nat
    PROVE  /\ \A w \in Windows(now) :
                /\ w \in Nat
                /\ w * PowWindowMs <= now
                /\ w * PowWindowMs + 2 * PowWindowMs > now
           /\ \A at \in Nat : at <= now /\ now <= at + PowWindowMs
                => at \div PowWindowMs \in Windows(now)
<1> DEFINE k == PowWindowMs
           q == now \div k
           r == now % k
<1>1. k \in Nat /\ k # 0
  BY PowAssumption
<1>2. q \in Nat /\ r \in 0..(k - 1) /\ now = (k * q) + r
  BY <1>1
<1>3. Windows(now) = {q, IF q = 0 THEN 0 ELSE q - 1}
  BY DEF Windows
<1>4. \A at \in Nat : at <= now /\ now <= at + k
        => /\ at \div k \in Nat /\ at \div k <= q
           /\ q <= at \div k + 1
  BY <1>1, DivMonotone, DivNext
<1> HIDE DEF k, q, r
<1>5. ASSUME NEW w \in Windows(now)
      PROVE  w \in Nat /\ w * k <= now /\ w * k + 2 * k > now
  <2>1. CASE w = q
    <3>1. w * k = k * q /\ k * q \in Nat
      BY <1>1, <1>2, <2>1
    <3>2. QED
      BY <1>1, <1>2, <2>1, <3>1
  <2>2. CASE q # 0 /\ w = q - 1
    <3>1. w \in Nat /\ q = w + 1
      BY <1>2, <2>2
    <3>2. w * k = k * w /\ k * q = k * w + k /\ k * w \in Nat
      BY <1>1, <3>1
    <3>3. QED
      BY <1>1, <1>2, <3>1, <3>2
  <2>3. QED
    BY <1>3, <1>5, <2>1, <2>2
<1>6. ASSUME NEW at \in Nat, at <= now, now <= at + k
      PROVE  at \div k \in Windows(now)
  <2> DEFINE v == at \div k
  <2>1. v \in Nat /\ v <= q /\ q <= v + 1
    BY <1>4, <1>6
  <2> HIDE DEF v
  <2>2. v = q \/ (q # 0 /\ v = q - 1)
    BY <1>2, <2>1
  <2>3. v \in Windows(now)
    BY <1>3, <2>2
  <2>4. QED
    BY <2>3 DEF v
<1>7. QED
  BY <1>5, <1>6 DEF k

\* Whoever is further over the limit is asked for at least as much work.
LEMMA DifficultyMonotone ==
    ASSUME NEW m \in Nat, NEW n \in Nat, m <= n
    PROVE  DifficultyFor(m) \in Nat /\ DifficultyFor(n) \in Nat
           /\ DifficultyFor(m) <= DifficultyFor(n)
<1> DEFINE x == (4 * m) \div 8
           y == (4 * n) \div 8
<1>1. x \in Nat /\ y \in Nat /\ x <= y
  OBVIOUS
<1> HIDE DEF x, y
<1> DEFINE S == {x, 20}
           T == {y, 20}
           s == Min(S)
           t == Min(T)
<1>2. s \in S /\ \A i \in S : s <= i
  <2>1. S \in SUBSET Nat /\ S # {}
    BY <1>1
  <2>2. QED
    BY <2>1, MinProperty
<1>3. t \in T /\ \A i \in T : t <= i
  <2>1. T \in SUBSET Nat /\ T # {}
    BY <1>1
  <2>2. QED
    BY <2>1, MinProperty
<1>4. s \in Nat /\ t \in Nat /\ s <= t
  <2> HIDE DEF s, t
  <2>1. QED
    BY <1>1, <1>2, <1>3
<1>5. Base \in Nat
  BY PowAssumption
<1>6. DifficultyFor(m) = Min({255, Base + s}) /\ DifficultyFor(n) = Min({255, Base + t})
  BY DEF DifficultyFor, x, y
<1> HIDE DEF s, t, S, T
<1> DEFINE U == {255, Base + s}
           V == {255, Base + t}
           u == Min(U)
           v == Min(V)
<1>7. u \in U /\ \A i \in U : u <= i
  <2>1. U \in SUBSET Nat /\ U # {}
    BY <1>4, <1>5
  <2>2. QED
    BY <2>1, MinProperty
<1>8. v \in V /\ \A i \in V : v <= i
  <2>1. V \in SUBSET Nat /\ V # {}
    BY <1>4, <1>5
  <2>2. QED
    BY <2>1, MinProperty
<1>9. u \in Nat /\ v \in Nat /\ u <= v
  <2> HIDE DEF u, v
  <2>1. QED
    BY <1>4, <1>5, <1>7, <1>8
<1>10. QED
  BY <1>6, <1>9

\* Digests have a number of leading zero bits.
LEMMA LeadingZeroBitsType ==
    ASSUME NEW dg \in Digests
    PROVE  LeadingZeroBits(dg) \in Nat
<1>1. dg \in [1..32 -> 0..255]
  BY PowAssumption
<1>2. Len(dg) \in Nat
  <2> DEFINE Byte == 0..255
  <2>1. dg \in [1..32 -> Byte] /\ 32 \in Nat
    BY <1>1
  <2> HIDE DEF Byte
  <2>2. dg \in UNION {[1..n -> Byte] : n \in Nat}
    BY <2>1
  <2>3. dg \in Seq(Byte)
    BY <2>2, SeqDef
  <2>4. QED
    BY <2>3
<1>3. \A b : ByteZeros(b) \in Nat
  <2>1. SUFFICES ASSUME NEW b PROVE ByteZeros(b) \in Nat
    OBVIOUS
  <2> DEFINE S == {n \in 0..7 : b < 2^n}
  <2>2. S \in SUBSET (0..7)
    BY Zenon
  <2> HIDE DEF S
  <2>3. Cardinality(S) \in Nat
    <3>1. 0 \in Int /\ 7 \in Int
      OBVIOUS
    <3>2. IsFiniteSet(0..7)
      BY <3>1, FS_Interval
    <3>3. IsFiniteSet(S)
      BY <2>2, <3>2, FS_Subset
    <3>4. QED
      BY <3>3, FS_CardinalityType
  <2>4. QED
    BY <2>3 DEF S, ByteZeros
<1> DEFINE others == {i \in DOMAIN dg : dg[i] # 0}
<1>4. ASSUME others # {} PROVE Min(others) \in 1..32
  <2>1. others \in SUBSET (1..32)
    BY <1>1
  <2> HIDE DEF others
  <2>2. others \in SUBSET Nat
    BY <2>1
  <2>3. Min(others) \in others
    BY <1>4, <2>2, MinProperty
  <2>4. QED
    BY <2>1, <2>3
<1>5. CASE others = {}
  BY <1>2, <1>5 DEF LeadingZeroBits
<1>6. CASE others # {}
  <2>1. LeadingZeroBits(dg) = 8 * (Min(others) - 1) + ByteZeros(dg[Min(others)])
    BY <1>6 DEF LeadingZeroBits
  <2> HIDE DEF others
  <2>2. QED
    BY <1>3, <1>4, <1>6, <2>1
<1>7. QED
  BY <1>5, <1>6

\* Where the message m that build_hmac_message puts together holds what.
PartsOf(m, id, hash, w) ==
    /\ Len(m) = Len(id) + 1 + Len(hash)
    /\ \A i \in 1..Len(id) : m[i] = id[i]
    /\ m[Len(id) + 1] = w
    /\ \A i \in 1..Len(hash) : m[Len(id) + 1 + i] = hash[i]

\* It holds them one after the other.
LEMMA ChallengeParts ==
    ASSUME NEW id \in ClientIds, NEW hash \in RequestHashes, NEW w \in Nat
    PROVE  PartsOf(DeriveChallengeAt(id, hash, w), id, hash, w)
<1>1. id \in Seq(Nat) /\ hash \in Seq(Nat)
  BY PowAssumption
<1>2. QED
  BY <1>1 DEF DeriveChallengeAt, PartsOf

\* The message tells clients, windows and requests apart, although identities
\* are of any length.
LEMMA ChallengeInjective ==
    ASSUME NEW id \in ClientIds, NEW hash \in RequestHashes, NEW w \in Nat,
           NEW id2 \in ClientIds, NEW hash2 \in RequestHashes, NEW w2 \in Nat,
           DeriveChallengeAt(id, hash, w) = DeriveChallengeAt(id2, hash2, w2)
    PROVE  id = id2 /\ hash = hash2 /\ w = w2
<1>1. /\ id \in Seq(Nat) /\ hash \in Seq(Nat) /\ id2 \in Seq(Nat) /\ hash2 \in Seq(Nat)
      /\ Len(hash) = Len(hash2)
  BY PowAssumption
<1>2. PICK m : m = DeriveChallengeAt(id, hash, w) /\ m = DeriveChallengeAt(id2, hash2, w2)
  OBVIOUS
<1>3. PartsOf(m, id, hash, w) /\ PartsOf(m, id2, hash2, w2)
  BY <1>2, ChallengeParts
<1>4. Len(id) = Len(id2)
  BY <1>1, <1>3 DEF PartsOf
<1>5. w = w2
  BY <1>3, <1>4 DEF PartsOf
<1>6. id = id2
  <2>1. \A i \in 1..Len(id) : id[i] = id2[i]
    BY <1>3, <1>4 DEF PartsOf
  <2>2. QED
    BY <1>1, <1>4, <2>1, SeqEqual
<1>7. hash = hash2
  <2>1. \A i \in 1..Len(hash) : hash[i] = hash2[i]
    BY <1>1, <1>3, <1>4 DEF PartsOf
  <2>2. QED
    BY <1>1, <2>1, SeqEqual
<1>8. QED
  BY <1>5, <1>6, <1>7

\* What computing digests does: those of before stay, and the others are those
\* of the computations.
Drawn(computed) ==
    /\ DOMAIN digest \subseteq DOMAIN digest'
    /\ \A e \in DOMAIN digest : digest'[e] = digest[e] /\ drawnFor'[e] = drawnFor[e]
    /\ \A w \in DOMAIN computed : computed[w] \in DOMAIN digest'

\* The computations for the windows of a client's request draw that, and leave
\* the digests with what they were computed for.
LEMMA DrawStep ==
    ASSUME DigestsHold, NEW id \in ClientIds, NEW hash \in RequestHashes, NEW computed,
           DOMAIN computed \subseteq Nat,
           \A w \in DOMAIN computed : computed[w].challenge = DeriveChallengeAt(id, hash, w),
           Draw(id, hash, computed)
    PROVE  Drawn(computed) /\ DigestsHold'
<1> DEFINE new == {computed[w] : w \in DOMAIN computed} \ DOMAIN digest
           D == DOMAIN digest \union new
<1>1. PICK drawn \in [new -> Digests] :
        digest' = [e \in D |-> IF e \in new THEN drawn[e] ELSE digest[e]]
  BY DEF Draw
<1>2. drawnFor' = [e \in D |->
            IF e \in new
            THEN [id |-> id, hash |-> hash,
                  window |-> CHOOSE w \in DOMAIN computed : computed[w] = e]
            ELSE drawnFor[e]]
  BY DEF Draw
<1>3. \A w \in DOMAIN computed : computed[w] \in D
  OBVIOUS
<1>4. \A e \in new : e \notin DOMAIN digest /\ \E w \in DOMAIN computed : computed[w] = e
  OBVIOUS
<1>5. \A e \in DOMAIN digest : e \notin new /\ e \in D
  OBVIOUS
<1>6. \A e \in D : e \in DOMAIN digest \/ e \in new
  OBVIOUS
<1>7. new \subseteq D
  OBVIOUS
<1> HIDE DEF new, D
<1>8. DOMAIN digest' = D /\ DOMAIN drawnFor' = D
  BY <1>1, <1>2
<1>9. \A e \in DOMAIN digest : digest'[e] = digest[e] /\ drawnFor'[e] = drawnFor[e]
  BY <1>1, <1>2, <1>5
<1>10. ASSUME NEW e \in D
       PROVE  /\ digest'[e] \in Digests
              /\ drawnFor'[e].id \in ClientIds /\ drawnFor'[e].hash \in RequestHashes
              /\ drawnFor'[e].window \in Nat
              /\ e.challenge = DeriveChallengeAt(drawnFor'[e].id, drawnFor'[e].hash,
                                                 drawnFor'[e].window)
  <2>1. CASE e \in DOMAIN digest
    BY <1>9, <2>1 DEF DigestsHold
  <2>2. CASE e \in new
    <3>1. PICK v : v = CHOOSE w \in DOMAIN computed : computed[w] = e
      OBVIOUS
    <3>2. v \in DOMAIN computed /\ computed[v] = e
      BY <1>4, <2>2, <3>1
    <3>3. drawnFor'[e] = [id |-> id, hash |-> hash, window |-> v]
      BY <1>2, <1>7, <2>2, <3>1
    <3>4. drawnFor'[e].id = id /\ drawnFor'[e].hash = hash /\ drawnFor'[e].window = v
      BY <3>3
    <3>5. digest'[e] \in Digests
      BY <1>1, <1>7, <2>2
    <3>6. v \in Nat /\ e.challenge = DeriveChallengeAt(id, hash, v)
      BY <3>2
    <3>7. QED
      BY <3>4, <3>5, <3>6
  <2>3. QED
    BY <1>6, <1>10, <2>1, <2>2
<1>11. Drawn(computed)
  BY <1>3, <1>5, <1>8, <1>9 DEF Drawn
<1>12. DigestsHold'
  BY <1>8, <1>10 DEF DigestsHold
<1>13. QED
  BY <1>11, <1>12

\* A submission that is not replaced stays judged as its digests say.
LEMMA SubmissionStays ==
    ASSUME VerifiedHolds, verified' = verified, DOMAIN digest \subseteq DOMAIN digest',
           \A e \in DOMAIN digest : digest'[e] = digest[e]
    PROVE  VerifiedHolds'
<1>1. \A w : Submitted(w)' = Submitted(w)
  BY DEF Submitted
<1>2. CASE verified = Nothing
  BY <1>2 DEF VerifiedHolds
<1>3. CASE verified # Nothing
  <2>1. PICK W : W = Windows(verified.at)
    OBVIOUS
  <2>2. \A w \in W : Submitted(w) \in DOMAIN digest
    BY <1>3, <2>1 DEF VerifiedHolds
  <2>3. \A w \in W : digest'[Submitted(w)'] = digest[Submitted(w)]
                       /\ Submitted(w)' \in DOMAIN digest'
    BY <1>1, <2>2
  <2>4. /\ verified.id \in ClientIds /\ verified.hash \in RequestHashes
        /\ verified.at \in Nat /\ verified.overage \in Overages
        /\ verified.accepted <=>
            \E w \in W :
                LeadingZeroBits(digest[Submitted(w)]) >= DifficultyFor(verified.overage)
    BY <1>3, <2>1 DEF VerifiedHolds
  <2>5. verified.accepted <=>
            \E w \in W :
                LeadingZeroBits(digest'[Submitted(w)']) >= DifficultyFor(verified.overage)
    BY <2>3, <2>4
  <2>6. Windows(verified'.at) = W
    BY <2>1
  <2>7. QED
    BY <2>3, <2>4, <2>5, <2>6 DEF VerifiedHolds
<1>4. QED
  BY <1>2, <1>3

\* A challenge is derived from its client, its request and its moment.
LEMMA IssueStep ==
    ASSUME PowInvariant, NEW id \in ClientIds, NEW hash \in RequestHashes,
           NEW overage \in Overages, IssueChallenge(id, hash, overage)
    PROVE  PowInvariant'
<1>1. /\ issued' = [kind |-> "challenge", id |-> id, hash |-> hash, at |-> powNow,
                    overage |-> overage, difficulty |-> DifficultyFor(overage),
                    challenge |-> DeriveChallengeAt(id, hash, powNow \div PowWindowMs)]
      /\ verified' = Nothing
      /\ powNow' = powNow /\ digest' = digest /\ drawnFor' = drawnFor
  BY DEF IssueChallenge
<1>2. powNow \in Nat /\ powNow <= powNow
  BY DEF PowInvariant
<1>3. /\ issued'.id = id /\ issued'.hash = hash /\ issued'.at = powNow
      /\ issued'.overage = overage /\ issued'.difficulty = DifficultyFor(overage)
      /\ issued'.challenge = DeriveChallengeAt(id, hash, powNow \div PowWindowMs)
  BY <1>1
<1>4. IssuedHolds'
  BY <1>1, <1>2, <1>3 DEF IssuedHolds
<1>5. DigestsHold'
  BY <1>1 DEF PowInvariant, DigestsHold
<1>6. VerifiedHolds'
  BY <1>1 DEF VerifiedHolds
<1>7. QED
  BY <1>1, <1>2, <1>4, <1>5, <1>6 DEF PowInvariant

\* A client computes digests of its own challenge.
LEMMA TryStep ==
    ASSUME PowInvariant, NEW nonce \in Nonces, TryNonce(nonce)
    PROVE  PowInvariant'
<1> DEFINE w == issued.at \div PowWindowMs
           try == [challenge |-> issued.challenge, nonce |-> nonce]
           computed == [v \in {w} |-> try]
<1>1. /\ issued # Nothing
      /\ Draw(issued.id, issued.hash, computed)
      /\ powNow' = powNow /\ issued' = issued /\ verified' = verified
  BY DEF TryNonce
<1>2. /\ issued.id \in ClientIds /\ issued.hash \in RequestHashes /\ issued.at \in Nat
      /\ issued.challenge = DeriveChallengeAt(issued.id, issued.hash, w)
  BY <1>1 DEF PowInvariant, IssuedHolds
<1>3. w \in Nat
  <2>1. PowWindowMs \in Nat /\ PowWindowMs # 0
    BY PowAssumption
  <2>2. QED
    BY <1>2, <2>1
<1>4. try.challenge = issued.challenge
  OBVIOUS
<1> HIDE DEF w, try
<1>5. /\ DOMAIN computed \subseteq Nat
      /\ \A v \in DOMAIN computed :
            computed[v].challenge = DeriveChallengeAt(issued.id, issued.hash, v)
  BY <1>2, <1>3, <1>4
<1> HIDE DEF computed
<1>6. Drawn(computed) /\ DigestsHold'
  BY <1>1, <1>2, <1>5, DrawStep DEF PowInvariant
<1>7. VerifiedHolds'
  BY <1>1, <1>6, SubmissionStays DEF Drawn, PowInvariant
<1>8. IssuedHolds'
  BY <1>1 DEF PowInvariant, IssuedHolds
<1>9. QED
  BY <1>1, <1>6, <1>7, <1>8 DEF PowInvariant

\* verify() judges a submission on the digests of its windows.
LEMMA VerifyStep ==
    ASSUME PowInvariant, NEW id \in ClientIds, NEW hash \in RequestHashes,
           NEW nonce \in Nonces, NEW overage \in Overages, Verify(id, hash, nonce, overage)
    PROVE  PowInvariant'
<1> DEFINE W == Windows(powNow)
           computed == Computed(id, hash, nonce, W)
           passed == \E w \in W :
                        LeadingZeroBits(digest'[computed[w]]) >= DifficultyFor(overage)
<1>1. DOMAIN computed = W
  BY DEF Computed
<1>2. \A w \in W :
        computed[w] = [challenge |-> DeriveChallengeAt(id, hash, w), nonce |-> nonce]
  BY DEF Computed
<1>3. \A w \in W : computed[w].challenge = DeriveChallengeAt(id, hash, w)
  <2>1. SUFFICES ASSUME NEW w \in W
                 PROVE  computed[w].challenge = DeriveChallengeAt(id, hash, w)
    OBVIOUS
  <2>2. PICK m : m = DeriveChallengeAt(id, hash, w)
    OBVIOUS
  <2>3. PICK e : e = computed[w]
    OBVIOUS
  <2>4. e = [challenge |-> m, nonce |-> nonce]
    BY <1>2, <2>1, <2>2, <2>3
  <2>5. e.challenge = m
    BY <2>4
  <2>6. QED
    BY <2>2, <2>3, <2>5
<1>4. /\ Draw(id, hash, computed)
      /\ verified' = [kind |-> "submission", id |-> id, hash |-> hash,
                      nonce |-> nonce, at |-> powNow, overage |-> overage,
                      accepted |-> passed]
      /\ powNow' = powNow /\ issued' = issued
  BY <1>1 DEF Verify
<1>5. powNow \in Nat
  BY DEF PowInvariant
<1>6. W \subseteq Nat
  BY <1>5, WindowsProperty
<1> HIDE DEF computed
<1>7. Drawn(computed) /\ DigestsHold'
  BY <1>1, <1>3, <1>4, <1>6, DrawStep DEF PowInvariant
<1> HIDE DEF passed
<1>8. /\ verified'.id = id /\ verified'.hash = hash /\ verified'.nonce = nonce
      /\ verified'.at = powNow /\ verified'.overage = overage
      /\ verified'.accepted = passed
  BY <1>4
<1>9. \A w \in W : Submitted(w)' = computed[w]
  BY <1>2, <1>8 DEF Submitted
<1>10. \A w \in W : Submitted(w)' \in DOMAIN digest'
  BY <1>1, <1>7, <1>9 DEF Drawn
<1>11. verified'.accepted <=>
         \E w \in W : LeadingZeroBits(digest'[Submitted(w)']) >= DifficultyFor(overage)
  BY <1>8, <1>9 DEF passed
<1>12. Windows(verified'.at) = W
  BY <1>8
<1>13. VerifiedHolds'
  BY <1>5, <1>8, <1>10, <1>11, <1>12 DEF VerifiedHolds
<1>14. IssuedHolds'
  <2>1. issued # Nothing => issued.at <= verified'.at
    BY <1>8 DEF PowInvariant, IssuedHolds
  <2>2. QED
    BY <1>4, <2>1 DEF PowInvariant, IssuedHolds
<1>15. QED
  BY <1>4, <1>5, <1>7, <1>13, <1>14 DEF PowInvariant

\* In every state, challenges, digests and the last submission agree.
THEOREM PowInvariance == PowSpec => []PowInvariant
<1>1. PowInit => PowInvariant
  BY DEF PowInit, PowInvariant, IssuedHolds, DigestsHold, VerifiedHolds
<1>2. PowInvariant /\ [PowNext]_powVars => PowInvariant'
  <2> SUFFICES ASSUME PowInvariant, [PowNext]_powVars PROVE PowInvariant'
    OBVIOUS
  <2>1. CASE UNCHANGED powVars
    BY <2>1 DEF powVars, PowInvariant, IssuedHolds, DigestsHold, VerifiedHolds, Submitted
  <2>2. CASE AdvancePowClock
    <3>1. /\ powNow \in Nat /\ powNow' = powNow + 1
          /\ issued' = issued /\ verified' = verified
          /\ digest' = digest /\ drawnFor' = drawnFor
      BY <2>2 DEF AdvancePowClock, PowInvariant
    <3>2. IssuedHolds'
      BY <3>1 DEF PowInvariant, IssuedHolds
    <3>3. QED
      BY <3>1, <3>2 DEF PowInvariant, DigestsHold, VerifiedHolds, Submitted
  <2>3. QED
    BY <2>1, <2>2, IssueStep, TryStep, VerifyStep DEF PowNext
<1>3. QED
  BY <1>1, <1>2, PTL DEF PowSpec

\* For every clock, every request and every outcome of the hash, a nonce that
\* solves the challenge passes verify() for window_ms.
THEOREM SolutionsPass == PowSpec => []SolvedAccepted
<1>1. PowInvariant => SolvedAccepted
  <2> DEFINE mine == [challenge |-> issued.challenge, nonce |-> verified.nonce]
  <2>1. SUFFICES ASSUME PowInvariant, issued # Nothing, verified # Nothing,
                        verified.id = issued.id, verified.hash = issued.hash,
                        verified.at <= issued.at + PowWindowMs,
                        verified.overage <= issued.overage,
                        mine \in DOMAIN digest,
                        LeadingZeroBits(digest[mine]) >= issued.difficulty
                 PROVE  verified.accepted
    BY DEF SolvedAccepted
  <2>2. /\ issued.at \in Nat /\ issued.overage \in Overages /\ issued.at <= verified.at
        /\ issued.difficulty = DifficultyFor(issued.overage)
        /\ issued.challenge =
            DeriveChallengeAt(issued.id, issued.hash, issued.at \div PowWindowMs)
    BY <2>1 DEF PowInvariant, IssuedHolds
  <2>3. verified.at \in Nat /\ verified.overage \in Overages
    BY <2>1 DEF PowInvariant, VerifiedHolds
  <2>4. PICK w : w = issued.at \div PowWindowMs
    OBVIOUS
  <2>5. w \in Windows(verified.at)
    BY <2>1, <2>2, <2>3, <2>4, WindowsProperty
  <2>6. Submitted(w) = mine
    BY <2>1, <2>2, <2>4 DEF Submitted
  <2> HIDE DEF mine
  <2>7. issued.overage \in Nat /\ verified.overage \in Nat
    BY <2>2, <2>3, PowAssumption
  <2>8. /\ DifficultyFor(verified.overage) \in Nat /\ DifficultyFor(issued.overage) \in Nat
        /\ DifficultyFor(verified.overage) <= DifficultyFor(issued.overage)
    BY <2>1, <2>7, DifficultyMonotone
  <2>9. LeadingZeroBits(digest[mine]) \in Nat
    BY <2>1, LeadingZeroBitsType DEF PowInvariant, DigestsHold
  <2>10. LeadingZeroBits(digest[mine]) >= DifficultyFor(verified.overage)
    BY <2>1, <2>2, <2>8, <2>9
  <2>11. QED
    BY <2>1, <2>5, <2>6, <2>10 DEF PowInvariant, VerifiedHolds
<1>2. QED
  BY <1>1, PowInvariance, PTL

\* For identities of any length, a submission passes only on work that was done
\* for that client and request, in the current or the preceding window.
THEOREM SolutionsAreBound == PowSpec => []AcceptedAsBound
<1>1. PowInvariant => AcceptedAsBound
  <2>1. SUFFICES ASSUME PowInvariant, verified # Nothing, verified.accepted
                 PROVE  \E c \in DOMAIN digest :
                            /\ c.nonce = verified.nonce
                            /\ LeadingZeroBits(digest[c]) >= DifficultyFor(verified.overage)
                            /\ drawnFor[c].id = verified.id
                            /\ drawnFor[c].hash = verified.hash
                            /\ drawnFor[c].window * PowWindowMs + 2 * PowWindowMs > verified.at
                            /\ drawnFor[c].window * PowWindowMs <= verified.at
    BY DEF AcceptedAsBound
  <2>2. /\ verified.id \in ClientIds /\ verified.hash \in RequestHashes
        /\ verified.at \in Nat
        /\ \A w \in Windows(verified.at) : Submitted(w) \in DOMAIN digest
        /\ \E w \in Windows(verified.at) :
                LeadingZeroBits(digest[Submitted(w)]) >= DifficultyFor(verified.overage)
    BY <2>1 DEF PowInvariant, VerifiedHolds
  <2>3. PICK w \in Windows(verified.at) :
            LeadingZeroBits(digest[Submitted(w)]) >= DifficultyFor(verified.overage)
    BY <2>2
  <2>4. /\ w \in Nat
        /\ w * PowWindowMs <= verified.at
        /\ w * PowWindowMs + 2 * PowWindowMs > verified.at
    BY <2>2, WindowsProperty
  <2>5. PICK e : e = Submitted(w)
    OBVIOUS
  <2>6. /\ e.challenge = DeriveChallengeAt(verified.id, verified.hash, w)
        /\ e.nonce = verified.nonce
    BY <2>5 DEF Submitted
  <2>7. e \in DOMAIN digest
    BY <2>2, <2>5
  <2>8. /\ drawnFor[e].id \in ClientIds /\ drawnFor[e].hash \in RequestHashes
        /\ drawnFor[e].window \in Nat
        /\ e.challenge = DeriveChallengeAt(drawnFor[e].id, drawnFor[e].hash,
                                           drawnFor[e].window)
    BY <2>1, <2>7 DEF PowInvariant, DigestsHold
  <2>9. drawnFor[e].id = verified.id /\ drawnFor[e].hash = verified.hash
        /\ drawnFor[e].window = w
    <3>1. PICK id \in ClientIds, hash \in RequestHashes :
            id = verified.id /\ hash = verified.hash
      BY <2>2
    <3>2. PICK id2 \in ClientIds, hash2 \in RequestHashes, w2 \in Nat :
            id2 = drawnFor[e].id /\ hash2 = drawnFor[e].hash /\ w2 = drawnFor[e].window
      BY <2>8
    <3>3. DeriveChallengeAt(id, hash, w) = DeriveChallengeAt(id2, hash2, w2)
      BY <2>6, <2>8, <3>1, <3>2
    <3>4. id = id2 /\ hash = hash2 /\ w = w2
      BY <2>4, <3>3, ChallengeInjective
    <3>5. QED
      BY <3>1, <3>2, <3>4
  <2>10. QED
    BY <2>3, <2>4, <2>5, <2>6, <2>7, <2>9
<1>2. QED
  BY <1>1, PowInvariance, PTL

=============================================================================
