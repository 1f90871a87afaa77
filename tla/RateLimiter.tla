----------------------------- MODULE RateLimiter -----------------------------
(***************************************************************************)
(* The abuse stage (onced-core abuse.rs): a RuleSet of sliding-window      *)
(* limiters over the identities of callers, each tracking a bounded number *)
(* of identities.                                                          *)
(*                                                                         *)
(* The weighted estimate is compared with the limit as a fraction, where   *)
(* the code compares floating-point numbers.                               *)
(***************************************************************************)
EXTENDS Naturals, Sequences, FiniteSets, Functions, SequencesExt

CONSTANTS
    Identities,
    Rules,       \* the rules in insertion order: [window, limit]
    MaxKeys,     \* max_keys of every limiter
    MaxNow,      \* bound: the last reading of the clock
    MaxHits      \* bound: requests

ASSUME LimiterAssumption ==
    /\ IsFiniteSet(Identities)
    /\ Rules \in Seq([window: Nat \ {0}, limit: Nat])
    /\ MaxKeys \in Nat \ {0}
    /\ MaxNow \in Nat
    /\ MaxHits \in Nat

VARIABLES
    counters,   \* for every rule, the WindowCounter of each tracked identity
    \* History, read by no action:
    hits,       \* every request, the rules that allowed it, the verdict
    trackedFrom \* how many requests each rule had seen when it began to track
                \* each identity, the last time it did

vars == <<counters, hits, trackedFrom>>

Counter == [windowIndex: Nat, current: Nat, previous: Nat]

TypeOK ==
    /\ DOMAIN counters = DOMAIN Rules
    /\ \A i \in DOMAIN Rules :
        /\ DOMAIN counters[i] \subseteq Identities
        /\ \A id \in DOMAIN counters[i] : counters[i][id] \in Counter
    /\ hits \in Seq([id: Identities, at: 0..MaxNow,
                     allowedBy: SUBSET DOMAIN Rules, verdict: 0..Len(Rules)])
    /\ trackedFrom \in [DOMAIN Rules -> [Identities -> 0..Len(hits)]]

Init ==
    /\ counters = [i \in DOMAIN Rules |-> <<>>]
    /\ hits = <<>>
    /\ trackedFrom = [i \in DOMAIN Rules |-> [id \in Identities |-> 0]]

-----------------------------------------------------------------------------
\* Mutant of Roll: a fixed window, which forgets the previous one.
RollFixedWindow(c, w) ==
    IF w > c.windowIndex
    THEN [windowIndex |-> w, current |-> 0, previous |-> 0] ELSE c

\* Mutant of Roll: a skipped window does not clear the previous count.
RollWithoutSkip(c, w) ==
    IF w > c.windowIndex
    THEN [windowIndex |-> w, current |-> 0, previous |-> c.current] ELSE c

\* The counter rolled forward to window w.  A reading from an earlier window
\* is counted in the current one.
Roll(c, w) ==
    CASE w = c.windowIndex + 1 ->
            [windowIndex |-> w, current |-> 0, previous |-> c.current]
      [] w > c.windowIndex + 1 ->
            [windowIndex |-> w, current |-> 0, previous |-> 0]
      [] OTHER -> c

\* Whether the estimate of the trailing window is within the limit.
WithinBudget(rule, c, now) ==
    c.current * rule.window + c.previous * (rule.window - (now % rule.window))
        <= rule.limit * rule.window

\* Mutant of RoomFor: eviction starts one identity too late.
RoomForOneMore(table, id) ==
    IF id \notin DOMAIN table /\ Cardinality(DOMAIN table) > MaxKeys
    THEN {Restrict(table, DOMAIN table \ {victim}) : victim \in DOMAIN table}
    ELSE {table}

\* The tables a limiter may have once it has made room for id: at capacity a
\* new identity evicts whichever one the hash map yields first.
RoomFor(table, id) ==
    IF id \notin DOMAIN table /\ Cardinality(DOMAIN table) >= MaxKeys
    THEN {Restrict(table, DOMAIN table \ {victim}) : victim \in DOMAIN table}
    ELSE {table}

\* The counter of id after SlidingWindowLimiter::check recorded a hit.
Recorded(rule, table, id, now) ==
    LET w == now \div rule.window
        found == IF id \in DOMAIN table THEN table[id]
                 ELSE [windowIndex |-> w, current |-> 0, previous |-> 0]
    IN  [Roll(found, w) EXCEPT !.current = @ + 1]

\* Mutant of Verdict: the case where no rule trips is missing.
VerdictAlwaysDenies(allowing) == Cardinality(allowing) + 1

\* The first rule, in insertion order, that is not among the allowing ones; 0
\* if there is none.
Verdict(allowing) ==
    LET denied == DOMAIN Rules \ allowing
    IN  IF denied = {} THEN 0 ELSE Min(denied)

\* RuleSet::evaluate: the request is recorded against every rule, whatever the
\* rules before it decided.
Evaluate(id, now) ==
    /\ Len(hits) < MaxHits
    /\ \E room \in [DOMAIN Rules -> UNION {RoomFor(counters[i], id) : i \in DOMAIN Rules}] :
        /\ \A i \in DOMAIN Rules : room[i] \in RoomFor(counters[i], id)
        /\ counters' = [i \in DOMAIN Rules |->
                [j \in DOMAIN room[i] \union {id} |->
                    IF j = id THEN Recorded(Rules[i], room[i], id, now)
                    ELSE room[i][j]]]
    /\ LET allowing == {i \in DOMAIN Rules :
                            WithinBudget(Rules[i], counters'[i][id], now)}
       IN  hits' = Append(hits, [id |-> id, at |-> now, allowedBy |-> allowing,
                                 verdict |-> Verdict(allowing)])
    /\ trackedFrom' = [i \in DOMAIN Rules |->
            [trackedFrom[i] EXCEPT ![id] =
                IF id \in DOMAIN counters[i] THEN @ ELSE Len(hits)]]

Next == \E id \in Identities, now \in 0..MaxNow : Evaluate(id, now)

Spec == Init /\ [][Next]_vars

-----------------------------------------------------------------------------
\* The requests of id since rule i last began to track it.
Followed(i, id) ==
    {h \in DOMAIN hits : h > trackedFrom[i][id] /\ hits[h].id = id}

\* "`now_ms` is assumed monotonic non-decreasing": whether it was for them.
InOrder(i, id) ==
    \A g, h \in Followed(i, id) : g < h => hits[g].at <= hits[h].at

\* The ones that rule i let through in the window of its length that ends at t.
LetThrough(i, id, t) ==
    {h \in Followed(i, id) :
        /\ i \in hits[h].allowedBy
        /\ hits[h].at <= t
        /\ hits[h].at + Rules[i].window > t}

\* Whether each trailing window let through less than 2 * limit of them.
BurstBounded(i, id) ==
    \A t \in 0..MaxNow :
        Rules[i].limit > 0 =>
            Cardinality(LetThrough(i, id, t)) < 2 * Rules[i].limit

\* A burst across a window boundary never gets the limit twice: any trailing
\* window lets through less than 2 * limit requests of an identity, as long as
\* it is not evicted and the readings of the clock for it do not go back.
BoundaryBurst ==
    \A i \in DOMAIN Rules, id \in Identities :
        InOrder(i, id) => BurstBounded(i, id)

\* Whether no reading before that of request h stepped back.
SortedUpTo(h) == \A g \in 1..(h - 1) : hits[g].at <= hits[g + 1].at

WindowOf(i, h) == hits[h].at \div Rules[i].window

\* The requests of the caller of h in the window of h and the one before it,
\* by the windows of rule i, h included.
Recent(i, h) ==
    {g \in 1..h : hits[g].id = hits[h].id /\ WindowOf(i, g) + 1 >= WindowOf(i, h)}

\* A caller is denied, by the rule the verdict names, only if it made more than
\* that rule's limit of requests in the current and the previous window
\* together; the requests of others, and evictions, never count against it
\* (while the readings of the clock do not go back).
DeniesOnlyOverLimit ==
    \A h \in DOMAIN hits :
        hits[h].verdict # 0 /\ SortedUpTo(h) =>
            Cardinality(Recent(hits[h].verdict, h)) > Rules[hits[h].verdict].limit

\* However many identities come by, a limiter tracks at most MaxKeys.
TrackedKeysBounded ==
    \A i \in DOMAIN Rules : Cardinality(DOMAIN counters[i]) <= MaxKeys

=============================================================================
