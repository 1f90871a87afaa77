------------------------------ MODULE Velocity ------------------------------
(***************************************************************************)
(* The distinct-target velocity limiter (onced-core velocity.rs): for each *)
(* of a bounded number of actors, a HyperLogLog (hll.rs) of the targets it *)
(* touched in the current fixed window.                                    *)
(*                                                                         *)
(* A HyperLogLog holds a rank in each of its 1024 registers, zero in one   *)
(* that is empty.  What estimate() makes of them is a constant, rounded up *)
(* because it is only compared with a number, and assumed to be what the   *)
(* arithmetic of hll.rs gives.  With n registers occupied, 0 < n, it is    *)
(* more than n: 1024 * ln(1024/(1024-n)) in the branch for small ranges;   *)
(* in the other, 1476 and more when every register is occupied, and 2560   *)
(* and more otherwise.  With n <= 44 it is less than n + 1 too, whatever   *)
(* the ranks, but 45 registers count for 46.02.                            *)
(***************************************************************************)
EXTENDS Naturals, Sequences, FiniteSets, Functions

CONSTANTS
    Actors,
    Targets,
    Registers,      \* the registers of a HyperLogLog
    MaxRank,        \* the highest rank a hash may have
    Estimated,      \* estimate(), rounded up, of what the registers hold
    WindowMs,       \* window_ms
    MaxDistinct,    \* max_distinct
    MaxActors,      \* max_actors
    MaxReading,     \* bound: the last reading of the clock
    MaxTouches      \* bound: calls of check

\* What a HyperLogLog may hold, and the registers of it that are not zero.
Sketches == [Registers -> 0..MaxRank]
Occupied(sketch) == {g \in Registers : sketch[g] # 0}

\* The budget up to which estimate() is less than one off.
Accurate == 45

ASSUME VelocityAssumption ==
    /\ IsFiniteSet(Actors)
    /\ IsFiniteSet(Registers)
    /\ WindowMs \in Nat \ {0}
    /\ MaxActors \in Nat \ {0}
    /\ {MaxRank, MaxDistinct, MaxReading, MaxTouches} \subseteq Nat
    /\ Estimated \in [Sketches -> Nat]
    /\ \A sketch \in Sketches :
        LET n == Cardinality(Occupied(sketch))
        IN  /\ n > 0 => Estimated[sketch] > n
            /\ n < Accurate => Estimated[sketch] <= n + 1

VARIABLES
    actors,         \* the ActorWindow of every tracked actor
    register,       \* the register each target hashes to, and
    rank,           \* its rank there; they never change
    \* History, read by no action:
    touches,        \* every call of check and its decision
    followedFrom    \* how many calls there had been when the limiter began to
                    \* track each actor, the last time it did

velocityVars == <<actors, register, rank, touches, followedFrom>>

Touch == [actor: Actors, target: Targets, at: 0..MaxReading,
          decision: {"Allow", "Deny"}]

VelocityTypeOK ==
    /\ DOMAIN actors \subseteq Actors
    /\ \A a \in DOMAIN actors :
        actors[a] \in [windowIndex: Nat, seen: Sketches]
    /\ register \in [Targets -> Registers]
    /\ rank \in [Targets -> 1..MaxRank]
    /\ touches \in Seq(Touch)
    /\ followedFrom \in [Actors -> 0..Len(touches)]

VelocityInit ==
    /\ actors = <<>>
    /\ register \in [Targets -> Registers]
    /\ rank \in [Targets -> 1..MaxRank]
    /\ touches = <<>>
    /\ followedFrom = [a \in Actors |-> 0]

-----------------------------------------------------------------------------
\* Mutant of AdmittedActors: nobody is evicted.
AdmittedWithoutEviction(a) == {actors}

\* The actors kept when a is about to be recorded: at capacity a new actor
\* evicts whichever one the hash map yields first.
AdmittedActors(a) ==
    IF a \notin DOMAIN actors /\ Cardinality(DOMAIN actors) >= MaxActors
    THEN {Restrict(actors, DOMAIN actors \ {victim}) : victim \in DOMAIN actors}
    ELSE {actors}

\* HyperLogLog::new
Fresh == [g \in Registers |-> 0]

\* Mutant of SeenInWindow: the sketch of a tracked actor is always replaced.
SeenNow(table, a, w) == Fresh

\* The sketch of a in window w; a reading from any other window, later or
\* earlier, starts a fresh one.
SeenInWindow(table, a, w) ==
    IF a \in DOMAIN table /\ table[a].windowIndex = w THEN table[a].seen ELSE Fresh

\* Mutant of Observed: the sketch counts calls, not targets.
ObservedAnew(seen, t) ==
    IF Occupied(seen) = Registers THEN seen
    ELSE [seen EXCEPT ![CHOOSE g \in Registers : seen[g] = 0] = rank[t]]

\* HyperLogLog::add: the register of the target keeps the highest rank it met;
\* adding a target again changes nothing.
Observed(seen, t) ==
    [seen EXCEPT ![register[t]] = IF rank[t] > @ THEN rank[t] ELSE @]

\* estimate() > max_distinct as f64
Flagged(seen) == Estimated[seen] > MaxDistinct

\* DistinctVelocityLimiter::check
Check(a, t, now) ==
    LET w == now \div WindowMs
    IN  /\ Len(touches) < MaxTouches
        /\ \E table \in AdmittedActors(a) :
            LET seen == Observed(SeenInWindow(table, a, w), t)
            IN  /\ actors' = [b \in DOMAIN table \union {a} |->
                                IF b = a THEN [windowIndex |-> w, seen |-> seen]
                                ELSE table[b]]
                /\ touches' = Append(touches,
                        [actor |-> a, target |-> t, at |-> now,
                         decision |-> IF Flagged(seen) THEN "Deny" ELSE "Allow"])
        /\ followedFrom' = [followedFrom EXCEPT ![a] =
                                IF a \in DOMAIN actors THEN @ ELSE Len(touches)]
        /\ UNCHANGED <<register, rank>>

VelocityNext ==
    \E a \in Actors, t \in Targets, now \in 0..MaxReading : Check(a, t, now)

VelocitySpec == VelocityInit /\ [][VelocityNext]_velocityVars

-----------------------------------------------------------------------------
TouchWindow(h) == touches[h].at \div WindowMs

SameWindow(h, g) ==
    touches[h].actor = touches[g].actor /\ TouchWindow(h) = TouchWindow(g)

\* The targets the actor of call h had touched in the window of h, h included.
TouchedBy(h) == {touches[g].target : g \in {i \in 1..h : SameWindow(h, i)}}

\* The registers it had hit there since it is tracked.
HitSince(h) ==
    {register[touches[g].target] :
        g \in {i \in 1..h : SameWindow(h, i) /\ i > followedFrom[touches[h].actor]}}

\* Whether no reading before that of call h stepped back.
TouchesInOrder(h) == \A g \in 1..(h - 1) : touches[g].at <= touches[g + 1].at

\* An actor that is still tracked cannot touch more targets than its budget in
\* a window and be allowed: a call is denied once the actor's calls since it is
\* tracked hit more than MaxDistinct registers in the window of the call (while
\* the readings of the clock do not go back).
DistinctFloodFlagged ==
    \A h \in DOMAIN touches :
        TouchesInOrder(h) /\ Cardinality(HitSince(h)) > MaxDistinct
            => touches[h].decision = "Deny"

\* Repeating the same targets, the calls of other actors and evictions never
\* get an actor denied: a denied call comes with at least MaxDistinct distinct
\* targets of the actor in one window, or, where the estimate is no longer
\* accurate enough to tell, with at least 45.
RepeatsNeverFlagged ==
    \A h \in DOMAIN touches :
        touches[h].decision = "Deny" =>
            \/ Cardinality(TouchedBy(h)) >= MaxDistinct
            \/ Cardinality(TouchedBy(h)) >= Accurate

\* However many actors come by, at most MaxActors are tracked.
TrackedActorsBounded == Cardinality(DOMAIN actors) <= MaxActors

=============================================================================
