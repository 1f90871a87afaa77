--------------------------- MODULE ReplicatedStore ---------------------------
(***************************************************************************)
(* Synchronous replication (onced-core replication.rs): a store over a     *)
(* list of stores.  put and compact go through the list one node after the *)
(* other, and the process or a node may die in between.  The nodes are     *)
(* strict logs (WalStore), so a node holds every record written to it.     *)
(*                                                                         *)
(* The state of a key is the number of the put that wrote it, 0 if the key *)
(* has no state.                                                           *)
(***************************************************************************)
EXTENDS Naturals, Sequences, SequencesExt

CONSTANTS
    Nodes,
    ReplKeys,
    MaxReplPuts \* bound: puts

ASSUME ReplicationAssumption ==
    /\ IsFiniteSet(Nodes)
    /\ Nodes # {}
    /\ MaxReplPuts \in Nat

VARIABLES
    replicas,   \* ReplicatedStore.replicas; the first is the primary
    stored,     \* what every node holds
    op,         \* the call being executed, and how many nodes it has reached
    replPuts,   \* how many puts there were, to number them
    \* History, read by no action:
    owed,       \* for every node, the last put of each key that returned, until a
                \* compaction of that node rejects what the node has of the key
    served      \* the last state of each key that get answered with, until a
                \* compaction of the primary rejects what the primary has of it

replVars == <<replicas, stored, op, replPuts, owed, served>>

Idle == [call |-> "none"]

Calls ==
    [call: {"put"}, key: ReplKeys, put: 1..MaxReplPuts, done: Nat]
        \union [call: {"compact"}, drop: SUBSET (1..MaxReplPuts), done: Nat]
        \union {Idle}

ReplTypeOK ==
    /\ replicas \in Seq(Nodes) /\ replicas # <<>>
    /\ stored \in [Nodes -> [ReplKeys -> 0..MaxReplPuts]]
    /\ op \in Calls
    /\ replPuts \in 0..MaxReplPuts
    /\ owed \in [Nodes -> [ReplKeys -> 0..MaxReplPuts]]
    /\ served \in [ReplKeys -> 0..MaxReplPuts]

Primary == replicas[1]

ReplInit ==
    /\ replicas \in SetToSeqs(Nodes)
    /\ stored = [n \in Nodes |-> [k \in ReplKeys |-> 0]]
    /\ op = Idle
    /\ replPuts = 0
    /\ owed = [n \in Nodes |-> [k \in ReplKeys |-> 0]]
    /\ served = [k \in ReplKeys |-> 0]

-----------------------------------------------------------------------------
\* ReplicatedStore::put is called.
CallPut(k) ==
    /\ op = Idle
    /\ replPuts < MaxReplPuts
    /\ replPuts' = replPuts + 1
    /\ op' = [call |-> "put", key |-> k, put |-> replPuts + 1, done |-> 0]
    /\ UNCHANGED <<replicas, stored, owed, served>>

\* ReplicatedStore::compact is called with a predicate that rejects the states
\* in drop.  Every node evaluates it on the state that the node itself has.
CallCompact(drop) ==
    /\ op = Idle
    /\ op' = [call |-> "compact", drop |-> drop, done |-> 0]
    /\ UNCHANGED <<replicas, stored, replPuts, owed, served>>

\* The keys that a compaction drops from a node.
Rejected(n) ==
    {k \in ReplKeys : op.call = "compact" /\ stored[n][k] \in op.drop}

Without(state, keys) == [k \in ReplKeys |-> IF k \in keys THEN 0 ELSE state[k]]

\* What the call makes of one node.
Apply(n) ==
    IF op.call = "put" THEN [stored[n] EXCEPT ![op.key] = op.put]
    ELSE Without(stored[n], Rejected(n))

\* The call reaches the next node of the list, from the front, and may return.
Reach(returns) ==
    LET n == replicas[op.done + 1] IN
    /\ op # Idle
    /\ stored' = [stored EXCEPT ![n] = Apply(n)]
    /\ op' = IF returns THEN Idle ELSE [op EXCEPT !.done = @ + 1]
    /\ owed' = IF op.call = "put"
               THEN IF returns
                    THEN [m \in Nodes |-> [owed[m] EXCEPT ![op.key] = op.put]]
                    ELSE owed
               ELSE [owed EXCEPT ![n] = Without(@, Rejected(n))]
    /\ served' = IF n = Primary THEN Without(served, Rejected(n)) ELSE served
    /\ UNCHANGED <<replicas, replPuts>>

\* Mutant of Step: the call returns before it has reached the last node.
StepReturnsEarly == Reach(op.done + 2 >= Len(replicas))

\* The call returns when it has reached the last node.
Step == Reach(op.done + 1 = Len(replicas))

\* ReplicatedStore::get
Get(k) ==
    /\ op = Idle
    /\ served' = [served EXCEPT ![k] = stored[Primary][k]]
    /\ UNCHANGED <<replicas, stored, op, replPuts, owed>>

\* The process dies, in a call or between calls, and is started again on the
\* same nodes in the same order.
Restart ==
    /\ op' = Idle
    /\ UNCHANGED <<replicas, stored, replPuts, owed, served>>

\* Mutant of LoseNode: the store is rebuilt on no node at all.
LoseLastNode(n) ==
    /\ n \in Range(replicas)
    /\ replicas' \in SetToSeqs(Range(replicas) \ {n})
    /\ op' = Idle
    /\ UNCHANGED <<stored, replPuts, owed, served>>

\* A node is lost for good.  The store is rebuilt on the others, with any of
\* them as the primary.
LoseNode(n) ==
    /\ Len(replicas) > 1
    /\ n \in Range(replicas)
    /\ replicas' \in SetToSeqs(Range(replicas) \ {n})
    /\ op' = Idle
    /\ UNCHANGED <<stored, replPuts, owed, served>>

ReplNext ==
    \/ \E k \in ReplKeys : CallPut(k) \/ Get(k)
    \/ \E drop \in SUBSET (1..replPuts) : CallCompact(drop)
    \/ Step
    \/ Restart
    \/ \E n \in Nodes : LoseNode(n)

ReplSpec == ReplInit /\ [][ReplNext]_replVars

-----------------------------------------------------------------------------
\* A put that returned is on every node, or a newer one of its key is, so that
\* whichever node is promoted next has it, whatever calls were cut short.  The
\* only exception is a node where a compaction has found that put, or a newer
\* one, and has rejected it: the nodes decide each for themselves.
AckedOnEveryNode ==
    \A n \in Range(replicas), k \in ReplKeys : stored[n][k] >= owed[n][k]

\* "If the primary node is lost the effect is recovered from a replica
\* unchanged": a state that get has answered with is not older on the node
\* that is the primary now.
ServedSurvives ==
    op = Idle => \A k \in ReplKeys : stored[Primary][k] >= served[k]

=============================================================================
