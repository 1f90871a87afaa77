----------------------------- MODULE ExactlyOnce -----------------------------
(***************************************************************************)
(* What the idempotency engine promises, with no clock, store or fence:    *)
(* every key has at most one holder and at most one outcome.  Only the     *)
(* holder commits, the outcome it commits stays until it is forgotten (the *)
(* code forgets it when its time-to-live has elapsed), and nobody is       *)
(* granted a key that still has an outcome.                                *)
(*                                                                         *)
(* Attempts are numbered in the order they are granted; attempt 0 is       *)
(* nobody.                                                                 *)
(***************************************************************************)
EXTENDS Naturals

CONSTANTS Keys, Outcomes, NoOutcome, Attempts

VARIABLES
    outcome,    \* the outcome of each key, or NoOutcome
    holder,     \* the attempt that may commit it, or 0
    committer   \* the attempt that committed the last outcome of each key

vars == <<outcome, holder, committer>>

TypeOK ==
    /\ outcome \in [Keys -> Outcomes \union {NoOutcome}]
    /\ holder \in [Keys -> Attempts \union {0}]
    /\ committer \in [Keys -> Attempts \union {0}]

Init ==
    /\ outcome = [k \in Keys |-> NoOutcome]
    /\ holder = [k \in Keys |-> 0]
    /\ committer = [k \in Keys |-> 0]

\* A new attempt, later than every one this key has seen, becomes the holder.
Grant(k) ==
    /\ outcome[k] = NoOutcome
    /\ \E a \in Attempts : /\ a > holder[k]
                           /\ a > committer[k]
                           /\ holder' = [holder EXCEPT ![k] = a]
    /\ UNCHANGED <<outcome, committer>>

\* The holder, and nobody else, fixes the outcome.
Commit(k, o) ==
    /\ outcome[k] = NoOutcome
    /\ holder[k] # 0
    /\ outcome' = [outcome EXCEPT ![k] = o]
    /\ committer' = [committer EXCEPT ![k] = holder[k]]
    /\ holder' = [holder EXCEPT ![k] = 0]

\* Outcomes whose time has come are forgotten.
Forget(S) ==
    /\ \A k \in S : outcome[k] # NoOutcome
    /\ outcome' = [k \in Keys |-> IF k \in S THEN NoOutcome ELSE outcome[k]]
    /\ UNCHANGED <<holder, committer>>

\* An expired outcome is forgotten by granting its key afresh.
Recycle(k) ==
    /\ outcome[k] # NoOutcome
    /\ outcome' = [outcome EXCEPT ![k] = NoOutcome]
    /\ \E a \in Attempts : /\ a > committer[k]
                           /\ holder' = [holder EXCEPT ![k] = a]
    /\ UNCHANGED committer

Next ==
    \/ \E k \in Keys : Grant(k) \/ Recycle(k)
    \/ \E k \in Keys, o \in Outcomes : Commit(k, o)
    \/ \E S \in SUBSET Keys : Forget(S)

Spec == Init /\ [][Next]_vars

=============================================================================
