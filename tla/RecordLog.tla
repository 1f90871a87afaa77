----------------------------- MODULE RecordLog ------------------------------
(***************************************************************************)
(* What the write-ahead log promises, with no frames, chain, files or      *)
(* modes: a sequence of records of which the first are on disk for good    *)
(* and the others may be lost, the last ones first.  What was acknowledged *)
(* is on disk.                                                             *)
(***************************************************************************)
EXTENDS Naturals, Sequences, SequencesExt

CONSTANTS Keys, Records    \* records have a key and the number of their put

VARIABLES
    disk,       \* the records nothing can take away
    buffer,     \* those behind them
    acked       \* the last put of each key that was acknowledged, 0 if none

vars == <<disk, buffer, acked>>

\* The put that a reader of a log finds for each key.
Latest(log) ==
    [k \in Keys |->
        LET at == {i \in DOMAIN log : log[i].key = k}
        IN  IF at = {} THEN 0 ELSE log[Max(at)].put]

Init ==
    /\ disk = <<>>
    /\ buffer = <<>>
    /\ acked = [k \in Keys |-> 0]

Write(rec) ==
    /\ UNCHANGED <<acked, disk>>
    /\ buffer' = Append(buffer, rec)

\* Everything up to the last of `records`, written now, is acknowledged.
Acknowledge(records) ==
    /\ buffer' = <<>>
    /\ disk' = disk \o buffer \o records
    /\ acked' = Latest(disk')

\* What was not acknowledged is lost, with `records`, from some record on.
Lose(records) == IsPrefix(buffer', buffer \o records)

Fail(records) ==
    /\ UNCHANGED <<acked, disk>>
    /\ Lose(records)

\* The keys of `drop` leave the log, which is written anew and on disk.
Compact(drop) ==
    /\ acked' = [k \in Keys |-> IF k \in drop THEN 0 ELSE acked[k]]
    /\ Latest(disk') = [k \in Keys |-> IF k \in drop THEN 0 ELSE Latest(disk \o buffer)[k]]
    /\ buffer' = <<>>

\* A failed compaction: the keys of `drop` are no longer counted on, and may
\* stay in the log.
FailToCompact(drop) ==
    /\ acked' = [k \in Keys |-> IF k \in drop THEN 0 ELSE acked[k]]
    /\ Lose(<<>>)
    /\ UNCHANGED disk

Next ==
    \/ \E rec \in Records : Write(rec)
    \/ \E records \in {<<>>} \union {<<rec>> : rec \in Records} :
            Acknowledge(records) \/ Fail(records)
    \/ \E drop \in SUBSET Keys : Compact(drop) \/ FailToCompact(drop)

Spec == Init /\ [][Next]_vars

=============================================================================
