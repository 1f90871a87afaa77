------------------------------ MODULE CountMin ------------------------------
(***************************************************************************)
(* The count-min sketch (onced-core sketch.rs): rows of saturating         *)
(* counters, one of which in each row stands for a key.  The hash that     *)
(* picks it is any function.                                               *)
(***************************************************************************)
EXTENDS Naturals, FiniteSets, FiniteSetsExt

CONSTANTS
    Items,      \* the keys that are counted
    Rows,       \* the rows
    Columns,    \* the columns of a row
    CountMax,   \* the largest value of a counter
    MaxTotal    \* bound: occurrences recorded for one key

ASSUME SketchAssumption ==
    /\ IsFiniteSet(Rows) /\ Rows # {}
    /\ Columns # {}
    /\ CountMax \in Nat
    /\ MaxTotal \in Nat

VARIABLES
    cells,      \* counters
    column,     \* the column each key hashes to in each row; never changes
    total       \* history: the occurrences recorded for each key

sketchVars == <<cells, column, total>>

SketchTypeOK ==
    /\ cells \in [Rows -> [Columns -> 0..CountMax]]
    /\ column \in [Rows -> [Items -> Columns]]
    /\ total \in [Items -> 0..MaxTotal]

SketchInit ==
    /\ cells = [r \in Rows |-> [c \in Columns |-> 0]]
    /\ column \in [Rows -> [Items -> Columns]]
    /\ total = [k \in Items |-> 0]

Capped(n) == IF n > CountMax THEN CountMax ELSE n

-----------------------------------------------------------------------------
\* Mutant of Bumped: the counter wraps around.
BumpedWrapping(r, c, k, n) ==
    IF c = column[r][k] THEN (cells[r][c] + n) % (CountMax + 1) ELSE cells[r][c]

\* A counter after n occurrences of k were recorded.
Bumped(r, c, k, n) ==
    IF c = column[r][k] THEN Capped(cells[r][c] + n) ELSE cells[r][c]

\* CountMinSketch::add
Add(k, n) ==
    /\ total[k] + n <= MaxTotal
    /\ cells' = [r \in Rows |-> [c \in Columns |-> Bumped(r, c, k, n)]]
    /\ total' = [total EXCEPT ![k] = @ + n]
    /\ UNCHANGED column

\* CountMinSketch::estimate
Estimate(k) == Min({cells[r][column[r][k]] : r \in Rows})

SketchNext == \E k \in Items, n \in 0..MaxTotal : Add(k, n)

SketchSpec == SketchInit /\ [][SketchNext]_sketchVars

-----------------------------------------------------------------------------
\* "Never an under-estimate": whatever the hash does and however the counters
\* saturate, a heavy hitter cannot hide behind other keys.
NeverUnderestimates == \A k \in Items : Estimate(k) >= Capped(total[k])

\* Whether no other recorded key shares k's counter in row r.
Alone(r, k) ==
    \A j \in Items \ {k} : column[r][j] = column[r][k] => total[j] = 0

\* One row without a collision is enough: the minimum over the rows drops what
\* other keys added elsewhere, and the estimate is the count.
ExactWhereAlone ==
    \A k \in Items : (\E r \in Rows : Alone(r, k)) => Estimate(k) = Capped(total[k])

\* The inductive strengthening, counter by counter.
CellsCoverTotals ==
    \A r \in Rows, k \in Items :
        /\ cells[r][column[r][k]] >= Capped(total[k])
        /\ Alone(r, k) => cells[r][column[r][k]] = Capped(total[k])

=============================================================================
