---------------------------- MODULE SketchBuild ------------------------------
(***************************************************************************)
(* The sketch ANALYZE fills while it builds a histogram                     *)
(* (HistogramBuilder::build of optimizer/core/histogram.rs): one increment  *)
(* for each value of the index, and one add for all NULLs at the end.       *)
(***************************************************************************)
EXTENDS CountMinSketch

CONSTANTS
    SketchKey, NullKey,   \* the values, NULL among them
    Column,         \* the columns of a row of counters
    Offset,         \* Offset[r][k]: the column of k in row r
    MaxAdded,       \* bound: how often a value is added
    NullCount       \* how many NULLs there may be

VARIABLES
    counters,   \* counters[r][c]
    added,      \* how often each key but NULL was added
    built       \* whether the NULLs were added

sketchVars == <<counters, added, built>>

SketchInit ==
    /\ counters = NoCounts(Offset, Column)
    /\ added = [k \in SketchKey |-> 0]
    /\ built = FALSE

Increment(k) ==
    /\ ~built /\ k # NullKey /\ added[k] < MaxAdded
    /\ counters' = add(counters, Offset, k, 1)
    /\ added' = [added EXCEPT ![k] = @ + 1]
    /\ UNCHANGED built

AddNulls(n) ==
    /\ ~built /\ built' = TRUE
    /\ counters' = add(counters, Offset, NullKey, n)
    /\ UNCHANGED added

SketchNext == (\E k \in SketchKey : Increment(k)) \/ (\E n \in NullCount : AddNulls(n))

SketchSpec == SketchInit /\ [][SketchNext]_sketchVars

-----------------------------------------------------------------------------
(* The sketch (cm_sketch.rs) never estimates a value other than NULL as     *)
(* rarer than it is, whichever values share counters with it.               *)
EstimatesCover == \A k \in SketchKey \ {NullKey} : estimate(counters, Offset, k) >= added[k]
=============================================================================
