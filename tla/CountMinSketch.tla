--------------------------- MODULE CountMinSketch ----------------------------
(***************************************************************************)
(* optimizer/core/cm_sketch.rs: rows of counters, of which each key has one *)
(* in every row.  offset[r][k] is the column of key k in row r, given by    *)
(* its hash.  A counter does not come near its largest value.               *)
(***************************************************************************)
EXTENDS Naturals

NoCounts(offset, columns) == [r \in DOMAIN offset |-> [c \in columns |-> 0]]

Cells(cs, offset, k) == {cs[r][offset[r][k]] : r \in DOMAIN offset}

estimate(cs, offset, k) ==
    CHOOSE n \in Cells(cs, offset, k) : \A m \in Cells(cs, offset, k) : n <= m

(* Mutant of add: all counters but the lowest ones grow.                    *)
AddToHighest(cs, offset, k, n) ==
    [r \in DOMAIN offset |->
        [cs[r] EXCEPT ![offset[r][k]] = IF @ = estimate(cs, offset, k) THEN @ ELSE @ + n]]

(* Only the lowest counters of a key grow.                                  *)
add(cs, offset, k, n) ==
    [r \in DOMAIN offset |->
        [cs[r] EXCEPT ![offset[r][k]] = IF @ = estimate(cs, offset, k) THEN @ + n ELSE @]]
=============================================================================
