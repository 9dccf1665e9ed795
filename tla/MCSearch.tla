------------------------------ MODULE MCSearch ------------------------------
(***************************************************************************)
(* A minute is 6 units, the interval 18 and the clock 128 wide: as with    *)
(* 60, 180 and 2^32 the minute and the width share a factor (2; in the     *)
(* code 4) without one dividing the other, so a search that goes around    *)
(* the clock meets off-minute values before it meets the grid again.       *)
(***************************************************************************)
EXTENDS TimestampSearch

MCTables == SUBSET {18, 36, 54, 72, 90} \ {{}}
MCStamps == {7, 17, 18, 23, 35, 36, 37, 71, 89, 90, 95, 107, 108, 127}
=============================================================================
