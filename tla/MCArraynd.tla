------------------------------ MODULE MCArraynd ------------------------------
(* Two arrays: 2 x 2 elements; the range down from 1.                       *)
EXTENDS Arraynd

MCShapes == {<<2, 2>>}
MCRanges == {stride_by(stop_at(start_at(range, 1), 0), -1)}
MCSlices ==
    MCRanges \cup {start_after(range, 0), stride_by(stop_before(start_at(range, 3), 0), -2),
                   stop_at(start_at(range, 1), 0)}
MCFactors == {<<2, 2>>}
MCOp(x, y) == 1 - x * y
MCRel(x, y) == IF x < y THEN 1 ELSE 0
MCSymmetry == Permutations(Arrays)
=============================================================================
