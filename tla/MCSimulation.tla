---------------------------- MODULE MCSimulation ----------------------------
(* A tree of depth three for TLC: the top node holds leaf a, composite m and *)
(* leaf d; m holds leaves b and c.  What b sends on port 0 goes to c and out *)
(* of m to a and d; what it sends on port 1 leaves m by two ports and comes  *)
(* back to c, and to a.  What a sends enters m for b and c and goes to d.    *)
EXTENDS Simulation

CONSTANTS leaf_a, leaf_b, leaf_c, leaf_d, mid_node, top_node

MCStartT == -1
MCChildren == [p \in Parents |->
    CASE p = top_node -> <<leaf_a, mid_node, leaf_d>>
      [] p = mid_node -> <<leaf_b, leaf_c>>
      [] p = Root -> <<top_node>>]
MCInwardLinks ==
    {<<mid_node, 0, leaf_b, 0>>, <<mid_node, 0, leaf_c, 1>>, <<mid_node, 1, leaf_c, 0>>}
MCInnerLinks ==
    {<<leaf_b, 0, leaf_c, 0>>, <<mid_node, 0, leaf_a, 0>>, <<mid_node, 0, leaf_d, 0>>,
     <<mid_node, 1, leaf_a, 0>>, <<mid_node, 1, mid_node, 1>>,
     <<leaf_a, 0, mid_node, 0>>, <<leaf_a, 0, leaf_d, 0>>}
MCOutwardLinks == {<<leaf_b, 0, 0>>, <<leaf_b, 1, 0>>, <<leaf_b, 1, 1>>}
MCTimePrecision == [n \in Leaves |-> IF n \in {leaf_a, leaf_d} THEN 1 ELSE 0]
MCDurations == [n \in Leaves |->
    CASE n = leaf_a -> {Duration(1, 1), inf}
      [] n = leaf_b -> {Duration(0, 0), Duration(1, 0), inf}
      [] n = leaf_c -> {Duration(1, 0), inf}
      [] n = leaf_d -> {Duration(1, 1), inf}]
MCPositiveDurations == [n \in Leaves |-> MCDurations[n] \ {Duration(0, 0)}]
MCEmissions == [n \in Leaves |->
    CASE n = leaf_a -> {<<0>>}
      [] n = leaf_b -> {<<>>, <<0, 0>>, <<0, 1>>}
      [] OTHER -> {<<>>}]
=============================================================================
