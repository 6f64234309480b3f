-------------------------------- MODULE MCCore --------------------------------
(***************************************************************************)
(* What simulations are made of, for TLC, side by side: the events of a    *)
(* tree of nodes, the construction of such a tree, the values its nodes    *)
(* exchange, two arrays, and a quantity of two of the seven units.  A      *)
(* behaviour uses one of them, and the others stay as they begin; all but  *)
(* the events may stop.                                                    *)
(***************************************************************************)
EXTENDS NodeEvents

CONSTANTS
    whole, box, inside, crowd, agent, model,  \* the nodes of NodeEvents
    Variables, Places,                            \* of Values
    Arrays                                        \* of Arraynd

VARIABLES
    part,  \* the component in use
    script, nodes, structures, calls, agents, refused,  \* of Wiring
    variables, places, memory, heap,                    \* of Values
    arrays, constant, buffers, writes,                  \* of Arraynd
    q                                                   \* of Quantity

(* The events of a composite node that owns another composite, with a node *)
(* inside, and a collection with one agent, which send each other messages. *)
MCNodes == {whole, box, inside, crowd, agent, model}
MCComponents == (whole :> <<box, crowd>>) @@ (box :> <<inside>>)
MCAgents == crowd :> {agent}
MCPrototype == crowd :> model
MCInner ==
    [n \in MCNodes |-> CASE n = box -> <<crowd>> [] n = crowd -> <<box>> [] OTHER -> <<>>]
MCInward == [n \in MCNodes |-> IF n = box THEN <<inside>> ELSE <<>>]

(* A system of a leaf, a team and a crowd of teams; a team has a leaf and a *)
(* pool of leaves.  Two ports of a team share a mode and a goal.            *)
Port(mode, goal, name) == [mode |-> mode, goal |-> goal, name |-> name]

ClassKinds ==
    [system |-> "composite", team |-> "composite", crowd |-> "collection",
     pool |-> "collection", leaf |-> "atomic"]

ClassPorts ==
    [system |-> <<>>,
     team |-> <<Port("message", "input", "a"), Port("flow", "input", "x"),
                Port("message", "input", "b"), Port("message", "output", "c")>>,
     crowd |-> <<Port("message", "input", "a")>>,
     pool |-> <<>>,
     leaf |-> <<Port("message", "input", "a"), Port("message", "output", "c"),
                Port("flow", "output", "y")>>]

ClassMembers ==
    [system |-> <<"leaf", "team", "crowd">>, team |-> <<"leaf", "pool">>,
     crowd |-> <<"team">>, pool |-> <<"leaf">>, leaf |-> <<>>]

Trees ==
    INSTANCE Wiring WITH
        KindOf <- ClassKinds, PortsOf <- ClassPorts, MembersOf <- ClassMembers,
        Top <- "system", MaxDeclared <- 2, MaxAgents <- 1,
        stack <- calls, thrown <- refused

Exchanges == INSTANCE Values WITH MaxDepth <- 1, MaxMemory <- 3, MaxPointers <- 2

(* Two arrays of 2 x 2 elements, with some ranges that go down.            *)
Interval(start, stop, stride) ==
    [start |-> start, stop |-> stop, stride |-> stride, after |-> FALSE, before |-> FALSE]

Down == Interval(1, 0, -1)
Times(x, y) == 1 - x * y
Less(x, y) == IF x < y THEN 1 ELSE 0

Tables ==
    INSTANCE Arraynd WITH
        Shapes <- {<<2, 2>>}, Factors <- {<<2, 2>>}, Ranges <- {Down},
        Slices <- {Down, [Interval(0, 99, 1) EXCEPT !.after = TRUE],
                   [Interval(3, 0, -2) EXCEPT !.before = TRUE], Interval(1, 0, 1)},
        Values <- {0, 1}, Initial <- {0}, TrueValue <- 1, Op <- Times, Rel <- Less,
        MaxBuffers <- 2, MaxAxes <- 2, MaxWrites <- 1

ASSUME TablesAssumption == Tables!ArrayndAssumption

Ratio(n, d) == [n |-> n, d |-> d]

(* Multipliers below 16 in base 4.                                         *)
Quantities ==
    INSTANCE Quantity WITH
        Base <- 4, LimitScales <- 2, Largest <- 40, BaseUnits <- {"m", "s"},
        Factors <- {Ratio(1, 3), Ratio(-7, 2), Ratio(5, 1), Ratio(1, 16)},
        Multipliers <- {0, -3, 15}, Levels <- -1 .. 2, Exponents <- -1 .. 2

tree == <<script, nodes, structures, calls, agents, refused>>
exchange == <<variables, places, memory, heap>>
table == <<arrays, constant, buffers, writes>>

CoreInit ==
    /\ part \in {"events", "tree", "exchange", "arrays", "quantity"}
    /\ Init /\ Trees!Init /\ Exchanges!Init /\ Tables!Init /\ Quantities!Init

CoreNext ==
    /\ UNCHANGED part
    /\ \/ part = "events" /\ Next /\ UNCHANGED <<tree, exchange, table, q>>
       \/ part = "tree" /\ Trees!Next /\ UNCHANGED <<vars, exchange, table, q>>
       \/ part = "exchange" /\ Exchanges!Next /\ UNCHANGED <<vars, tree, table, q>>
       \/ part = "arrays" /\ Tables!Next /\ UNCHANGED <<vars, tree, exchange, q>>
       \/ part = "quantity" /\ Quantities!Next /\ UNCHANGED <<vars, tree, exchange, table>>
       \/ part # "events" /\ UNCHANGED <<vars, tree, exchange, table, q>>

CoreSpec == CoreInit /\ [][CoreNext]_<<part, vars, tree, exchange, table, q>>

CoreSymmetry == Permutations(Variables) \cup Permutations(Places) \cup Permutations(Arrays)

-----------------------------------------------------------------------------
(* The properties of the components.                                       *)

\* composite_node.h, node_structure.h, system_node.cpp: links lead from and to the
\* ports that were named, and agents print what the prototype prints.
WiredAsDeclared == part = "tree" => Trees!WiredAsDeclared

\* qualified_type.h, port.h: what is received reads as it did when it was sent.
ReadsAsSent == part = "exchange" => Exchanges!ReadsAsSent

\* arraynd_base.h: the elements of an array and of its views are in its buffer,
\* no two of them in one place, and slices and reshaped views show the elements
\* they are to show; so does their text.
ViewsExact ==
    part = "arrays" =>
        /\ Tables!AddressesSound /\ Tables!SlicesExact /\ Tables!ReshapesExact
        /\ Tables!RangesInAnyOrder /\ Tables!TextsNested

\* arraynd_base.h: elements change only through an array that may be written.
WritesThroughOne == Tables!WritesThroughOne

\* quantity.h: sums, products and quotients are the nearest to the exact ones,
\* comparisons are of values, another scale is taken by rounding once, and what
\* is printed denotes the quantity, units included.
QuantitiesExact ==
    part = "quantity" =>
        /\ Quantities!ArithmeticNearest /\ Quantities!OrderedByValue
        /\ Quantities!RescalingExact /\ Quantities!PrintedReadsBack
=============================================================================
