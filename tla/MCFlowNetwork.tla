---------------------------- MODULE MCFlowNetwork ----------------------------
(* Three components with one flow input and one flow output each, every      *)
(* choice of flow nodes among them and, but for the composite node's own     *)
(* outputs, every choice of at most one source for each destination; then    *)
(* the same with a second source for one of them.                            *)
EXTENDS FlowNetwork

Link(src, dst) == [src |-> src, dst |-> dst]
From(d, srcs) == {{}} \cup {{Link(s, d)} : s \in srcs}

MCInputs == NodeIndices \X {0}
MCOutputs == NodeIndices \X {0}

\* The composite node has as many output ports as components, and one more.
MCLinks ==
    {a \cup b \cup c \cup x \cup y \cup z :
        a \in From(<<0, 0>>, Sources),
        b \in From(<<1, 0>>, Sources),
        c \in From(<<2, 0>>, Sources),
        x \in From(<<Composite, 0>>, Outputs),
        y \in From(<<Composite, 3>>, {<<1, 0>>}),
        z \in From(<<1, 0>>, {<<0, 0>>})}

MCCompositions == [flow : SUBSET NodeIndices, links : MCLinks]
=============================================================================
