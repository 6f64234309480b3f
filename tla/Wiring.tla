------------------------------- MODULE Wiring --------------------------------
(***************************************************************************)
(* How a tree of nodes is constructed: every node announces itself to the  *)
(* structure of the context it is constructed in, which gives it an index, *)
(* and then adds its ports, its components and its links, in this order.   *)
(* A link is kept as indices: of a component in the structure and of a     *)
(* port in the interface of the component.  Agents are constructed later   *)
(* and then told to print what the prototype prints, by indices as well.   *)
(*                                                                         *)
(* A class of nodes is what the C++ class declares: ports, components (of  *)
(* a collection node: its prototype) and, in the body of its constructor,  *)
(* links between any ports that the compiler lets pass.                    *)
(***************************************************************************)
EXTENDS SequencesExt, Integers

CONSTANTS
    KindOf,       \* class -> "atomic", "composite" or "collection"
    PortsOf,      \* class -> its ports in order, each [mode, goal, name]
    MembersOf,    \* class -> the classes of its components in order
    Top,          \* the class of the top node
    MaxDeclared,  \* bound: the links of all classes and the ports to be printed ...
    MaxAgents     \* bound: ... and the agents ever created

Kinds == {"flow", "message"} \X {"input", "output"}
Simulation == 0  \* owns the context of the top node

VARIABLES
    script,      \* class -> the links of its constructor
    nodes,       \* the nodes constructed so far; a position stands for an address
    structures,  \* of each context next_node_index_, node_ptrs_ and the links
    stack,       \* the constructors in progress, the last one innermost
    agents,      \* of each agent the collection node, the node, and what it was to print
    thrown       \* a constructor has thrown

vars == <<script, nodes, structures, stack, agents, thrown>>

-----------------------------------------------------------------------------
(* The links a constructor may ask for.                                    *)

ClassAt(class, path) == FoldLeft(LAMBDA c, k : MembersOf[c][k], class, path)

\* The ways from a node to itself, its components and their components.
Paths(class) ==
    LET Below(p) == {Append(p, k) : k \in DOMAIN MembersOf[ClassAt(class, p)]}
        first == Below(<<>>)
    IN  {<<>>} \cup first \cup UNION {Below(p) : p \in first}

\* The ports of one mode and goal that can be named in a class.
Ends(class, mode, goal) ==
    UNION {{[path |-> p, name |-> d.name] :
               d \in {e \in Range(PortsOf[ClassAt(class, p)]) : e.mode = mode /\ e.goal = goal}} :
           p \in Paths(class)}

Goals == [inward |-> <<"input", "input">>, inner |-> <<"output", "input">>,
          outward |-> <<"output", "output">>]

Statements(class) ==
    UNION {[form : {f}, mode : {m}, src : Ends(class, m, Goals[f][1]), dst : Ends(class, m, Goals[f][2])] :
           f \in DOMAIN Goals, m \in {"flow", "message"}}

-----------------------------------------------------------------------------
(* A node and what it is found by.                                         *)

RECURSIVE Owners(_)
Owners(n) == IF n = Simulation THEN {} ELSE {n} \cup Owners(nodes[n].context[1])

\* The context of a collection node's agents, not that of its prototype.
ForAgents(context) ==
    /\ context[1] # Simulation /\ context[2] = "components"
    /\ KindOf[nodes[context[1]].class] = "collection"

\* node: the component of a composite node, or the agent, with this index.
node(n, index) == structures[<<n, "components">>].node_ptrs[index]

\* Where a member of a node is, as the user's code names it.
NodeAt(n, path) == FoldLeft(LAMBDA m, k : nodes[m].members[k], n, path)

port_index(n, kind, name) == (CHOOSE i \in DOMAIN nodes[n].ports[kind] : nodes[n].ports[kind][i] = name) - 1

-----------------------------------------------------------------------------
(* Construction.                                                           *)

\* add_*_port: the ports of each mode and goal are numbered apart.
AddedPorts(class, kind) ==
    LET own == SelectSeq(PortsOf[class], LAMBDA d : <<d.mode, d.goal>> = kind)
    IN  [i \in DOMAIN own |-> own[i].name]

NewStructure == [next_node_index |-> 0, node_ptrs |-> <<>>, links |-> <<>>]

\* add_node: indices are not used again after erase_node.
Added(s, n) ==
    [s EXCEPT !.next_node_index = @ + 1, !.node_ptrs = (s.next_node_index :> n) @@ @]

\* The contexts a node makes for its components, or for its agents and prototype.
Contexts(class, n) ==
    CASE KindOf[class] = "atomic" -> {}
      [] KindOf[class] = "composite" -> {<<n, "components">>}
      [] KindOf[class] = "collection" -> {<<n, "components">>, <<n, "prototype">>}

\* The constructor of a node up to its components: its interface and its ports.
Begin(class, context) ==
    LET n == Len(nodes) + 1
        ports == [kind \in Kinds |-> AddedPorts(class, kind)]
        interface ==
            [class |-> class, context |-> context, index |-> structures[context].next_node_index,
             ports |-> ports, members |-> <<>>,
             printed |-> [kind \in Kinds |-> [i \in DOMAIN ports[kind] |-> FALSE]]]
        known == IF context[1] = Simulation \/ ForAgents(context) THEN nodes
                 ELSE [nodes EXCEPT ![context[1]].members = Append(@, n)]
    IN  /\ nodes' = Append(known, interface)
        /\ structures' = [c \in Contexts(class, n) |-> NewStructure]
                             @@ [structures EXCEPT ![context] = Added(@, n)]
        /\ stack' = Append(stack, [node |-> n, links |-> 0])

Current == Last(stack).node
CurrentClass == nodes[Current].class
MembersLeft == Len(nodes[Current].members) < Len(MembersOf[CurrentClass])

\* The next component of the innermost node, or its prototype.
Member ==
    /\ stack # <<>> /\ ~thrown /\ MembersLeft
    /\ Begin(MembersOf[CurrentClass][Len(nodes[Current].members) + 1],
             <<Current, IF KindOf[CurrentClass] = "collection" THEN "prototype" ELSE "components">>)
    /\ UNCHANGED <<script, agents, thrown>>

\* The checks of inward_link, inner_link and outward_link; the compiler has seen
\* to the mode and the goals.
IsComponent(c, n) == nodes[n].context = <<c, "components">>
InwardAllowed(c, src, dst) == src = c /\ IsComponent(c, dst)
InnerAllowed(c, src, dst) == IsComponent(c, src) /\ IsComponent(c, dst)
OutwardAllowed(c, src, dst) == IsComponent(c, src) /\ dst = c

Allowed(c, form, src, dst) ==
    CASE form = "inward" -> InwardAllowed(c, src, dst)
      [] form = "inner" -> InnerAllowed(c, src, dst)
      [] form = "outward" -> OutwardAllowed(c, src, dst)

\* What the link is kept under, and what is kept.
LinkSource(link, src) ==
    LET port == port_index(src, <<link.mode, Goals[link.form][1]>>, link.src.name)
    IN  IF link.form = "inward" THEN <<link.form, link.mode, port>>
        ELSE <<link.form, link.mode, nodes[src].index, port>>
LinkDestination(link, dst) ==
    LET port == port_index(dst, <<link.mode, Goals[link.form][2]>>, link.dst.name)
    IN  IF link.form = "outward" THEN <<port>> ELSE <<nodes[dst].index, port>>

\* add_*_link
WithLink(s, key, dst) ==
    [s EXCEPT !.links = (key :> Append(IF key \in DOMAIN @ THEN @[key] ELSE <<>>, dst)) @@ @]

Create(link) ==
    LET c == Current
        src == NodeAt(c, link.src.path)
        dst == NodeAt(c, link.dst.path)
    IN  IF Allowed(c, link.form, src, dst)
        THEN /\ structures' = [structures EXCEPT ![<<c, "components">>] =
                                  WithLink(@, LinkSource(link, src), LinkDestination(link, dst))]
             /\ stack' = [stack EXCEPT ![Len(stack)].links = @ + 1]
             /\ UNCHANGED thrown
        ELSE thrown' = TRUE /\ UNCHANGED <<structures, stack>>

Constructed(n) == n \notin {frame.node : frame \in Range(stack)}
AllLinks == FoldLeft(LAMBDA sum, class : sum + Len(script[class]), 0, SetToSeq(DOMAIN script))

\* The next link in the body of the innermost constructor; what is in it shows
\* when the first node of the class is constructed.
Link ==
    /\ stack # <<>> /\ ~thrown /\ ~MembersLeft /\ CurrentClass \in DOMAIN script
    /\ IF Last(stack).links < Len(script[CurrentClass])
       THEN Create(script[CurrentClass][Last(stack).links + 1]) /\ UNCHANGED script
       ELSE /\ AllLinks < MaxDeclared
            /\ \A n \in DOMAIN nodes : nodes[n].class = CurrentClass => ~Constructed(n)
            /\ \E link \in Statements(CurrentClass) :
                  Create(link) /\ script' = [script EXCEPT ![CurrentClass] = Append(@, link)]
    /\ UNCHANGED <<nodes, agents>>

Complete ==
    /\ stack # <<>> /\ ~thrown /\ ~MembersLeft
    /\ CurrentClass \in DOMAIN script => Last(stack).links = Len(script[CurrentClass])

End ==
    /\ Complete /\ ~ForAgents(nodes[Current].context)
    /\ stack' = Front(stack)
    /\ UNCHANGED <<script, nodes, structures, agents, thrown>>

-----------------------------------------------------------------------------
(* Agents.                                                                 *)

\* The components of a composite node by index, the prototype of a collection node.
PrintingBelow(n) ==
    LET class == nodes[n].class
    IN  CASE KindOf[class] = "atomic" -> <<>>
          [] KindOf[class] = "collection" -> nodes[n].members
          [] KindOf[class] = "composite" ->
                 LET ptrs == structures[<<n, "components">>].node_ptrs
                 IN  [i \in 1..Cardinality(DOMAIN ptrs) |-> node(n, i - 1)]

\* Mutant: what is in the agent is left as it is.
Adopted_Own(all, n, other) == [all EXCEPT ![n].printed = all[other].printed]

\* adopt_print_flags and adopt_component_print_flags.
RECURSIVE Adopted(_, _, _)
Adopted(all, n, other) ==
    FoldLeft(LAMBDA a, pair : Adopted(a, pair[1], pair[2]),
             [all EXCEPT ![n].printed = all[other].printed],
             Zip(PrintingBelow(n), PrintingBelow(other)))

\* The ports printed in a node, by the names of the code.
Prints(n) ==
    {<<path, kind, i>> \in Paths(nodes[n].class) \X Kinds \X (1..2) :
        LET m == NodeAt(n, path)
        IN  i \in DOMAIN nodes[m].ports[kind] /\ nodes[m].printed[kind][i]}

\* Only the prototypes, and what is in them, never see an event.
Executed(n) == \A m \in Owners(n) : nodes[m].context[2] = "components"

\* create_agent
CreateAgent(c) ==
    /\ stack = <<>> /\ ~thrown
    /\ KindOf[nodes[c].class] = "collection" /\ Executed(c)
    /\ Cardinality({n \in DOMAIN nodes : ForAgents(nodes[n].context)}) < MaxAgents
    /\ Begin(MembersOf[nodes[c].class][1], <<c, "components">>)
    /\ UNCHANGED <<script, agents, thrown>>

AgentConstructed ==
    /\ Complete /\ ForAgents(nodes[Current].context)
    /\ LET c == nodes[Current].context[1]
           prototype == nodes[c].members[1]
       IN  /\ nodes' = Adopted(nodes, Current, prototype)
           /\ agents' = agents \cup {[collection |-> c, node |-> Current, prints |-> Prints(prototype)]}
    /\ stack' = Front(stack)
    /\ UNCHANGED <<script, structures, thrown>>

\* remove_agent and erase_removed_agents
RemoveAgent(agent) ==
    /\ stack = <<>> /\ ~thrown
    /\ agents' = {a \in agents : agent.node \notin Owners(a.node)}
    /\ structures' = [structures EXCEPT ![<<agent.collection, "components">>].node_ptrs =
                          [i \in DOMAIN @ \ {nodes[agent.node].index} |-> @[i]]]
    /\ UNCHANGED <<script, nodes, stack, thrown>>

\* print_on_use: user code reaches every node but the agents.
PrintOnUse(n, kind, i) ==
    /\ stack = <<>> /\ ~thrown
    /\ \A m \in Owners(n) : ~ForAgents(nodes[m].context)
    /\ AllLinks + Cardinality({<<m, k, j>> \in (DOMAIN nodes) \X Kinds \X (1..2) :
                   j \in DOMAIN nodes[m].ports[k] /\ nodes[m].printed[k][j]}) < MaxDeclared
    /\ nodes' = [nodes EXCEPT ![n].printed[kind][i] = TRUE]
    /\ UNCHANGED <<script, structures, stack, agents, thrown>>

-----------------------------------------------------------------------------
Init ==
    /\ script = [class \in {c \in DOMAIN KindOf : KindOf[c] = "composite"} |-> <<>>]
    /\ nodes = <<>> /\ stack = <<>> /\ agents = {} /\ thrown = FALSE
    /\ structures = (<<Simulation, "components">> :> NewStructure)

Next ==
    \/ nodes = <<>> /\ Begin(Top, <<Simulation, "components">>) /\ UNCHANGED <<script, agents, thrown>>
    \/ Member \/ Link \/ End \/ AgentConstructed
    \/ \E c \in DOMAIN nodes : CreateAgent(c)
    \/ \E agent \in agents : RemoveAgent(agent)
    \/ \E n \in DOMAIN nodes, kind \in Kinds :
          \E i \in DOMAIN nodes[n].ports[kind] : PrintOnUse(n, kind, i)

Spec == Init /\ [][Next]_vars

-----------------------------------------------------------------------------
(* What was declared, by names.                                            *)

\* A link goes between ports of one node and of its components, as drawn.
Proper(link) ==
    LET lengths == <<Len(link.src.path), Len(link.dst.path)>>
    IN  lengths = [inward |-> <<0, 1>>, inner |-> <<1, 1>>, outward |-> <<1, 0>>][link.form]

Declared(n) ==
    [l \in DOMAIN script[nodes[n].class] |->
        LET link == script[nodes[n].class][l]
        IN  [mode |-> link.mode, src |-> <<NodeAt(n, link.src.path), link.src.name>>,
             dst |-> <<NodeAt(n, link.dst.path), link.dst.name>>]]

PortName(n, mode, goal, index) == nodes[n].ports[<<mode, goal>>][index + 1]

\* What the indices in the structure of a node stand for.
Found(n, key, dst) ==
    LET form == key[1]
        mode == key[2]
        src_node == IF form = "inward" THEN n ELSE node(n, key[3])
        dst_node == IF form = "outward" THEN n ELSE node(n, dst[1])
    IN  [mode |-> mode,
         src |-> <<src_node, PortName(src_node, mode, Goals[form][1], Last(key))>>,
         dst |-> <<dst_node, PortName(dst_node, mode, Goals[form][2], Last(dst))>>]

\* composite_node.h, node_structure.h, system_node.cpp: every link that is kept
\* leads from the port to the port that were named, whatever was constructed
\* before or removed since; links that do not belong to the node stop the
\* construction; and an agent prints, down to its components and prototypes,
\* the ports that are printed of the prototype when it is created.
WiredAsDeclared ==
    /\ \A n \in DOMAIN nodes :
          nodes[n].class \in DOMAIN script /\ Constructed(n) =>
              LET links == structures[<<n, "components">>].links
              IN  /\ Range(Declared(n)) = UNION {{Found(n, key, d) : d \in Range(links[key])} : key \in DOMAIN links}
                  /\ Len(Declared(n)) = FoldLeft(LAMBDA sum, key : sum + Len(links[key]), 0, SetToSeq(DOMAIN links))
    /\ thrown <=> \E class \in DOMAIN script : \E l \in DOMAIN script[class] : ~Proper(script[class][l])
    /\ \A agent \in agents : Prints(agent.node) = agent.prints
=============================================================================
