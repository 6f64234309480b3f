--------------------------- MODULE Simulation_proofs ---------------------------
(***************************************************************************)
(* The safety of a simulation, for every tree of nodes, every set of       *)
(* links, durations and scales.  The inductive invariant comes in three    *)
(* parts, each proved with the help of those before it: which events are   *)
(* in progress (Progress), what the queues of the tree hold (Schedule) and *)
(* how far the nodes' lives have come (Lives).  For the refinement of      *)
(* module Devs it is joined by which deliveries the lists and calls in     *)
(* progress stand for (RoutingOK, OwedKept), how far initialization has    *)
(* come (Begun) and when finalization begins (FinishingOver).              *)
(***************************************************************************)
EXTENDS Simulation, TimeScale_proofs, FiniteSetTheorems, SequenceTheorems,
        WellFoundedInduction

-----------------------------------------------------------------------------
(* The tree                                                                *)

\* Every node has one parent and one index in it.
LEMMA ParentAndIndex ==
    ASSUME NEW n \in Nodes
    PROVE  /\ Parent(n) \in Parents
           /\ Index(n) \in DOMAIN Children[Parent(n)]
           /\ Children[Parent(n)][Index(n)] = n
           /\ Index(n) \in Nat
<1>1. PICK c \in Parents : \E i \in DOMAIN Children[c] : Children[c][i] = n
  BY TreeAssumption
<1>2. Parent(n) \in Parents /\ \E i \in DOMAIN Children[Parent(n)] : Children[Parent(n)][i] = n
  BY <1>1 DEF Parent
<1>3. Index(n) \in DOMAIN Children[Parent(n)] /\ Children[Parent(n)][Index(n)] = n
  BY <1>2 DEF Index
<1>4. Children[Parent(n)] \in Seq(Nodes)
  BY <1>2, TreeAssumption
<1>5. DOMAIN Children[Parent(n)] \subseteq Nat
  BY <1>4, LenProperties
<1>6. QED
  BY <1>2, <1>3, <1>5

\* The components of a node are the nodes it is the parent of.
LEMMA ChildrenAreNodes ==
    ASSUME NEW c \in Parents, NEW i \in DOMAIN Children[c]
    PROVE  Children[c][i] \in Nodes /\ Parent(Children[c][i]) = c
<1>1. Children[c] \in Seq(Nodes)
  BY TreeAssumption
<1>2. Children[c][i] \in Nodes
  BY <1>1, LenProperties, ElementOfSeq
<1>3. PICK d \in Parents : \A e \in Parents : \A j \in DOMAIN Children[e] :
            Children[e][j] = Children[c][i] => e = d
  BY <1>2, TreeAssumption
<1>4. QED
  BY <1>2, <1>3, ParentAndIndex

\* No two components of a node have the same index.
LEMMA IndexInjective ==
    ASSUME NEW m \in Nodes, NEW n \in Nodes, Parent(m) = Parent(n), Index(m) = Index(n)
    PROVE  m = n
  BY ParentAndIndex

\* A property that passes from each node to its components and that holds of
\* the components of the root holds of every node.
LEMMA TreeInduction ==
    ASSUME NEW Good,
           \A n \in Nodes : (Parent(n) = Root \/ Parent(n) \in Good) => n \in Good
    PROVE  Nodes \subseteq Good
<1> DEFINE Bad == {n \in Nodes : n \notin Good}
<1>1. SUFFICES ASSUME Bad # {} PROVE FALSE
  OBVIOUS
<1>2. PICK n \in Bad : Parent(n) \notin Bad
  <2>1. Bad \in SUBSET Nodes
    OBVIOUS
  <2> HIDE DEF Bad
  <2>2. QED
    BY <1>1, <2>1, TreeAssumption
<1>3. Parent(n) = Root \/ Parent(n) \in Good
  BY <1>2, ParentAndIndex DEF Parents, Nodes
<1>4. QED
  BY <1>3

-----------------------------------------------------------------------------
(* The imminent component                                                  *)

\* The component of c whose planned event is executed is one with an event.
LEMMA ImminentNodeChosen ==
    ASSUME NEW c, Timed(due[c]), NoneBefore(due[c], t), t \in Int, DOMAIN due[c] # {},
           \A n \in DOMAIN due[c] : n \in Nodes
    PROVE  ImminentNode(c) \in Imminent(due[c])
<1> DEFINE f == [n \in Imminent(due[c]) |-> Index(n)]
<1>1. Imminent(due[c]) # {}
  BY ImminentExists
<1>2. f \in [Imminent(due[c]) -> Nat]
  BY ParentAndIndex DEF Imminent
<1>3. PICK n \in Imminent(due[c]) : \A m \in Imminent(due[c]) : f[n] <= f[m]
  <2> HIDE DEF f
  <2> QED  BY <1>1, <1>2, LeastValue
<1>4. \A m \in Imminent(due[c]) : Index(n) <= Index(m)
  BY <1>3
<1>5. QED
  BY <1>4 DEF ImminentNode

\* What replanning n does to the queues of the tree.
LEMMA Replanning ==
    ASSUME DOMAIN due = Parents, NEW n \in Nodes, NEW times, Replanned(n, times),
           NEW p, p = Parent(n)
    PROVE  /\ DOMAIN due' = Parents
           /\ \A c \in Parents : c # p => due'[c] = due[c]
           /\ \A m : m # n =>
                 /\ m \in DOMAIN due'[p] <=> m \in DOMAIN due[p]
                 /\ m \in DOMAIN due[p] => due'[p][m] = due[p][m]
           /\ times = {} => n \notin DOMAIN due'[p]
           /\ \A u : times = {u} => n \in DOMAIN due'[p] /\ due'[p][n] = u
<1>1. p \in Parents
  BY ParentAndIndex
<1>2. /\ due'[p] = IF times = {} THEN WithoutEvents(due[p], {n})
                   ELSE WithEvent(due[p], n, CHOOSE u \in times : TRUE)
      /\ DOMAIN due' = Parents
      /\ \A c \in Parents : c # p => due'[c] = due[c]
  BY <1>1 DEF Replanned
<1>3. CASE times = {}
  BY <1>2, <1>3 DEF WithoutEvents
<1>4. CASE times # {}
  <2>1. due'[p] = WithEvent(due[p], n, CHOOSE u \in times : TRUE)
    BY <1>2, <1>4
  <2>2. \A u : times = {u} => (CHOOSE v \in times : TRUE) = u
    OBVIOUS
  <2>3. QED
    BY <1>2, <1>4, <2>1, <2>2 DEF WithEvent
<1>5. QED
  BY <1>3, <1>4

-----------------------------------------------------------------------------
(* The stack                                                               *)

Events == {"initialization", "planned", "unplanned", "finalization"}

\* A frame calls components of its own node, with events of its own kind.
FrameOK(frame) ==
    /\ frame.call.event \in Events
    /\ \A x \in frame.calls :
          /\ x.node \in Nodes /\ Parent(x.node) = frame.call.node
          /\ x.event \in Events /\ x.port \in Nat
          /\ frame.call.event \in {"initialization", "finalization"} =>
                x = Call(x.node, frame.call.event, 0, <<>>)
          /\ frame.call.event = "planned" => x.event \in {"planned", "unplanned"}
          /\ frame.call.event = "unplanned" => x.event = "unplanned"
    /\ frame.call.event = "planned" /\ frame.call.node \in Composites =>
          frame.src \in Nodes /\ Parent(frame.src) = frame.call.node

\* The stack is a path down the tree from the root, along pending calls.
StackOK ==
    /\ stack \in Seq({stack[i] : i \in DOMAIN stack})
    /\ Busy => stack[1].call.node = Root
    /\ \A i \in DOMAIN stack : FrameOK(stack[i])
    /\ \A i \in DOMAIN stack : i > 1 =>
          stack[i].call.node \in Composites /\ stack[i].call \in stack[i - 1].calls

LEMMA StackDomain ==
    ASSUME StackOK
    PROVE  /\ Len(stack) \in Nat /\ DOMAIN stack = 1 .. Len(stack)
           /\ Busy <=> Len(stack) > 0
  BY LenProperties, EmptySeq DEF StackOK, Busy

\* The component called next is one of those yet to be called.
LEMMA NextCallPending ==
    ASSUME StackOK, Busy, top.calls # {}
    PROVE  NextCall \in top.calls
<1> DEFINE S == top.calls
           f == [x \in S |-> Index(x.node)]
<1>1. \A x \in S : x.node \in Nodes /\ Parent(x.node) = top.call.node /\ x.port \in Nat
  BY StackDomain DEF StackOK, FrameOK, top
<1>2. f \in [S -> Nat]
  BY <1>1, ParentAndIndex
<1>3. PICK least \in S : \A y \in S : f[least] <= f[y]
  <2> HIDE DEF f
  <2> QED  BY <1>2, LeastValue
<1> DEFINE Ties == {y \in S : f[y] = f[least]}
           g == [y \in Ties |-> y.port]
<1>4. Ties # {} /\ g \in [Ties -> Nat]
  BY <1>1
<1>5. PICK first \in Ties : \A y \in Ties : g[first] <= g[y]
  <2> HIDE DEF g, Ties
  <2> QED  BY <1>4, LeastValue
<1>6. ASSUME NEW y \in S PROVE Precedes(first, y)
  <2>1. f[first] \in Nat /\ f[y] \in Nat /\ f[first] = f[least] /\ f[first] <= f[y]
    <3> HIDE DEF f
    <3> QED  BY <1>2, <1>3
  <2>2. CASE f[y] = f[first]
    <3>1. y \in Ties
      BY <2>1, <2>2
    <3>2. first.port <= y.port
      BY <3>1, <1>5
    <3>3. first.node = y.node
      BY <1>1, <2>2, IndexInjective
    <3>4. QED
      BY <3>2, <3>3 DEF Precedes
  <2>3. CASE f[y] # f[first]
    <3>1. f[first] < f[y]
      <4> HIDE DEF f
      <4> QED  BY <2>1, <2>3
    <3>2. QED
      BY <3>1 DEF Precedes
  <2>4. QED
    BY <2>2, <2>3
<1>7. \E x \in top.calls : \A y \in top.calls : Precedes(x, y)
  BY <1>6
<1>8. QED
  BY <1>7 DEF NextCall

\* The handlers in progress are those of different nodes: a component of the
\* i-th is none of the first i.
LEMMA NotInProgress ==
    ASSUME StackOK, NEW i \in DOMAIN stack,
           NEW n \in Nodes, Parent(n) = stack[i].call.node,
           NEW j \in 1 .. i
    PROVE  stack[j].call.node # n
<1> DEFINE node(k) == stack[k].call.node
           Path == {node(k) : k \in j .. i}
<1>1. SUFFICES ASSUME node(j) = n PROVE FALSE
  OBVIOUS
<1>2. DOMAIN stack = 1 .. Len(stack) /\ Len(stack) \in Nat
  BY StackDomain
<1>3. ASSUME NEW k \in 2 .. i
      PROVE  node(k) \in Composites /\ Parent(node(k)) = node(k - 1)
  <2>1. k \in DOMAIN stack /\ k - 1 \in DOMAIN stack /\ k > 1
    BY <1>2
  <2>2. FrameOK(stack[k - 1])
    BY <2>1 DEF StackOK
  <2>3. stack[k].call.node \in Composites /\ stack[k].call \in stack[k - 1].calls
    BY <2>1 DEF StackOK
  <2>4. QED
    BY <2>2, <2>3 DEF FrameOK
<1>4. j > 1
  BY <1>1, <1>2, TreeAssumption, SMTT(30) DEF StackOK, Busy
<1>5. Path \subseteq Nodes /\ Path # {}
  BY <1>2, <1>3, <1>4 DEF Nodes
<1>6. \A m \in Path : Parent(m) \in Path
  <2>1. ASSUME NEW k \in j .. i PROVE Parent(node(k)) \in Path
    <3>1. CASE k = j
      BY <1>1, <1>2, <3>1
    <3>2. CASE k > j
      BY <1>2, <1>3, <1>4, <3>2
    <3>3. QED
      BY <3>1, <3>2, <1>2
  <2>2. QED
    BY <2>1
<1>7. QED
  <2>1. Path \in SUBSET Nodes
    BY <1>5
  <2> HIDE DEF Path
  <2>2. QED
    BY <2>1, <1>5, <1>6, TreeAssumption

\* A sequence over any set is one over the set of its elements.
LEMMA SeqOfItsElements ==
    ASSUME NEW S, NEW s \in Seq(S)
    PROVE  s \in Seq({s[i] : i \in DOMAIN s})
  BY SeqOfRange DEF Range

\* A frame that has fewer calls to make is still well formed.
LEMMA FewerCalls ==
    ASSUME NEW frame, FrameOK(frame), NEW calls \in SUBSET frame.calls
    PROVE  FrameOK(Frame(frame.call, calls, frame.src, frame.routed))
  BY DEF FrameOK, Frame

\* A handler returns to the one that has the k-th frame.
LEMMA Return ==
    ASSUME StackOK, NEW k \in 1 .. Len(stack), NEW x,
           Resumed(SubSeq(stack, 1, k), x)
    PROVE  /\ StackOK' /\ Busy' /\ Len(stack') = k /\ DOMAIN stack' = 1 .. k
           /\ \A i \in 1 .. k - 1 : stack'[i] = stack[i]
           /\ stack'[k] = Frame(stack[k].call, stack[k].calls \ {x}, stack[k].src, stack[k].routed)
<1> DEFINE returned == Frame(stack[k].call, stack[k].calls \ {x}, stack[k].src, stack[k].routed)
           S == {stack[i] : i \in DOMAIN stack} \cup {returned}
           s == SubSeq(stack, 1, k)
<1>1. DOMAIN stack = 1 .. Len(stack) /\ Len(stack) \in Nat
  BY StackDomain
<1>2. \A i \in 1 .. k : stack[i] \in S
  BY <1>1
<1>3. s \in Seq(S) /\ Len(s) = k /\ \A i \in 1 .. k : s[i] = stack[i]
  <2> HIDE DEF S
  <2>1. k \in Int /\ 1 \in Int /\ 1 <= k /\ k - 1 + 1 = k
    BY <1>1
  <2>2. \A i \in 1 .. k : 1 + i - 1 = i
    BY <1>1
  <2>3. QED
    BY <1>2, <2>1, <2>2, SubSeqProperties
<1>4. stack' = [s EXCEPT ![k] = returned]
  BY <1>3 DEF Resumed
<1>5. /\ stack' \in Seq(S) /\ Len(stack') = k
      /\ \A i \in 1 .. k : stack'[i] = IF i = k THEN returned ELSE stack[i]
  <2>1. k \in 1 .. Len(s) /\ returned \in S
    BY <1>1, <1>3
  <2> HIDE DEF S, returned, s
  <2>2. QED
    BY <2>1, <1>3, <1>4, ExceptSeq
<1>6. DOMAIN stack' = 1 .. k
  <2> HIDE DEF S
  <2> QED  BY <1>5, LenProperties
<1>7. stack' \in Seq({stack'[i] : i \in DOMAIN stack'})
  <2> HIDE DEF S
  <2> QED  BY <1>5, SeqOfItsElements
<1>8. \A i \in DOMAIN stack' : FrameOK(stack'[i])
  <2>1. FrameOK(returned)
    BY <1>1, FewerCalls DEF StackOK
  <2> HIDE DEF returned, S
  <2>2. ASSUME NEW i \in 1 .. k, i # k PROVE FrameOK(stack[i])
    BY <1>1 DEF StackOK
  <2>3. QED
    BY <2>1, <2>2, <1>5, <1>6
<1>9. ASSUME NEW i \in DOMAIN stack', i > 1
      PROVE  stack'[i].call.node \in Composites /\ stack'[i].call \in stack'[i - 1].calls
  <2>1. i \in DOMAIN stack /\ i - 1 \in 1 .. k /\ i - 1 # k
    BY <1>1, <1>6, <1>9
  <2>2. stack'[i].call = stack[i].call
    BY <1>5, <1>6 DEF Frame
  <2>3. stack'[i - 1] = stack[i - 1]
    BY <2>1, <1>5
  <2>4. QED
    BY <2>1, <2>2, <2>3, <1>9 DEF StackOK
<1>10. stack'[1].call.node = Root
  BY <1>1, <1>5 DEF StackOK, Busy, Frame
<1>11. StackOK'
  BY <1>7, <1>8, <1>9, <1>10 DEF StackOK
<1>12. /\ \A i \in 1 .. k - 1 : stack'[i] = stack[i]
       /\ stack'[k] = returned
       /\ Busy'
  <2> HIDE DEF returned, S
  <2> QED  BY <1>1, <1>5, EmptySeq DEF Busy
<1>13. QED
  BY <1>5, <1>6, <1>11, <1>12

\* The frame of a composite node that handles x calls its components.
LEMMA EventFrameOK ==
    ASSUME NEW x, x.node \in Composites, x.port \in Nat, x.event \in Events,
           x.event = "planned" =>
              ImminentNode(x.node) \in Nodes /\ Parent(ImminentNode(x.node)) = x.node
    PROVE  FrameOK(EventFrame(x)) /\ EventFrame(x).call = x
<1> DEFINE f == EventFrame(x)
<1>1. f.call = x /\ f.src = IF x.event = "planned" THEN ImminentNode(x.node) ELSE x.node
  BY DEF EventFrame, Frame
<1>2. \A i \in DOMAIN Children[x.node] :
         Children[x.node][i] \in Nodes /\ Parent(Children[x.node][i]) = x.node
  BY ChildrenAreNodes DEF Parents
<1>3. CASE x.event \in {"initialization", "finalization"}
  <2>1. f.calls = EventForAll(x.node, x.event)
    BY <1>3 DEF EventFrame, Frame
  <2>2. QED
    BY <1>1, <1>2, <1>3, <2>1 DEF FrameOK, EventForAll, Call, Events
<1>4. CASE x.event = "unplanned"
  <2>1. f.calls = DstCalls(inward_dsts(x.node, x.port), x.msg)
    BY <1>4 DEF EventFrame, Frame
  <2>2. ASSUME NEW d \in inward_dsts(x.node, x.port)
        PROVE  d[1] \in Nodes /\ Parent(d[1]) = x.node /\ d[2] \in Nat
    <3>1. PICK l \in InwardLinks : l[1] = x.node /\ d = <<l[3], l[4]>>
      BY DEF inward_dsts
    <3>2. d[1] = l[3] /\ d[2] = l[4]
      BY <3>1
    <3>3. QED
      BY <3>1, <3>2, LinkAssumption
  <2>3. QED
    BY <1>1, <1>4, <2>1, <2>2 DEF FrameOK, DstCalls, Call, Events
<1>5. CASE x.event = "planned"
  <2>1. f.calls = {Call(ImminentNode(x.node), "planned", 0, <<>>)}
    BY <1>5 DEF EventFrame, Frame
  <2>2. QED
    BY <1>1, <1>5, <2>1 DEF FrameOK, Call, Events
<1>6. QED
  BY <1>1, <1>3, <1>4, <1>5 DEF Events

\* The handler of a composite node starts.
LEMMA Entry ==
    ASSUME StackOK, Busy, NEW x \in top.calls, x.node \in Composites,
           NEW frame, FrameOK(frame), frame.call = x,
           stack' = Append(stack, frame)
    PROVE  /\ StackOK' /\ Busy'
           /\ Len(stack') = Len(stack) + 1 /\ DOMAIN stack' = 1 .. Len(stack) + 1
           /\ \A i \in 1 .. Len(stack) : stack'[i] = stack[i]
           /\ stack'[Len(stack) + 1] = frame
<1> DEFINE S == {stack[i] : i \in DOMAIN stack} \cup {frame}
           n == Len(stack)
<1>1. DOMAIN stack = 1 .. n /\ n \in Nat /\ n > 0
  BY StackDomain
<1>2. stack \in Seq(S)
  <2>1. {stack[i] : i \in DOMAIN stack} \subseteq S
    OBVIOUS
  <2> HIDE DEF S
  <2>2. QED
    BY <2>1, SeqMonotonic DEF StackOK
<1>3. /\ stack' \in Seq(S) /\ Len(stack') = n + 1
      /\ \A i \in 1 .. n : stack'[i] = stack[i]
      /\ stack'[n + 1] = frame
  <2>1. frame \in S
    OBVIOUS
  <2> HIDE DEF S
  <2>2. QED
    BY <2>1, <1>2, AppendProperties
<1>4. DOMAIN stack' = 1 .. n + 1
  <2> HIDE DEF S
  <2> QED  BY <1>3, LenProperties
<1>5. stack' \in Seq({stack'[i] : i \in DOMAIN stack'})
  <2> HIDE DEF S
  <2> QED  BY <1>3, SeqOfItsElements
<1> HIDE DEF n, S
<1>6. ASSUME NEW i \in DOMAIN stack' PROVE FrameOK(stack'[i])
  <2>1. CASE i = n + 1
    BY <2>1, <1>3
  <2>2. CASE i # n + 1
    <3>1. i \in 1 .. n
      BY <2>2, <1>1, <1>4
    <3>2. QED
      BY <3>1, <1>1, <1>3 DEF StackOK
  <2>3. QED
    BY <2>1, <2>2
<1>7. ASSUME NEW i \in DOMAIN stack', i > 1
      PROVE  stack'[i].call.node \in Composites /\ stack'[i].call \in stack'[i - 1].calls
  <2>1. CASE i = n + 1
    <3>1. i - 1 = n /\ n \in 1 .. n
      BY <2>1, <1>1
    <3>2. stack'[i - 1] = top /\ stack'[i] = frame
      BY <2>1, <3>1, <1>3 DEF top, n
    <3>3. QED
      BY <3>2
  <2>2. CASE i # n + 1
    <3>1. i \in 1 .. n /\ i - 1 \in 1 .. n
      BY <2>2, <1>1, <1>4, <1>7
    <3>2. stack'[i] = stack[i] /\ stack'[i - 1] = stack[i - 1]
      BY <3>1, <1>3
    <3>3. QED
      BY <3>1, <3>2, <1>1, <1>7 DEF StackOK
  <2>3. QED
    BY <2>1, <2>2
<1>8. stack'[1].call.node = Root
  BY <1>1, <1>3 DEF StackOK
<1>9. StackOK'
  BY <1>5, <1>6, <1>7, <1>8 DEF StackOK
<1>10. Busy'
  BY <1>1, <1>3, EmptySeq DEF Busy
<1>11. QED
  BY <1>3, <1>4, <1>9, <1>10 DEF n

\* The top frame goes on to new calls once its old ones are made.
LEMMA Rerouting ==
    ASSUME StackOK, Busy, NEW frame, FrameOK(frame), frame.call = top.call,
           stack' = [stack EXCEPT ![Len(stack)] = frame]
    PROVE  /\ StackOK' /\ Busy'
           /\ Len(stack') = Len(stack) /\ DOMAIN stack' = 1 .. Len(stack)
           /\ \A i \in 1 .. Len(stack) - 1 : stack'[i] = stack[i]
           /\ stack'[Len(stack)] = frame
<1> DEFINE S == {stack[i] : i \in DOMAIN stack} \cup {frame}
           n == Len(stack)
<1>1. DOMAIN stack = 1 .. n /\ n \in Nat /\ n > 0
  BY StackDomain
<1>2. stack \in Seq(S)
  <2>1. {stack[i] : i \in DOMAIN stack} \subseteq S
    OBVIOUS
  <2> HIDE DEF S
  <2>2. QED
    BY <2>1, SeqMonotonic DEF StackOK
<1>3. /\ stack' \in Seq(S) /\ Len(stack') = n
      /\ \A i \in 1 .. n : stack'[i] = IF i = n THEN frame ELSE stack[i]
  <2>1. frame \in S /\ n \in 1 .. Len(stack)
    BY <1>1
  <2> HIDE DEF S
  <2>2. QED
    BY <2>1, <1>2, ExceptSeq
<1>4. DOMAIN stack' = 1 .. n
  <2> HIDE DEF S
  <2> QED  BY <1>3, LenProperties
<1>5. stack' \in Seq({stack'[i] : i \in DOMAIN stack'})
  <2> HIDE DEF S, n
  <2>1. \A s \in Seq(S) : s \in Seq({s[i] : i \in DOMAIN s})
    BY SeqOfItsElements
  <2>2. QED
    BY <1>3, <2>1, Zenon
<1> HIDE DEF n, S
<1>6. ASSUME NEW i \in DOMAIN stack' PROVE FrameOK(stack'[i])
  BY <1>1, <1>3, <1>4 DEF StackOK
<1>7. ASSUME NEW i \in DOMAIN stack', i > 1
      PROVE  stack'[i].call.node \in Composites /\ stack'[i].call \in stack'[i - 1].calls
  <2>1. i \in 1 .. n /\ i - 1 \in 1 .. n /\ i - 1 # n
    BY <1>1, <1>4, <1>7
  <2>2. stack'[i].call = stack[i].call /\ stack'[i - 1] = stack[i - 1]
    BY <2>1, <1>3 DEF top, n
  <2>3. QED
    BY <2>1, <2>2, <1>1, <1>7 DEF StackOK
<1>8. stack'[1].call.node = Root
  BY <1>1, <1>3 DEF StackOK, top, n
<1>9. StackOK'
  BY <1>5, <1>6, <1>7, <1>8 DEF StackOK
<1>10. /\ \A i \in 1 .. n - 1 : stack'[i] = stack[i]
       /\ stack'[n] = frame
       /\ Busy'
  BY <1>1, <1>3, EmptySeq DEF Busy
<1>11. QED
  BY <1>3, <1>4, <1>9, <1>10 DEF n

-----------------------------------------------------------------------------
(* Planning                                                                *)

\* What a node may be planned for: one time that is not past, or none.
Plannable == {{}} \cup {{u} : u \in {v \in Int : t <= v}}

\* A leaf plans its next event now or later, or plans none.
LEMMA LeafPlans ==
    ASSUME t \in Int, NEW n \in Leaves, PlanNext(n)
    PROVE  /\ \E times \in Plannable : Replanned(n, times)
           /\ last' = [last EXCEPT ![n] = t]
<1>1. PICK dt \in Durations[n] :
            Replanned(n, IF finite(dt) THEN {advance(t, dt)} ELSE {})
  BY DEF PlanNext
<1>2. CASE finite(dt)
  <2>1. dt # inf
    BY <1>2, LimitPhases DEF finite, inf, Duration
  <2>2. dt \in [m : Nat, p : Nat]
    BY <2>1, DurationAssumption, MaxScaleAssumption DEF Scales
  <2>3. advance(t, dt) \in Int /\ t <= advance(t, dt)
    BY <2>2, AdvanceForward
  <2>4. QED
    BY <1>1, <1>2, <2>3 DEF Plannable, PlanNext
<1>3. CASE ~finite(dt)
  BY <1>1, <1>3 DEF Plannable, PlanNext
<1>4. QED
  BY <1>2, <1>3

\* So does a composite node, whose next event is that of a component.
LEMMA CompositePlans ==
    ASSUME t \in Int, NEW c, Timed(due[c]), NoneBefore(due[c], t)
    PROVE  Earliest(due[c]) \in Plannable
<1>1. CASE Earliest(due[c]) = {}
  BY <1>1 DEF Plannable
<1>2. CASE Earliest(due[c]) # {}
  <2>1. PICK u \in Earliest(due[c]) : TRUE
    BY <1>2
  <2>2. u \in Int /\ Earliest(due[c]) = {u} /\ \E i \in DOMAIN due[c] : due[c][i] = u
    BY EarliestTime
  <2>3. t <= u
    BY <2>2 DEF NoneBefore
  <2>4. QED
    BY <2>2, <2>3 DEF Plannable
<1>3. QED
  BY <1>1, <1>2

-----------------------------------------------------------------------------
(* The inductive invariant                                                 *)

\* When process_next_event is called to execute a planned event, the topmost
\* node has one at the current time.
ReadyForEvent ==
    ~Busy /\ started /\ ~finishing /\ failure = "none" =>
        t < EndT /\ Top \in DOMAIN due[Root] /\ due[Root][Top] = t

\* An exception leaves no handler in progress.
Unwound == failure # "none" => ~Busy

Progress == TypeOK /\ StackOK /\ EventsInPeriod /\ t <= EndT /\ ReadyForEvent

\* A planned event that is about to be executed or in progress is the only call
\* of its frame, and its node stays planned for the current time meanwhile.
PlannedDue ==
    \A i \in DOMAIN stack : \A x \in stack[i].calls : x.event = "planned" =>
        /\ stack[i].calls = {x}
        /\ x.node \in DOMAIN due[stack[i].call.node]
        /\ due[stack[i].call.node][x.node] = t

\* Only the composite nodes whose components may be replanned right now are out
\* of step with the queue above.
Replans(c) == \E i \in DOMAIN stack : stack[i].call.node = c /\ stack[i].call.event # "finalization"
OthersInSync == failure = "none" => \A c \in Composites : ~Replans(c) => InSync(c)

Schedule == NothingMissed /\ PlannedDue /\ OthersInSync

\* A handler is called at the right stage of its node's life.
CallsAllowed == \A i \in DOMAIN stack : \A x \in stack[i].calls : LifeAllows(x)

\* No node is ahead of the composite node it is in, except by the event that
\* the composite node is passing on to its components at the moment.
Doing(c, event) == \E i \in DOMAIN stack : stack[i].call.node = c /\ stack[i].call.event = event
Follows(n, c) ==
    /\ life[c] = "new" /\ ~Doing(c, "initialization") /\ ~Doing(c, "finalization")
          => life[n] = "new"
    /\ life[c] # "finalized" /\ ~Doing(c, "finalization") => life[n] # "finalized"
ComponentsFollow == \A c \in Composites : \A n \in Nodes : Parent(n) = c => Follows(n, c)

TopFollows ==
    /\ ~started => ~Busy /\ ~finishing /\ life[Top] = "new"
    /\ ~finishing \/ (~Busy /\ ~finished) => life[Top] # "finalized"

\* Nor is any behind it once it is finalized; while it is being finalized, the
\* components that are not yet are still to be called.
FinalizedBelow ==
    \A c \in Composites : life[c] = "finalized" =>
        \A n \in Nodes : Parent(n) = c => life[n] = "finalized"
FinalizedSoFar ==
    \A i \in DOMAIN stack : stack[i].call.event = "finalization" =>
        \A n \in Nodes : Parent(n) = stack[i].call.node =>
            life[n] = "finalized" \/ Call(n, "finalization", 0, <<>>) \in stack[i].calls

Lives ==
    /\ NoInternalError
    /\ CallsAllowed /\ FinalizedBelow /\ FinalizedSoFar
    /\ failure = "none" => ComponentsFollow /\ TopFollows
    /\ finished => life[Top] = "finalized"

-----------------------------------------------------------------------------
(* What the steps do to the stack                                          *)

\* A leaf handles the next call of the top frame and returns to it.
LEMMA LeafStep ==
    ASSUME StackOK, NEW n \in Leaves, NEW event, LeafEvent(n, event)
    PROVE  /\ Busy /\ NextCall \in top.calls
           /\ NextCall.node = n /\ NextCall.event = event
           /\ Parent(n) = top.call.node
           /\ StackOK' /\ Busy'
           /\ Len(stack') = Len(stack) /\ DOMAIN stack' = 1 .. Len(stack)
           /\ \A i \in 1 .. Len(stack) - 1 : stack'[i] = stack[i]
           /\ stack'[Len(stack)] = Frame(top.call, top.calls \ {NextCall}, top.src, top.routed)
           /\ UNCHANGED <<t, failure>>
<1>1. Busy /\ NextCall \in top.calls /\ NextCall.node = n /\ NextCall.event = event
  BY NextCallPending DEF LeafEvent
<1>2. Parent(n) = top.call.node
  BY <1>1, StackDomain DEF StackOK, FrameOK, top
<1>3. Len(stack) \in 1 .. Len(stack) /\ SubSeq(stack, 1, Len(stack)) = stack
  BY <1>1, StackDomain, SubSeqFull DEF StackOK
<1>4. Resumed(SubSeq(stack, 1, Len(stack)), NextCall)
  BY <1>3 DEF LeafEvent
<1>5. QED
  BY <1>1, <1>2, <1>3, <1>4, Return DEF LeafEvent, top

\* A composite node's handler returns to that of its parent.
LEMMA LeaveStep ==
    ASSUME StackOK, NEW c \in Composites, Handling(c),
           Resumed(SubSeq(stack, 1, Len(stack) - 1), top.call)
    PROVE  /\ Busy /\ top.call.node = c
           /\ Len(stack) - 1 \in 1 .. Len(stack) /\ Len(stack) \in DOMAIN stack
           /\ Len(stack) - 1 \in DOMAIN stack
           /\ top.call \in stack[Len(stack) - 1].calls
           /\ Parent(c) = stack[Len(stack) - 1].call.node
           /\ StackOK' /\ Busy'
           /\ Len(stack') = Len(stack) - 1 /\ DOMAIN stack' = 1 .. Len(stack) - 1
           /\ \A i \in 1 .. Len(stack) - 2 : stack'[i] = stack[i]
           /\ stack'[Len(stack) - 1] =
                 Frame(stack[Len(stack) - 1].call, stack[Len(stack) - 1].calls \ {top.call},
                       stack[Len(stack) - 1].src, stack[Len(stack) - 1].routed)
<1> DEFINE n == Len(stack)
<1>1. Busy /\ top.call.node = c /\ DOMAIN stack = 1 .. n /\ n \in Nat /\ n > 0
  BY StackDomain DEF Handling
<1>2. n > 1
  <2>1. c # Root
    BY TreeAssumption DEF Nodes
  <2>2. n # 1
    BY <1>1, <2>1 DEF StackOK, top
  <2>3. QED
    BY <1>1, <2>2
<1>3. n - 1 \in 1 .. n /\ n \in DOMAIN stack /\ n - 1 \in DOMAIN stack
  BY <1>1, <1>2
<1>4. top.call \in stack[n - 1].calls
  BY <1>2, <1>3 DEF StackOK, top
<1>5. Parent(c) = stack[n - 1].call.node
  BY <1>1, <1>3, <1>4 DEF StackOK, FrameOK
<1>6. n - 1 - 1 = n - 2
  BY <1>1
<1>7. QED
  BY <1>1, <1>3, <1>4, <1>5, <1>6, Return

\* A composite node's handler starts with a frame of its own.
LEMMA EnterStep ==
    ASSUME TypeOK, StackOK, NEW c \in Composites, Enter(c)
    PROVE  \/ /\ Busy /\ NextCall \in top.calls /\ NextCall.node = c
              /\ ~(QueueAllows(NextCall) /\ LifeAllows(NextCall))
              /\ Abort("internal")
           \/ /\ Busy /\ NextCall \in top.calls /\ NextCall.node = c
              /\ Parent(c) = top.call.node
              /\ QueueAllows(NextCall) /\ LifeAllows(NextCall)
              /\ FrameOK(EventFrame(NextCall)) /\ EventFrame(NextCall).call = NextCall
              /\ StackOK' /\ Busy'
              /\ Len(stack') = Len(stack) + 1 /\ DOMAIN stack' = 1 .. Len(stack) + 1
              /\ \A i \in 1 .. Len(stack) : stack'[i] = stack[i]
              /\ stack'[Len(stack) + 1] = EventFrame(NextCall)
              /\ UNCHANGED <<t, nodeVars, failure>>
<1>1. Busy /\ NextCall \in top.calls /\ NextCall.node = c
  BY NextCallPending DEF Enter
<1>2. /\ Parent(c) = top.call.node
      /\ NextCall.port \in Nat /\ NextCall.event \in Events
  BY <1>1, StackDomain DEF StackOK, FrameOK, top
<1>3. CASE QueueAllows(NextCall) /\ LifeAllows(NextCall)
  <2>1. stack' = Append(stack, EventFrame(NextCall)) /\ UNCHANGED <<t, nodeVars, failure>>
    BY <1>3 DEF Enter
  <2>2. ASSUME NextCall.event = "planned"
        PROVE  ImminentNode(c) \in Nodes /\ Parent(ImminentNode(c)) = c
    <3>1. NoneBefore(due[c], t) /\ DOMAIN due[c] # {}
      BY <1>1, <1>3, <2>2 DEF QueueAllows
    <3>2. \A n \in DOMAIN due[c] : n \in Nodes /\ Parent(n) = c /\ due[c][n] \in Int
      BY DEF TypeOK, Parents
    <3>3. Timed(due[c]) /\ t \in Int
      BY <3>2 DEF Timed, TypeOK
    <3>4. ImminentNode(c) \in Imminent(due[c])
      BY <3>1, <3>2, <3>3, ImminentNodeChosen
    <3>5. QED
      BY <3>2, <3>4 DEF Imminent
  <2>3. FrameOK(EventFrame(NextCall)) /\ EventFrame(NextCall).call = NextCall
    BY <1>1, <1>2, <2>2, EventFrameOK
  <2>4. /\ StackOK' /\ Busy'
        /\ Len(stack') = Len(stack) + 1 /\ DOMAIN stack' = 1 .. Len(stack) + 1
        /\ \A i \in 1 .. Len(stack) : stack'[i] = stack[i]
        /\ stack'[Len(stack) + 1] = EventFrame(NextCall)
    BY <1>1, <2>1, <2>3, Entry
  <2>5. QED
    BY <1>1, <1>2, <1>3, <2>1, <2>3, <2>4
<1>4. CASE ~(QueueAllows(NextCall) /\ LifeAllows(NextCall))
  BY <1>1, <1>4 DEF Enter
<1>5. QED
  BY <1>3, <1>4

\* An exception, or the end of the simulation's own handler, leaves no frame.
LEMMA EmptyStack ==
    ASSUME stack' = <<>>
    PROVE  StackOK' /\ ~Busy' /\ DOMAIN stack' = {}
  BY EmptySeq DEF StackOK, Busy

\* The frame of a composite node goes on to the next message.
LEMMA NextMessageStep ==
    ASSUME StackOK, NEW c \in Composites, NextMessage(c)
    PROVE  /\ Busy /\ top.call.node = c /\ top.call.event = "planned"
           /\ StackOK' /\ Busy'
           /\ Len(stack') = Len(stack) /\ DOMAIN stack' = 1 .. Len(stack)
           /\ \A i \in 1 .. Len(stack) - 1 : stack'[i] = stack[i]
           /\ stack'[Len(stack)].call = top.call
           /\ \A x \in stack'[Len(stack)].calls : x.event = "unplanned"
<1> DEFINE m == outputs[top.src][top.routed + 1]
           dsts == inner_dsts(top.src, m.port)
           frame == Frame(top.call, DstCalls(dsts, m.msg), top.src, top.routed + 1)
<1>1. Busy /\ top.call.node = c /\ top.call.event = "planned"
  BY DEF NextMessage, Handling
<1>2. top.src \in Nodes /\ Parent(top.src) = c
  BY <1>1, StackDomain DEF StackOK, FrameOK, top
<1>3. ASSUME NEW d \in dsts
      PROVE  d[1] \in Nodes /\ Parent(d[1]) = c /\ d[2] \in Nat
  <2>1. PICK l \in InnerLinks : l[1] = top.src /\ d = <<l[3], l[4]>>
    BY DEF inner_dsts
  <2>2. d[1] = l[3] /\ d[2] = l[4]
    BY <2>1
  <2>3. QED
    BY <1>2, <2>1, <2>2, LinkAssumption
<1>4. \A x \in frame.calls : x.event = "unplanned"
  BY DEF Frame, DstCalls, Call
<1>5. FrameOK(frame) /\ frame.call = top.call
  BY <1>1, <1>2, <1>3 DEF FrameOK, Frame, DstCalls, Call, Events
<1>6. stack' = [stack EXCEPT ![Len(stack)] = frame]
  BY DEF NextMessage, top
<1> HIDE DEF frame
<1>7. QED
  BY <1>1, <1>4, <1>5, <1>6, Rerouting

\* process_next_event starts with one frame, for the topmost node.
LEMMA BeginStep ==
    ASSUME NEW event \in Events, Begin(event)
    PROVE  /\ StackOK' /\ Busy' /\ Len(stack') = 1 /\ DOMAIN stack' = {1}
           /\ stack'[1] = Frame(Call(Root, event, 0, <<>>), {Call(Top, event, 0, <<>>)}, Root, 0)
<1> DEFINE frame == Frame(Call(Root, event, 0, <<>>), {Call(Top, event, 0, <<>>)}, Root, 0)
<1>1. stack' = <<frame>> /\ Len(stack') = 1 /\ DOMAIN stack' = {1} /\ stack'[1] = frame /\ Busy'
  BY DEF Begin, Busy
<1>2. Top \in Nodes /\ Parent(Top) = Root
  <2>1. 1 \in DOMAIN Children[Root] /\ Children[Root][1] = Top
    BY TopAssumption
  <2>2. QED
    BY <2>1, ChildrenAreNodes DEF Parents
<1>3. FrameOK(frame)
  <2>1. Root \notin Composites
    BY TreeAssumption DEF Nodes
  <2>2. QED
    BY <1>2, <2>1 DEF FrameOK, Frame, Call, Events
<1>4. frame.call.node = Root
  BY DEF Frame, Call
<1> HIDE DEF frame
<1>5. stack' \in Seq({stack'[i] : i \in DOMAIN stack'})
  BY <1>1
<1>6. StackOK'
  BY <1>1, <1>3, <1>4, <1>5 DEF StackOK
<1>7. QED
  BY <1>1, <1>6 DEF frame

-----------------------------------------------------------------------------
(* Which events are in progress                                            *)

LEMMA ProgressInit == Init => Progress
<1> SUFFICES ASSUME Init PROVE Progress
  OBVIOUS
<1>1. StackOK /\ ~Busy /\ DOMAIN stack = {}
  BY EmptySeq DEF Init, StackOK, Busy
<1>2. TypeOK
  <2>1. DOMAIN due = Parents /\ \A c \in Parents : DOMAIN due[c] = {}
    BY DEF Init, EmptyTimetable
  <2>2. t \in Int /\ last \in [Leaves -> Int] /\ told \in [Leaves -> Int]
    BY TimeAssumption DEF Init
  <2>3. /\ life \in [Nodes -> {"new", "initialized", "finalized"}]
        /\ failure \in {"none", "node", "internal"}
        /\ started \in BOOLEAN /\ finishing \in BOOLEAN /\ finished \in BOOLEAN
    BY DEF Init
  <2>4. QED
    BY <2>1, <2>2, <2>3 DEF TypeOK
<1>3. EventsInPeriod /\ t <= EndT /\ ReadyForEvent
  BY <1>1, TimeAssumption DEF Init, EventsInPeriod, ReadyForEvent
<1>4. QED
  BY <1>1, <1>2, <1>3 DEF Progress

\* The calls a well-formed frame makes are in the simulated period if its own
\* call is.
LEMMA CallsInPeriod ==
    ASSUME NEW frame, FrameOK(frame), frame.call.event \in Events, InPeriod(frame.call),
           NEW x \in frame.calls
    PROVE  InPeriod(x)
  BY DEF FrameOK, InPeriod, Events, Call

\* Replanning one node keeps the queues well typed.
LEMMA ReplannedTyped ==
    ASSUME TypeOK, NEW n \in Nodes, NEW times, Replanned(n, times),
           times = {} \/ \E u \in Int : times = {u}
    PROVE  /\ DOMAIN due' = Parents
           /\ \A c \in Parents : \A m \in DOMAIN due'[c] :
                 m \in Nodes /\ Parent(m) = c /\ due'[c][m] \in Int
<1> DEFINE p == Parent(n)
<1>1. DOMAIN due = Parents
  BY DEF TypeOK
<1>2. /\ DOMAIN due' = Parents
      /\ \A c \in Parents : c # p => due'[c] = due[c]
      /\ \A m : m # n =>
            /\ m \in DOMAIN due'[p] <=> m \in DOMAIN due[p]
            /\ m \in DOMAIN due[p] => due'[p][m] = due[p][m]
      /\ times = {} => n \notin DOMAIN due'[p]
      /\ \A u : times = {u} => n \in DOMAIN due'[p] /\ due'[p][n] = u
  BY <1>1, Replanning
<1>3. p \in Parents
  BY ParentAndIndex
<1>4. n \in DOMAIN due'[p] => due'[p][n] \in Int
  BY <1>2
<1>5. ASSUME NEW m \in DOMAIN due'[p]
      PROVE  m \in Nodes /\ Parent(m) = p /\ due'[p][m] \in Int
  <2>1. CASE m = n
    BY <1>4, <2>1
  <2>2. CASE m # n
    BY <1>2, <1>3, <2>2 DEF TypeOK
  <2>3. QED
    BY <2>1, <2>2
<1>6. ASSUME NEW c \in Parents, c # p, NEW m \in DOMAIN due'[c]
      PROVE  m \in Nodes /\ Parent(m) = c /\ due'[c][m] \in Int
  BY <1>2, <1>6 DEF TypeOK
<1>7. QED
  BY <1>2, <1>5, <1>6

\* The duration since its last event that a leaf is told.
LEMMA ElapsedType ==
    ASSUME TypeOK, NEW n \in Leaves
    PROVE  elapsed_dt(n) \in Int
<1>1. t \in Int /\ last[n] \in Int /\ TimePrecision[n] \in Nat
  BY DurationAssumption, MaxScaleAssumption DEF TypeOK, Scales
<1>2. Floor(t, TimePrecision[n]) \in Int /\ Floor(last[n], TimePrecision[n]) \in Int
  BY <1>1, FloorBounds
<1>3. QED
  BY <1>2 DEF elapsed_dt

\* The topmost node is the only component of the root.
LEMMA OnlyTop ==
    ASSUME NEW n \in Nodes, Parent(n) = Root
    PROVE  n = Top
<1>1. Index(n) \in DOMAIN Children[Root] /\ Children[Root][Index(n)] = n
  BY ParentAndIndex
<1>2. DOMAIN Children[Root] = {1} /\ Children[Root][1] = Top
  BY TopAssumption
<1>3. QED
  BY <1>1, <1>2

\* advance_time moves to an earlier planned event or to the end, never beyond;
\* if it does not finish, it moves to the earliest event.
LEMMA AdvanceTime ==
    ASSUME TypeOK, t <= EndT, advance_time
    PROVE  /\ t' \in Int /\ t' <= EndT /\ finishing' \in BOOLEAN
           /\ ~finishing' => t' < EndT /\ Earliest(due[Root]) = {t'}
           /\ \A u \in Earliest(due[Root]) : t' = t \/ t' <= u
           /\ t' = t \/ t' = EndT \/ t' \in Earliest(due[Root])
<1> DEFINE planned == Earliest(due[Root])
<1>1. Timed(due[Root]) /\ t \in Int /\ EndT \in Int
  BY TimeAssumption DEF TypeOK, Timed, Parents
<1>2. CASE planned = {}
  <2>1. (t' = t \/ t' = EndT) /\ (finishing' = TRUE \/ (finishing' = (t' >= EndT) /\ t' = EndT))
    BY <1>2 DEF advance_time
  <2>2. EndT >= EndT
    BY <1>1
  <2>3. finishing' = TRUE
    BY <2>1, <2>2, Zenon
  <2>4. QED
    BY <1>1, <1>2, <2>1, <2>3
<1>3. CASE planned # {}
  <2>1. PICK u \in planned : u \in Int /\ planned = {u}
    BY <1>1, <1>3, EarliestTime
  <2>2. (CHOOSE v \in planned : TRUE) = u
    BY <2>1
  <2>3. /\ t' = IF t \in planned THEN t ELSE IF u > EndT THEN EndT ELSE u
        /\ finishing' = (t' >= EndT)
    BY <1>3, <2>2 DEF advance_time
  <2>4. /\ t' \in Int /\ t' <= EndT
        /\ ~(t' >= EndT) => t' < EndT /\ planned = {t'}
        /\ \A v \in planned : t' = t \/ t' <= v
        /\ t' = t \/ t' = EndT \/ t' \in planned
    BY <1>1, <2>1, <2>3
  <2>5. finishing' \in BOOLEAN /\ (~finishing' => ~(t' >= EndT))
    <3> DEFINE over == t' >= EndT
    <3>1. finishing' = over
      BY <2>3
    <3>2. over \in BOOLEAN
      BY <1>1, <2>4
    <3> HIDE DEF over
    <3>3. finishing' \in BOOLEAN /\ (~finishing' => ~over)
      BY <3>1, <3>2
    <3>4. QED
      BY <3>3 DEF over
  <2>6. QED
    BY <2>4, <2>5
<1>4. QED
  BY <1>2, <1>3

flags == <<started, finishing, finished>>

\* A leaf's new time of last event and plan are well typed.
LEMMA PlanNextTyped ==
    ASSUME TypeOK, NEW n \in Leaves, PlanNext(n)
    PROVE  /\ DOMAIN due' = Parents
           /\ \A c \in Parents : \A m \in DOMAIN due'[c] :
                 m \in Nodes /\ Parent(m) = c /\ due'[c][m] \in Int
           /\ last' \in [Leaves -> Int]
<1>1. t \in Int /\ last \in [Leaves -> Int] /\ n \in Nodes
  BY DEF TypeOK, Nodes
<1>2. PICK times \in Plannable : Replanned(n, times) /\ last' = [last EXCEPT ![n] = t]
  BY <1>1, LeafPlans
<1>3. times = {} \/ \E u \in Int : times = {u}
  BY DEF Plannable
<1>4. QED
  BY <1>1, <1>2, <1>3, ReplannedTyped

\* Every step of a node keeps the state well typed.
LEMMA LeafTyped ==
    ASSUME TypeOK, NEW n \in Leaves, UNCHANGED flags,
           \/ LeafInitialization(n) \/ LeafPlannedEvent(n)
           \/ LeafUnplannedEvent(n) \/ LeafFinalization(n)
    PROVE  TypeOK'
<1>1. n \in Nodes /\ elapsed_dt(n) \in Int
  BY ElapsedType DEF Nodes
<1>2. life' \in [Nodes -> {"new", "initialized", "finalized"}]
  BY <1>1 DEF TypeOK, LeafInitialization, LeafPlannedEvent, LeafUnplannedEvent, LeafFinalization
<1>3. told' \in [Leaves -> Int]
  BY <1>1 DEF TypeOK, LeafInitialization, LeafPlannedEvent, LeafUnplannedEvent, LeafFinalization
<1>4. UNCHANGED <<t, failure, started, finishing, finished>>
  BY DEF flags, LeafEvent, LeafInitialization, LeafPlannedEvent, LeafUnplannedEvent, LeafFinalization
<1>5. /\ DOMAIN due' = Parents
      /\ \A c \in Parents : \A m \in DOMAIN due'[c] :
            m \in Nodes /\ Parent(m) = c /\ due'[c][m] \in Int
      /\ last' \in [Leaves -> Int]
  <2>1. CASE PlanNext(n)
    BY <2>1, PlanNextTyped
  <2>2. CASE UNCHANGED <<due, last>>
    BY <2>2 DEF TypeOK
  <2>3. QED
    BY <2>1, <2>2
    DEF LeafInitialization, LeafPlannedEvent, LeafUnplannedEvent, LeafFinalization
<1>6. QED
  BY <1>2, <1>3, <1>4, <1>5 DEF TypeOK

\* The effect of the return of a composite node's handler on its caller's queue.
LEMMA LeaveReplans ==
    ASSUME TypeOK, NEW c \in Composites, Leave(c)
    PROVE  \/ top.call.event = "finalization" /\ UNCHANGED due
           \/ /\ top.call.event # "finalization"
              /\ Replanned(c, Earliest(due[c]))
              /\ Earliest(due[c]) = {} \/ \E u \in Int : Earliest(due[c]) = {u}
<1>1. Timed(due[c])
  BY DEF TypeOK, Timed, Parents
<1>2. Earliest(due[c]) = {} \/ \E u \in Int : Earliest(due[c]) = {u}
  BY <1>1, EarliestTime
<1>3. QED
  BY <1>2 DEF Leave

LEMMA LeaveTyped ==
    ASSUME TypeOK, NEW c \in Composites, Leave(c), UNCHANGED flags
    PROVE  TypeOK'
<1>1. c \in Nodes
  BY DEF Nodes
<1>2. /\ DOMAIN due' = Parents
      /\ \A d \in Parents : \A m \in DOMAIN due'[d] :
            m \in Nodes /\ Parent(m) = d /\ due'[d][m] \in Int
  <2>1. CASE UNCHANGED due
    BY <2>1 DEF TypeOK
  <2>2. CASE /\ Replanned(c, Earliest(due[c]))
             /\ Earliest(due[c]) = {} \/ \E u \in Int : Earliest(due[c]) = {u}
    BY <1>1, <2>2, ReplannedTyped
  <2>3. QED
    BY <2>1, <2>2, LeaveReplans
<1>3. life' \in [Nodes -> {"new", "initialized", "finalized"}]
  BY <1>1 DEF TypeOK, Leave
<1>4. UNCHANGED <<t, last, told, failure, started, finishing, finished>>
  BY DEF Leave, flags
<1>5. QED
  BY <1>2, <1>3, <1>4 DEF TypeOK

\* A step that leaves the time alone keeps what its frames do not add.
LEMMA PeriodKept ==
    ASSUME UNCHANGED <<t, finishing>>,
           \A i \in DOMAIN stack' : \A x \in {stack'[i].call} \cup stack'[i].calls : InPeriod(x)
    PROVE  EventsInPeriod'
  BY DEF EventsInPeriod, InPeriod

\* An exception keeps everything but the stack.
LEMMA ProgressAbort ==
    ASSUME Progress, NEW reason \in {"node", "internal"}, Abort(reason), UNCHANGED flags
    PROVE  Progress'
<1>1. stack' = <<>> /\ UNCHANGED <<t, due, last, told, life, flags>> /\ failure' = reason
  BY DEF Abort, nodeVars
<1>2. StackOK' /\ ~Busy' /\ DOMAIN stack' = {}
  BY <1>1, EmptyStack
<1>3. TypeOK'
  BY <1>1 DEF Progress, TypeOK, flags
<1>4. EventsInPeriod' /\ ReadyForEvent' /\ (t <= EndT)'
  BY <1>1, <1>2 DEF Progress, EventsInPeriod, ReadyForEvent
<1>5. QED
  BY <1>2, <1>3, <1>4 DEF Progress

\* A step of one node that leaves the path of handlers well formed.
LEMMA ProgressNode ==
    ASSUME Progress, TypeOK', StackOK', Busy', UNCHANGED <<t, flags>>,
           \A i \in DOMAIN stack' : \A x \in {stack'[i].call} \cup stack'[i].calls : InPeriod(x)
    PROVE  Progress'
<1>1. EventsInPeriod'
  BY PeriodKept DEF flags
<1>2. ReadyForEvent' /\ (t <= EndT)'
  BY DEF Progress, ReadyForEvent
<1>3. QED
  BY <1>1, <1>2 DEF Progress

LEMMA ProgressLeaf ==
    ASSUME Progress, NEW n \in Leaves, UNCHANGED flags,
           \/ LeafInitialization(n) \/ LeafPlannedEvent(n)
           \/ LeafUnplannedEvent(n) \/ LeafFinalization(n)
    PROVE  Progress'
<1> USE DEF Progress
<1>1. TypeOK'
  BY LeafTyped
<1>2. PICK event : LeafEvent(n, event)
  BY DEF LeafInitialization, LeafPlannedEvent, LeafUnplannedEvent, LeafFinalization
<1>3. /\ Busy /\ StackOK' /\ Busy'
      /\ Len(stack') = Len(stack) /\ DOMAIN stack' = 1 .. Len(stack)
      /\ \A i \in 1 .. Len(stack) - 1 : stack'[i] = stack[i]
      /\ stack'[Len(stack)] = Frame(top.call, top.calls \ {NextCall}, top.src, top.routed)
      /\ UNCHANGED <<t, failure>>
  BY <1>2, LeafStep
<1>4. DOMAIN stack = 1 .. Len(stack) /\ Len(stack) \in Nat /\ Len(stack) > 0
  BY <1>3, StackDomain
<1>5. ASSUME NEW i \in DOMAIN stack', NEW x \in {stack'[i].call} \cup stack'[i].calls
      PROVE  InPeriod(x)
  <2>1. x \in {stack[i].call} \cup stack[i].calls /\ i \in DOMAIN stack
    BY <1>3, <1>4, <1>5 DEF top, Frame
  <2>2. QED
    BY <2>1 DEF EventsInPeriod
<1>6. QED
  BY <1>1, <1>3, <1>4, <1>5, ProgressNode

LEMMA ProgressEnter ==
    ASSUME Progress, NEW c \in Composites, Enter(c), UNCHANGED flags
    PROVE  Progress'
<1> DEFINE frame == EventFrame(NextCall)
           n == Len(stack)
<1>1. CASE Abort("internal")
  BY <1>1, ProgressAbort
<1>2. CASE ~Abort("internal")
  <2>1. /\ Busy /\ NextCall \in top.calls
        /\ FrameOK(frame) /\ frame.call = NextCall
        /\ StackOK' /\ Busy' /\ DOMAIN stack' = 1 .. n + 1
        /\ \A i \in 1 .. n : stack'[i] = stack[i]
        /\ stack'[n + 1] = frame
        /\ UNCHANGED <<t, nodeVars, failure>>
    BY <1>2, EnterStep DEF Progress
  <2>2. DOMAIN stack = 1 .. n /\ n \in Nat /\ n > 0
    BY <2>1, StackDomain DEF Progress
  <2>3. TypeOK'
    BY <2>1 DEF Progress, TypeOK, nodeVars, flags
  <2>4. NextCall.event \in Events /\ InPeriod(NextCall)
    <3>1. NextCall.event \in Events
      BY <2>1, <2>2 DEF Progress, StackOK, FrameOK, top
    <3>2. InPeriod(NextCall)
      BY <2>1, <2>2 DEF Progress, EventsInPeriod, top
    <3>3. QED
      BY <3>1, <3>2
  <2>5. ASSUME NEW i \in DOMAIN stack', NEW x \in {stack'[i].call} \cup stack'[i].calls
        PROVE  InPeriod(x)
    <3>1. CASE i = n + 1
      <4>1. x = NextCall \/ x \in frame.calls
        BY <2>1, <3>1
      <4>2. QED
        BY <2>1, <2>4, <4>1, CallsInPeriod
    <3>2. CASE i # n + 1
      <4>1. i \in DOMAIN stack /\ stack'[i] = stack[i]
        BY <2>1, <2>2, <3>2
      <4>2. QED
        BY <4>1 DEF Progress, EventsInPeriod
    <3>3. QED
      BY <3>1, <3>2
  <2>6. QED
    BY <2>1, <2>3, <2>5, ProgressNode
<1>3. QED
  BY <1>1, <1>2

LEMMA ProgressNextMessage ==
    ASSUME Progress, NEW c \in Composites, NextMessage(c), UNCHANGED flags
    PROVE  Progress'
<1> DEFINE n == Len(stack)
<1>1. /\ Busy /\ top.call.event = "planned"
      /\ StackOK' /\ Busy' /\ DOMAIN stack' = 1 .. n
      /\ \A i \in 1 .. n - 1 : stack'[i] = stack[i]
      /\ stack'[n].call = top.call
      /\ \A x \in stack'[n].calls : x.event = "unplanned"
  BY NextMessageStep DEF Progress
<1>2. DOMAIN stack = 1 .. n /\ n \in Nat /\ n > 0
  BY <1>1, StackDomain DEF Progress
<1>3. TypeOK' /\ UNCHANGED t
  BY DEF Progress, TypeOK, NextMessage, flags
<1>4. InPeriod(top.call)
  BY <1>2 DEF Progress, EventsInPeriod, top
<1>5. ASSUME NEW i \in DOMAIN stack', NEW x \in {stack'[i].call} \cup stack'[i].calls
      PROVE  InPeriod(x)
  <2>1. CASE i = n
    BY <1>1, <1>4, <2>1 DEF InPeriod
  <2>2. CASE i # n
    <3>1. i \in DOMAIN stack /\ stack'[i] = stack[i]
      BY <1>1, <1>2, <2>2
    <3>2. QED
      BY <3>1 DEF Progress, EventsInPeriod
  <2>3. QED
    BY <2>1, <2>2
<1>6. QED
  BY <1>1, <1>3, <1>5, ProgressNode

LEMMA ProgressLeave ==
    ASSUME Progress, NEW c \in Composites, Leave(c), UNCHANGED flags
    PROVE  Progress'
<1> DEFINE n == Len(stack)
           k == n - 1
<1>1. Handling(c) /\ Resumed(SubSeq(stack, 1, n - 1), top.call) /\ UNCHANGED t
  BY DEF Leave
<1>2. /\ k \in 1 .. n /\ n \in DOMAIN stack /\ k \in DOMAIN stack
      /\ StackOK' /\ Busy' /\ DOMAIN stack' = 1 .. k
      /\ \A i \in 1 .. n - 2 : stack'[i] = stack[i]
      /\ stack'[k] = Frame(stack[k].call, stack[k].calls \ {top.call}, stack[k].src, stack[k].routed)
  BY <1>1, LeaveStep DEF Progress
<1>3. DOMAIN stack = 1 .. n /\ n \in Nat
  BY StackDomain DEF Progress
<1>4. TypeOK'
  BY LeaveTyped DEF Progress
<1>5. ASSUME NEW i \in DOMAIN stack', NEW x \in {stack'[i].call} \cup stack'[i].calls
      PROVE  InPeriod(x)
  <2>1. x \in {stack[i].call} \cup stack[i].calls /\ i \in DOMAIN stack
    <3>1. CASE i = k
      BY <1>2, <3>1 DEF Frame
    <3>2. CASE i # k
      <4>1. i \in 1 .. n - 2 /\ i \in DOMAIN stack
        BY <1>2, <1>3, <3>2
      <4>2. QED
        BY <1>2, <4>1
    <3>3. QED
      BY <3>1, <3>2
  <2>2. QED
    BY <2>1 DEF Progress, EventsInPeriod
<1>6. QED
  BY <1>1, <1>2, <1>4, <1>5, ProgressNode

LEMMA ProgressBegin ==
    ASSUME Progress, NEW event \in {"initialization", "planned", "finalization"},
           Begin(event), started' \in BOOLEAN,
           event = "initialization" => ~finishing,
           event = "planned" => ~finishing /\ started,
           event = "finalization" => finishing
    PROVE  Progress'
<1>1. /\ StackOK' /\ Busy' /\ DOMAIN stack' = {1}
      /\ stack'[1] = Frame(Call(Root, event, 0, <<>>), {Call(Top, event, 0, <<>>)}, Root, 0)
  BY BeginStep DEF Events
<1>2. UNCHANGED <<t, nodeVars, failure, finishing, finished>> /\ ~Busy /\ failure = "none"
  BY DEF Begin
<1>3. TypeOK'
  BY <1>2 DEF Progress, TypeOK, nodeVars
<1>4. ASSUME NEW i \in DOMAIN stack', NEW x \in {stack'[i].call} \cup stack'[i].calls
      PROVE  InPeriod(x)
  <2>1. x.event = event
    BY <1>1 DEF Frame, Call
  <2>2. event = "planned" => t < EndT
    BY <1>2 DEF Progress, ReadyForEvent
  <2>3. QED
    BY <2>1, <2>2 DEF InPeriod
<1>5. EventsInPeriod'
  BY <1>2, <1>4, PeriodKept
<1>6. ReadyForEvent' /\ (t <= EndT)'
  BY <1>1, <1>2 DEF Progress, ReadyForEvent
<1>7. QED
  BY <1>1, <1>3, <1>5, <1>6 DEF Progress

LEMMA ProgressEnd ==
    ASSUME Progress, End
    PROVE  Progress'
<1>1. stack' = <<>> /\ UNCHANGED <<nodeVars, failure, started>>
  BY DEF End
<1>2. StackOK' /\ ~Busy' /\ DOMAIN stack' = {}
  BY <1>1, EmptyStack
<1>3. EventsInPeriod'
  BY <1>2 DEF EventsInPeriod
<1>4. CASE finishing
  <2>1. UNCHANGED <<t, finishing>> /\ finished' = TRUE
    BY <1>4 DEF End
  <2>2. TypeOK' /\ ReadyForEvent' /\ (t <= EndT)'
    BY <1>1, <1>4, <2>1 DEF Progress, TypeOK, ReadyForEvent, nodeVars
  <2>3. QED
    BY <1>2, <1>3, <2>2 DEF Progress
<1>5. CASE ~finishing
  <2>1. advance_time /\ UNCHANGED finished
    BY <1>5 DEF End
  <2>2. /\ t' \in Int /\ t' <= EndT /\ finishing' \in BOOLEAN
        /\ ~finishing' => t' < EndT /\ Earliest(due[Root]) = {t'}
    BY <2>1, AdvanceTime DEF Progress
  <2>3. TypeOK'
    BY <1>1, <2>1, <2>2 DEF Progress, TypeOK, nodeVars
  <2>4. ASSUME ~finishing' PROVE Top \in DOMAIN due[Root] /\ due[Root][Top] = t'
    <3>1. Timed(due[Root]) /\ \A m \in DOMAIN due[Root] : m \in Nodes /\ Parent(m) = Root
      BY DEF Progress, TypeOK, Timed, Parents
    <3>2. PICK m \in DOMAIN due[Root] : due[Root][m] = t'
      BY <2>2, <2>4, <3>1, EarliestTime
    <3>3. m = Top
      BY <3>1, <3>2, OnlyTop
    <3>4. QED
      BY <3>2, <3>3
  <2>5. ReadyForEvent'
    BY <1>1, <2>2, <2>4 DEF ReadyForEvent, nodeVars
  <2>6. QED
    BY <1>2, <1>3, <2>2, <2>3, <2>5 DEF Progress
<1>6. QED
  BY <1>4, <1>5

\* Every step is one of these.
LEMMA StepCases ==
    ASSUME Next
    PROVE  \/ process_initialization_event \/ process_planned_event
           \/ process_finalization_event
           \/ End
           \/ UNCHANGED flags /\ \E n \in Leaves :
                 \/ LeafInitialization(n) \/ LeafPlannedEvent(n)
                 \/ LeafUnplannedEvent(n) \/ LeafFinalization(n)
           \/ UNCHANGED flags /\ \E n \in Leaves : LeafThrows(n)
           \/ UNCHANGED flags /\ \E c \in Composites : Enter(c)
           \/ UNCHANGED flags /\ \E c \in Composites : NextMessage(c)
           \/ UNCHANGED flags /\ \E c \in Composites : Leave(c)
           \/ UNCHANGED vars
  BY DEF Next, Step, Stopped, NodeStep, flags

LEMMA ProgressStep == Progress /\ [Next]_vars => Progress'
<1> SUFFICES ASSUME Progress, [Next]_vars PROVE Progress'
  OBVIOUS
<1>1. CASE process_initialization_event
  BY <1>1, ProgressBegin DEF process_initialization_event
<1>2. CASE process_planned_event
  BY <1>2, ProgressBegin DEF process_planned_event, Progress, TypeOK
<1>3. CASE process_finalization_event
  BY <1>3, ProgressBegin DEF process_finalization_event, Progress, TypeOK
<1>4. CASE End
  BY <1>4, ProgressEnd
<1>5. ASSUME NEW n \in Leaves, UNCHANGED flags,
             \/ LeafInitialization(n) \/ LeafPlannedEvent(n)
             \/ LeafUnplannedEvent(n) \/ LeafFinalization(n)
      PROVE  Progress'
  BY <1>5, ProgressLeaf
<1>6. ASSUME NEW n \in Leaves, UNCHANGED flags, LeafThrows(n) PROVE Progress'
  BY <1>6, ProgressAbort DEF LeafThrows
<1>7. ASSUME NEW c \in Composites, UNCHANGED flags, Enter(c) PROVE Progress'
  BY <1>7, ProgressEnter
<1>8. ASSUME NEW c \in Composites, UNCHANGED flags, NextMessage(c) PROVE Progress'
  BY <1>8, ProgressNextMessage
<1>9. ASSUME NEW c \in Composites, UNCHANGED flags, Leave(c) PROVE Progress'
  BY <1>9, ProgressLeave
<1>10. CASE UNCHANGED vars
  BY <1>10 DEF vars, nodeVars, Progress, TypeOK, StackOK, FrameOK, EventsInPeriod, InPeriod,
     ReadyForEvent, Busy
<1>11. CASE Next
  BY <1>1, <1>2, <1>3, <1>4, <1>5, <1>6, <1>7, <1>8, <1>9, <1>10, <1>11, StepCases
<1>12. QED
  BY <1>10, <1>11

\* Every queue of the tree holds integer times of events of the queue's own
\* components, and the stages of all nodes are well typed, in every simulation.
THEOREM SimulationTyped == Spec => []TypeOK
<1>1. Progress => TypeOK
  BY DEF Progress
<1>2. QED
  BY <1>1, ProgressInit, ProgressStep, PTL DEF Spec

\* No component is given an event of the model at or after the end time, and
\* none is finalized before, however deep in the tree it is.
THEOREM AllEventsInPeriod == Spec => []EventsInPeriod
<1>1. Progress => EventsInPeriod
  BY DEF Progress
<1>2. QED
  BY <1>1, ProgressInit, ProgressStep, PTL DEF Spec

-----------------------------------------------------------------------------
(* What the queues of the tree hold                                        *)

LEMMA ScheduleInit == Init => Schedule
<1> SUFFICES ASSUME Init PROVE Schedule
  OBVIOUS
<1>1. /\ \A c \in Parents : DOMAIN due[c] = {}
      /\ DOMAIN stack = {}
      /\ \A n \in Leaves : last[n] <= t /\ 0 <= told[n]
  BY TimeAssumption DEF Init, EmptyTimetable
<1>2. NothingMissed /\ PlannedDue
  BY <1>1 DEF NothingMissed, NoneBefore, PlannedDue
<1>3. ASSUME NEW c \in Composites PROVE InSync(c)
  <2>1. Parent(c) \in Parents /\ c \in Parents
    BY ParentAndIndex DEF Nodes, Parents
  <2>2. QED
    BY <1>1, <2>1 DEF InSync, TimesOf, Earliest
<1>4. QED
  BY <1>2, <1>3 DEF Schedule, OthersInSync

\* Planning n for a time that is not past misses no event.
LEMMA ReplannedAhead ==
    ASSUME Progress, \A c \in Parents : NoneBefore(due[c], t),
           NEW n \in Nodes, NEW times \in Plannable, Replanned(n, times)
    PROVE  \A c \in Parents : NoneBefore(due'[c], t)
<1> DEFINE p == Parent(n)
<1>1. p \in Parents /\ DOMAIN due = Parents /\ t \in Int
  BY ParentAndIndex DEF Progress, TypeOK
<1>2. /\ \A c \in Parents : c # p => due'[c] = due[c]
      /\ \A m : m # n =>
            /\ m \in DOMAIN due'[p] <=> m \in DOMAIN due[p]
            /\ m \in DOMAIN due[p] => due'[p][m] = due[p][m]
      /\ times = {} => n \notin DOMAIN due'[p]
      /\ \A u : times = {u} => n \in DOMAIN due'[p] /\ due'[p][n] = u
  BY <1>1, Replanning
<1>3. n \in DOMAIN due'[p] => t <= due'[p][n]
  BY <1>2 DEF Plannable
<1>4. NoneBefore(due'[p], t)
  BY <1>1, <1>2, <1>3 DEF NoneBefore
<1>5. QED
  BY <1>2, <1>4

\* Planning n concerns only the queue it is in and n itself.
LEMMA SyncKept ==
    ASSUME DOMAIN due = Parents, NEW n \in Nodes, NEW times, Replanned(n, times),
           NEW c \in Composites, c # n, c # Parent(n), InSync(c)
    PROVE  InSync(c)'
<1> DEFINE p == Parent(n)
<1>1. /\ \A d \in Parents : d # p => due'[d] = due[d]
      /\ \A m : m # n =>
            /\ m \in DOMAIN due'[p] <=> m \in DOMAIN due[p]
            /\ m \in DOMAIN due[p] => due'[p][m] = due[p][m]
  BY Replanning
<1>2. c \in Parents /\ Parent(c) \in Parents
  BY ParentAndIndex DEF Nodes, Parents
<1>3. due'[c] = due[c]
  BY <1>1, <1>2
<1>4. TimesOf(due'[Parent(c)], {c}) = TimesOf(due[Parent(c)], {c})
  <2>1. CASE Parent(c) = p
    BY <1>1, <2>1 DEF TimesOf
  <2>2. CASE Parent(c) # p
    BY <1>1, <1>2, <2>2
  <2>3. QED
    BY <2>1, <2>2
<1>5. QED
  BY <1>3, <1>4 DEF InSync

\* The handler that returns brings its node in step with the queue above.
LEMMA SyncRestored ==
    ASSUME DOMAIN due = Parents, NEW c \in Composites, c # Parent(c),
           Replanned(c, Earliest(due[c])),
           Earliest(due[c]) = {} \/ \E u \in Int : Earliest(due[c]) = {u}
    PROVE  InSync(c)'
<1> DEFINE p == Parent(c)
           times == Earliest(due[c])
<1>1. c \in Nodes /\ c \in Parents
  BY DEF Nodes, Parents
<1>2. /\ \A d \in Parents : d # p => due'[d] = due[d]
      /\ times = {} => c \notin DOMAIN due'[p]
      /\ \A u : times = {u} => c \in DOMAIN due'[p] /\ due'[p][c] = u
  BY <1>1, Replanning
<1>3. due'[c] = due[c]
  BY <1>1, <1>2
<1>4. TimesOf(due'[p], {c}) = times
  <2>1. CASE times = {}
    BY <1>2, <2>1 DEF TimesOf
  <2>2. CASE times # {}
    <3>1. PICK u : times = {u}
      BY <2>2
    <3>2. c \in DOMAIN due'[p] /\ due'[p][c] = u
      BY <1>2, <3>1
    <3> HIDE DEF times
    <3>3. QED
      BY <3>1, <3>2 DEF TimesOf
  <2>3. QED
    BY <2>1, <2>2
<1>5. QED
  BY <1>3, <1>4 DEF InSync

\* The handlers in progress are those of different nodes.
LEMMA HandlersDistinct ==
    ASSUME StackOK, NEW i \in DOMAIN stack, NEW j \in DOMAIN stack, i < j
    PROVE  stack[i].call.node # stack[j].call.node
<1>1. DOMAIN stack = 1 .. Len(stack) /\ Len(stack) \in Nat
  BY StackDomain
<1>2. j > 1 /\ j - 1 \in DOMAIN stack /\ i \in 1 .. j - 1
  BY <1>1
<1>3. stack[j].call \in stack[j - 1].calls
  BY <1>2 DEF StackOK
<1>4. stack[j].call.node \in Nodes /\ Parent(stack[j].call.node) = stack[j - 1].call.node
  BY <1>2, <1>3 DEF StackOK, FrameOK
<1>5. QED
  BY <1>2, <1>4, NotInProgress

\* What a leaf is told adds up to a duration that is not negative.
LEMMA ElapsedNonNegative ==
    ASSUME TypeOK, NEW n \in Leaves, last[n] <= t
    PROVE  elapsed_dt(n) \in Int /\ 0 <= elapsed_dt(n)
<1>1. t \in Int /\ last[n] \in Int /\ TimePrecision[n] \in Nat
  BY DurationAssumption, MaxScaleAssumption DEF TypeOK, Scales
<1>2. /\ Floor(t, TimePrecision[n]) \in Int /\ Floor(last[n], TimePrecision[n]) \in Int
      /\ Floor(last[n], TimePrecision[n]) <= Floor(t, TimePrecision[n])
  BY <1>1, FloorBounds, FloorMonotone
<1>3. QED
  BY <1>2 DEF elapsed_dt

LEMMA ScheduleLeaf ==
    ASSUME Progress, Schedule, NEW n \in Leaves,
           \/ LeafInitialization(n) \/ LeafPlannedEvent(n)
           \/ LeafUnplannedEvent(n) \/ LeafFinalization(n)
    PROVE  Schedule'
<1> DEFINE k == Len(stack)
           p == top.call.node
<1>1. PICK event \in Events : LeafEvent(n, event)
  BY DEF LeafInitialization, LeafPlannedEvent, LeafUnplannedEvent, LeafFinalization, Events
<1>2. /\ Busy /\ NextCall \in top.calls /\ NextCall.node = n /\ NextCall.event = event
      /\ Parent(n) = p
      /\ DOMAIN stack' = 1 .. k
      /\ \A i \in 1 .. k - 1 : stack'[i] = stack[i]
      /\ stack'[k] = Frame(top.call, top.calls \ {NextCall}, top.src, top.routed)
      /\ UNCHANGED <<t, failure>>
  BY <1>1, LeafStep DEF Progress
<1>3. DOMAIN stack = 1 .. k /\ k \in Nat /\ k > 0
  BY <1>2, StackDomain DEF Progress
<1>4. \A i \in DOMAIN stack' : stack'[i].call = stack[i].call /\ stack'[i].calls \subseteq stack[i].calls
  BY <1>2, <1>3 DEF top, Frame
<1>5. n \in Nodes /\ p \in Parents /\ DOMAIN due = Parents /\ t \in Int
  BY <1>2, ParentAndIndex DEF Nodes, Progress, TypeOK
<1>6. \A c : Replans(c)' <=> Replans(c)
  BY <1>2, <1>3, <1>4 DEF Replans
<1>7. ASSUME NEW m \in Leaves PROVE last'[m] <= t' /\ 0 <= told'[m]
  <2>1. /\ last' = last \/ last' = [last EXCEPT ![n] = t]
        /\ told' = told \/ told' = [told EXCEPT ![n] = @ + elapsed_dt(n)]
    BY DEF PlanNext, LeafInitialization, LeafPlannedEvent, LeafUnplannedEvent, LeafFinalization
  <2>2. last \in [Leaves -> Int] /\ told \in [Leaves -> Int]
    BY DEF Progress, TypeOK
  <2>3. /\ \A l \in Leaves : last[l] <= t /\ 0 <= told[l]
        /\ elapsed_dt(n) \in Int /\ 0 <= elapsed_dt(n)
    BY ElapsedNonNegative DEF Schedule, NothingMissed, Progress
  <2>4. QED
    BY <1>2, <1>5, <2>1, <2>2, <2>3
<1>8. CASE event = "finalization"
  <2>1. UNCHANGED due
    BY <1>1, <1>2, <1>8
    DEF LeafEvent, LeafInitialization, LeafPlannedEvent, LeafUnplannedEvent, LeafFinalization
  <2>2. NothingMissed'
    BY <1>2, <1>7, <2>1 DEF Schedule, NothingMissed
  <2>3. PlannedDue'
    BY <1>2, <1>3, <1>4, <2>1 DEF Schedule, PlannedDue
  <2>4. OthersInSync'
    BY <1>2, <1>6, <2>1 DEF Schedule, OthersInSync, InSync
  <2>5. QED
    BY <2>2, <2>3, <2>4 DEF Schedule
<1>9. CASE event # "finalization"
  <2>1. PICK times \in Plannable : Replanned(n, times)
    <3>1. PlanNext(n)
      BY <1>1, <1>2, <1>9
      DEF LeafEvent, LeafInitialization, LeafPlannedEvent, LeafUnplannedEvent, LeafFinalization
    <3>2. QED
      BY <1>5, <3>1, LeafPlans
  <2>2. NothingMissed'
    <3>1. \A c \in Parents : NoneBefore(due'[c], t)
      BY <1>5, <2>1, ReplannedAhead DEF Schedule, NothingMissed
    <3>2. QED
      BY <1>2, <1>7, <3>1 DEF NothingMissed
  <2>3. \A c \in Parents : c # p => due'[c] = due[c]
    BY <1>2, <1>5, <2>1, Replanning
  <2>4. ASSUME NEW i \in DOMAIN stack', NEW x \in stack'[i].calls, x.event = "planned"
        PROVE  /\ stack'[i].calls = {x}
               /\ x.node \in DOMAIN due'[stack'[i].call.node]
               /\ due'[stack'[i].call.node][x.node] = t'
    <3>1. i \in DOMAIN stack /\ x \in stack[i].calls
      BY <1>2, <1>3, <1>4
    <3>2. stack[i].calls = {x} /\ x.node \in DOMAIN due[stack[i].call.node]
          /\ due[stack[i].call.node][x.node] = t
      BY <2>4, <3>1 DEF Schedule, PlannedDue
    <3>3. i # k
      BY <1>2, <2>4, <3>2 DEF top, Frame
    <3>4. i < k /\ k \in DOMAIN stack /\ stack'[i] = stack[i]
      BY <1>2, <1>3, <3>1, <3>3
    <3>5. stack[i].call.node # p
      BY <3>1, <3>4, HandlersDistinct DEF Progress, top
    <3>6. stack[i].call.node \in Parents
      <4>1. x.node \in Nodes /\ Parent(x.node) = stack[i].call.node
        BY <3>1 DEF Progress, StackOK, FrameOK
      <4>2. QED
        BY <4>1, ParentAndIndex
    <3>7. due'[stack[i].call.node] = due[stack[i].call.node]
      BY <2>3, <3>5, <3>6
    <3>8. QED
      BY <1>2, <3>2, <3>4, <3>7
  <2>5. PlannedDue'
    BY <2>4 DEF PlannedDue
  <2>6. Replans(p)
    <3>1. k \in DOMAIN stack /\ FrameOK(top)
      BY <1>3 DEF Progress, StackOK, top
    <3>2. top.call.event # "finalization"
      BY <1>2, <1>9, <3>1 DEF FrameOK, Call
    <3>3. QED
      BY <3>1, <3>2 DEF Replans, top
  <2>7. ASSUME failure' = "none", NEW c \in Composites, ~Replans(c)' PROVE InSync(c)'
    <3>1. c # p /\ c # n /\ InSync(c)
      BY <1>2, <1>6, <2>6, <2>7, TreeAssumption DEF Schedule, OthersInSync
    <3>2. QED
      BY <1>2, <1>5, <2>1, <3>1, SyncKept
  <2>8. OthersInSync'
    BY <2>7 DEF OthersInSync
  <2>9. QED
    BY <2>2, <2>5, <2>8 DEF Schedule
<1>10. QED
  BY <1>8, <1>9

\* Nothing is planned by an exception, and no handler is in progress after it.
LEMMA ScheduleAbort ==
    ASSUME Schedule, NEW reason \in {"node", "internal"}, Abort(reason)
    PROVE  Schedule'
<1>1. UNCHANGED <<t, due, last, told>> /\ failure' # "none" /\ stack' = <<>>
  BY DEF Abort, nodeVars
<1>2. DOMAIN stack' = {}
  BY <1>1, EmptyStack
<1>3. QED
  BY <1>1, <1>2 DEF Schedule, NothingMissed, PlannedDue, OthersInSync

LEMMA ScheduleEnter ==
    ASSUME Progress, Schedule, NEW c \in Composites, Enter(c)
    PROVE  Schedule'
<1> DEFINE x0 == NextCall
           frame == EventFrame(x0)
           n == Len(stack)
<1>1. CASE Abort("internal")
  BY <1>1, ScheduleAbort
<1>2. CASE ~Abort("internal")
  <2>1. /\ Busy /\ x0 \in top.calls /\ x0.node = c /\ QueueAllows(x0)
        /\ frame.call = x0
        /\ DOMAIN stack' = 1 .. n + 1
        /\ \A i \in 1 .. n : stack'[i] = stack[i]
        /\ stack'[n + 1] = frame
        /\ UNCHANGED <<t, due, last, told, failure>>
    BY <1>2, EnterStep DEF Progress, nodeVars
  <2>2. DOMAIN stack = 1 .. n /\ n \in Nat /\ n > 0
    BY <2>1, StackDomain DEF Progress
  <2>3. NothingMissed'
    BY <2>1 DEF Schedule, NothingMissed
  <2>4. ASSUME NEW x \in frame.calls, x.event = "planned"
        PROVE  frame.calls = {x} /\ x.node \in DOMAIN due[c] /\ due[c][x.node] = t
    <3>1. x0.event = "planned"
      <4>1. x0.event \in Events
        BY <2>1, <2>2 DEF Progress, StackOK, FrameOK, top
      <4>2. QED
        BY <2>4, <4>1 DEF EventFrame, EventForAll, DstCalls, Frame, Call, Events
    <3>2. frame.calls = {Call(ImminentNode(c), "planned", 0, <<>>)}
      BY <2>1, <3>1 DEF EventFrame, Frame
    <3>3. frame.calls = {x} /\ x.node = ImminentNode(c)
      BY <2>4, <3>2 DEF Call
    <3>4. PICK m \in DOMAIN due[c] : due[c][m] = t /\ NoneBefore(due[c], t)
      BY <2>1, <3>1 DEF QueueAllows
    <3>5. Timed(due[c]) /\ t \in Int /\ \A l \in DOMAIN due[c] : l \in Nodes
      BY DEF Progress, TypeOK, Timed, Parents
    <3>6. ImminentNode(c) \in Imminent(due[c])
      BY <3>4, <3>5, ImminentNodeChosen
    <3>7. ImminentNode(c) \in DOMAIN due[c] /\ due[c][ImminentNode(c)] = t
      BY <3>4, <3>5, <3>6 DEF Imminent, NoneBefore, Timed
    <3>8. QED
      BY <3>3, <3>7
  <2>5. PlannedDue'
    <3>1. ASSUME NEW i \in DOMAIN stack', NEW x \in stack'[i].calls, x.event = "planned"
          PROVE  /\ stack'[i].calls = {x}
                 /\ x.node \in DOMAIN due'[stack'[i].call.node]
                 /\ due'[stack'[i].call.node][x.node] = t'
      <4>1. CASE i = n + 1
        BY <2>1, <2>4, <3>1, <4>1
      <4>2. CASE i # n + 1
        <5>1. i \in DOMAIN stack /\ stack'[i] = stack[i]
          BY <2>1, <2>2, <4>2
        <5>2. QED
          BY <2>1, <3>1, <5>1 DEF Schedule, PlannedDue
      <4>3. QED
        BY <4>1, <4>2
    <3>2. QED
      BY <3>1 DEF PlannedDue
  <2>6. \A d : Replans(d) => Replans(d)'
    <3>1. \A i \in DOMAIN stack : i \in DOMAIN stack' /\ stack'[i] = stack[i]
      BY <2>1, <2>2
    <3>2. QED
      BY <3>1 DEF Replans
  <2>7. OthersInSync'
    BY <2>1, <2>6 DEF Schedule, OthersInSync, InSync
  <2>8. QED
    BY <2>3, <2>5, <2>7 DEF Schedule
<1>3. QED
  BY <1>1, <1>2

LEMMA ScheduleNextMessage ==
    ASSUME Progress, Schedule, NEW c \in Composites, NextMessage(c)
    PROVE  Schedule'
<1> DEFINE n == Len(stack)
<1>1. /\ Busy
      /\ DOMAIN stack' = 1 .. n
      /\ \A i \in 1 .. n - 1 : stack'[i] = stack[i]
      /\ stack'[n].call = top.call
      /\ \A x \in stack'[n].calls : x.event = "unplanned"
  BY NextMessageStep DEF Progress
<1>2. DOMAIN stack = 1 .. n /\ n \in Nat /\ n > 0
  BY <1>1, StackDomain DEF Progress
<1>3. UNCHANGED <<t, due, last, told, failure>>
  BY DEF NextMessage
<1>4. \A d : Replans(d)' <=> Replans(d)
  <2>1. \A i \in DOMAIN stack : stack'[i].call = stack[i].call
    BY <1>1, <1>2 DEF top
  <2>2. QED
    BY <1>1, <1>2, <2>1 DEF Replans
<1>5. PlannedDue'
  <2>1. ASSUME NEW i \in DOMAIN stack', NEW x \in stack'[i].calls, x.event = "planned"
        PROVE  i \in DOMAIN stack /\ stack'[i] = stack[i]
    BY <1>1, <1>2, <2>1
  <2>2. QED
    BY <1>3, <2>1 DEF Schedule, PlannedDue
<1>6. NothingMissed' /\ OthersInSync'
  BY <1>3, <1>4 DEF Schedule, NothingMissed, OthersInSync, InSync
<1>7. QED
  BY <1>5, <1>6 DEF Schedule

LEMMA ScheduleBegin ==
    ASSUME Progress, Schedule, NEW event \in {"initialization", "planned", "finalization"},
           Begin(event), event = "planned" => ~finishing /\ started
    PROVE  Schedule'
<1>1. /\ DOMAIN stack' = {1}
      /\ stack'[1] = Frame(Call(Root, event, 0, <<>>), {Call(Top, event, 0, <<>>)}, Root, 0)
  BY BeginStep DEF Events
<1>2. UNCHANGED <<t, due, last, told, failure>> /\ ~Busy /\ failure = "none"
  BY DEF Begin, nodeVars
<1>3. event = "planned" => Top \in DOMAIN due[Root] /\ due[Root][Top] = t
  BY <1>2 DEF Progress, ReadyForEvent
<1>4. PlannedDue'
  BY <1>1, <1>2, <1>3 DEF PlannedDue, Frame, Call
<1>5. DOMAIN stack = {}
  BY <1>2 DEF Busy
<1>6. OthersInSync'
  BY <1>2, <1>5 DEF Schedule, OthersInSync, Replans, InSync
<1>7. QED
  BY <1>2, <1>4, <1>6 DEF Schedule, NothingMissed

LEMMA ScheduleLeave ==
    ASSUME Progress, Schedule, NEW c \in Composites, Leave(c)
    PROVE  Schedule'
<1> DEFINE n == Len(stack)
           k == n - 1
           p == stack[k].call.node
<1>1. Handling(c) /\ Resumed(SubSeq(stack, 1, n - 1), top.call) /\ UNCHANGED <<t, last, told, failure>>
  BY DEF Leave
<1>2. /\ Busy /\ top.call.node = c
      /\ k \in 1 .. n /\ n \in DOMAIN stack /\ k \in DOMAIN stack
      /\ top.call \in stack[k].calls
      /\ Parent(c) = p
      /\ DOMAIN stack' = 1 .. k
      /\ \A i \in 1 .. n - 2 : stack'[i] = stack[i]
      /\ stack'[k] = Frame(stack[k].call, stack[k].calls \ {top.call}, stack[k].src, stack[k].routed)
  BY <1>1, LeaveStep DEF Progress
<1>3. DOMAIN stack = 1 .. n /\ n \in Nat
  BY StackDomain DEF Progress
<1>4. \A i \in DOMAIN stack' :
         /\ i \in DOMAIN stack
         /\ stack'[i].call = stack[i].call /\ stack'[i].calls \subseteq stack[i].calls
         /\ i # k => stack'[i] = stack[i] /\ i < k
  <2>1. \A i \in DOMAIN stack' : i # k => i \in 1 .. n - 2
    BY <1>2, <1>3
  <2>2. QED
    BY <1>2, <1>3, <2>1 DEF Frame
<1>5. /\ c \in Nodes /\ c \in Parents /\ p \in Parents /\ c # p
      /\ DOMAIN due = Parents /\ t \in Int
  <2>1. c \in Nodes /\ c \in Parents
    BY DEF Nodes, Parents
  <2>2. p # c
    BY <1>2, <1>3, <2>1, NotInProgress DEF Progress
  <2>3. QED
    BY <1>2, <2>1, <2>2, ParentAndIndex DEF Progress, TypeOK
<1>6. \A m \in Leaves : last'[m] <= t' /\ 0 <= told'[m]
  BY <1>1 DEF Schedule, NothingMissed
<1>7. \A d : Replans(d)' <=> \E i \in 1 .. k : stack[i].call.node = d /\ stack[i].call.event # "finalization"
  BY <1>2, <1>4 DEF Replans
<1>8. CASE top.call.event = "finalization" /\ UNCHANGED due
  <2>1. \A d : Replans(d) => Replans(d)'
    <3>1. \A i \in DOMAIN stack : i = n \/ i \in 1 .. k
      BY <1>3
    <3>2. QED
      BY <1>7, <1>8, <3>1 DEF Replans, top
  <2>2. OthersInSync'
    BY <1>1, <1>8, <2>1 DEF Schedule, OthersInSync, InSync
  <2>3. NothingMissed'
    BY <1>1, <1>6, <1>8 DEF Schedule, NothingMissed
  <2>4. PlannedDue'
    BY <1>1, <1>4, <1>8 DEF Schedule, PlannedDue
  <2>5. QED
    BY <2>2, <2>3, <2>4 DEF Schedule
<1>9. CASE /\ top.call.event # "finalization"
           /\ Replanned(c, Earliest(due[c]))
           /\ Earliest(due[c]) = {} \/ \E u \in Int : Earliest(due[c]) = {u}
  <2>1. Earliest(due[c]) \in Plannable
    <3>1. Timed(due[c]) /\ NoneBefore(due[c], t)
      BY <1>5 DEF Progress, TypeOK, Timed, Schedule, NothingMissed
    <3>2. QED
      BY <1>5, <3>1, CompositePlans
  <2>2. NothingMissed'
    <3>1. \A d \in Parents : NoneBefore(due'[d], t)
      BY <1>5, <1>9, <2>1, ReplannedAhead DEF Schedule, NothingMissed
    <3>2. QED
      BY <1>1, <1>6, <3>1 DEF NothingMissed
  <2>3. \A d \in Parents : d # p => due'[d] = due[d]
    BY <1>2, <1>5, <1>9, Replanning
  <2>4. ASSUME NEW i \in DOMAIN stack', NEW x \in stack'[i].calls, x.event = "planned"
        PROVE  /\ stack'[i].calls = {x}
               /\ x.node \in DOMAIN due'[stack'[i].call.node]
               /\ due'[stack'[i].call.node][x.node] = t'
    <3>1. i \in DOMAIN stack /\ x \in stack[i].calls
      BY <1>4
    <3>2. /\ stack[i].calls = {x} /\ x.node \in DOMAIN due[stack[i].call.node]
          /\ due[stack[i].call.node][x.node] = t
      BY <2>4, <3>1 DEF Schedule, PlannedDue
    <3>3. i # k
      BY <1>2, <2>4, <3>2 DEF Frame
    <3>4. i < k /\ stack'[i] = stack[i]
      BY <1>4, <3>3
    <3>5. stack[i].call.node # p
      BY <1>2, <3>1, <3>4, HandlersDistinct DEF Progress
    <3>6. stack[i].call.node \in Parents
      <4>1. x.node \in Nodes /\ Parent(x.node) = stack[i].call.node
        BY <3>1 DEF Progress, StackOK, FrameOK
      <4>2. QED
        BY <4>1, ParentAndIndex
    <3>7. due'[stack[i].call.node] = due[stack[i].call.node]
      BY <2>3, <3>5, <3>6
    <3>8. QED
      BY <1>1, <3>2, <3>4, <3>7
  <2>5. PlannedDue'
    BY <2>4 DEF PlannedDue
  <2>6. ASSUME NEW d, d = p PROVE Replans(d)'
    <3>1. FrameOK(stack[k])
      BY <1>2 DEF Progress, StackOK
    <3>2. stack[k].call.event # "finalization"
      BY <1>2, <1>9, <3>1 DEF FrameOK, Call
    <3>3. k \in 1 .. k
      BY <1>2, <1>3
    <3>4. QED
      BY <1>7, <2>6, <3>2, <3>3
  <2>7. ASSUME failure' = "none", NEW d \in Composites, ~Replans(d)' PROVE InSync(d)'
    <3>1. d # p
      BY <2>6, <2>7
    <3>2. CASE d = c
      BY <1>2, <1>5, <1>9, <3>2, SyncRestored
    <3>3. CASE d # c
      <4>1. ~Replans(d)
        <5>1. \A i \in DOMAIN stack : i = n \/ i \in 1 .. k
          BY <1>3
        <5>2. QED
          BY <1>2, <1>7, <2>7, <3>3, <5>1 DEF Replans, top
      <4>2. InSync(d)
        BY <1>1, <2>7, <4>1 DEF Schedule, OthersInSync
      <4>3. QED
        BY <1>2, <1>5, <1>9, <3>1, <3>3, <4>2, SyncKept
    <3>4. QED
      BY <3>2, <3>3
  <2>8. OthersInSync'
    BY <2>7 DEF OthersInSync
  <2>9. QED
    BY <2>2, <2>5, <2>8 DEF Schedule
<1>10. QED
  BY <1>8, <1>9, LeaveReplans DEF Progress

\* With no composite node out of step, no queue of the tree has an event before
\* those of the queue of the simulation.
LEMMA TreeNotBefore ==
    ASSUME TypeOK, \A c \in Parents : NoneBefore(due[c], t),
           \A c \in Composites : InSync(c),
           NEW u \in Int, NoneBefore(due[Root], u)
    PROVE  \A c \in Parents : NoneBefore(due[c], u)
<1> DEFINE Good == {n \in Nodes : n \in Composites => NoneBefore(due[n], u)}
<1>1. ASSUME NEW n \in Nodes, Parent(n) = Root \/ Parent(n) \in Good
      PROVE  n \in Good
  <2>1. SUFFICES ASSUME n \in Composites PROVE NoneBefore(due[n], u)
    OBVIOUS
  <2>2. Parent(n) \in Parents /\ n \in Parents
    BY <2>1, ParentAndIndex DEF Parents
  <2>3. NoneBefore(due[Parent(n)], u)
    <3>1. CASE Parent(n) = Root
      BY <3>1
    <3>2. CASE Parent(n) # Root
      BY <1>1, <2>2, <3>2 DEF Parents
    <3>3. QED
      BY <3>1, <3>2
  <2>4. Timed(due[n]) /\ Timed(due[Parent(n)]) /\ t \in Int /\ NoneBefore(due[n], t)
    BY <2>2 DEF TypeOK, Timed
  <2>5. CASE DOMAIN due[n] = {}
    BY <2>5 DEF NoneBefore
  <2>6. CASE DOMAIN due[n] # {}
    <3>1. PICK e \in Earliest(due[n]) : TRUE
      BY <2>4, <2>6, EarliestExists
    <3>2. e \in Int /\ \A i \in DOMAIN due[n] : e <= due[n][i]
      BY <2>4, EarliestTime
    <3>3. e \in TimesOf(due[Parent(n)], {n})
      BY <2>1, <3>1 DEF InSync
    <3>4. u <= e
      BY <2>3, <3>3 DEF TimesOf, NoneBefore
    <3>5. QED
      BY <2>4, <3>2, <3>4 DEF NoneBefore, Timed
  <2>7. QED
    BY <2>5, <2>6
<1>2. Nodes \subseteq Good
  <2> HIDE DEF Good
  <2> QED  BY <1>1, TreeInduction
<1>3. QED
  BY <1>2 DEF Parents, Nodes

LEMMA ScheduleEnd ==
    ASSUME Progress, Schedule, End, failure = "none"
    PROVE  Schedule'
<1>1. stack' = <<>> /\ UNCHANGED <<due, last, told, failure>> /\ Handling(Root)
  BY DEF End, nodeVars
<1>2. DOMAIN stack' = {}
  BY <1>1, EmptyStack
<1>3. \A c \in Composites : InSync(c)
  <2>1. DOMAIN stack = 1 .. Len(stack) /\ Len(stack) \in Nat /\ Len(stack) > 0
    BY <1>1, StackDomain DEF Progress, Handling
  <2>2. Len(stack) = 1
    <3>1. Root \notin Composites
      BY TreeAssumption DEF Nodes
    <3>2. Len(stack) \in DOMAIN stack /\ stack[Len(stack)].call.node = Root
      BY <1>1, <2>1 DEF Handling, top
    <3>3. ~(Len(stack) > 1)
      BY <3>1, <3>2 DEF Progress, StackOK
    <3>4. QED
      BY <2>1, <3>3
  <2>3. \A c \in Composites : ~Replans(c)
    BY <1>1, <2>1, <2>2, TreeAssumption DEF Replans, Handling, top, Nodes
  <2>4. QED
    BY <2>3 DEF Schedule, OthersInSync
<1>4. PlannedDue' /\ OthersInSync'
  BY <1>1, <1>2, <1>3 DEF PlannedDue, OthersInSync, InSync
<1>5. CASE finishing
  <2>1. UNCHANGED t
    BY <1>5 DEF End
  <2>2. QED
    BY <1>1, <1>4, <2>1 DEF Schedule, NothingMissed
<1>6. CASE ~finishing
  <2>1. advance_time
    BY <1>6 DEF End
  <2>2. /\ t' \in Int /\ t \in Int /\ EndT \in Int /\ t <= EndT
        /\ \A u \in Earliest(due[Root]) : t' = t \/ t' <= u
        /\ t' = t \/ t' = EndT \/ t' \in Earliest(due[Root])
    BY <2>1, AdvanceTime, TimeAssumption DEF Progress, TypeOK
  <2>3. Root \in Parents /\ Timed(due[Root]) /\ NoneBefore(due[Root], t)
    BY DEF Progress, TypeOK, Timed, Parents, Schedule, NothingMissed
  <2>4. t <= t'
    <3>1. ASSUME t' \in Earliest(due[Root]) PROVE t <= t'
      BY <2>3, <3>1, EarliestTime DEF NoneBefore
    <3>2. QED
      BY <2>2, <3>1
  <2>5. NoneBefore(due[Root], t')
    <3>1. CASE t' = t
      BY <2>3, <3>1
    <3>2. CASE t' # t
      <4>1. ASSUME NEW i \in DOMAIN due[Root] PROVE t' <= due[Root][i]
        <5>1. PICK u \in Earliest(due[Root]) : TRUE
          BY <2>2, <2>3, EarliestExists
        <5>2. u \in Int /\ u <= due[Root][i] /\ t' <= u
          BY <2>2, <2>3, <3>2, EarliestTime
        <5>3. QED
          BY <2>2, <2>3, <5>2 DEF Timed
      <4>2. QED
        BY <4>1 DEF NoneBefore
    <3>3. QED
      BY <3>1, <3>2
  <2>6. \A c \in Parents : NoneBefore(due[c], t')
    BY <1>3, <2>2, <2>5, TreeNotBefore DEF Progress, Schedule, NothingMissed
  <2>7. \A n \in Leaves : last[n] <= t' /\ 0 <= told[n]
    BY <2>2, <2>4 DEF Progress, TypeOK, Schedule, NothingMissed
  <2>8. NothingMissed'
    BY <1>1, <2>6, <2>7 DEF NothingMissed
  <2>9. QED
    BY <1>4, <2>8 DEF Schedule
<1>7. QED
  BY <1>5, <1>6

LEMMA UnwoundStep == Unwound /\ [Next]_vars => Unwound'
<1> SUFFICES ASSUME Unwound, [Next]_vars PROVE Unwound'
  OBVIOUS
<1>1. CASE UNCHANGED vars
  BY <1>1 DEF vars, Unwound, Busy
<1>2. ASSUME NEW event, Begin(event) PROVE Unwound'
  BY <1>2 DEF Begin, Unwound
<1>3. ASSUME Busy, UNCHANGED failure PROVE Unwound'
  BY <1>3 DEF Unwound
<1>4. ASSUME NEW reason, Abort(reason) PROVE Unwound'
  BY <1>4, EmptyStack DEF Abort, Unwound
<1>5. ASSUME NEW n \in Leaves,
             \/ LeafInitialization(n) \/ LeafPlannedEvent(n)
             \/ LeafUnplannedEvent(n) \/ LeafFinalization(n)
      PROVE  Unwound'
  BY <1>3, <1>5
  DEF LeafEvent, LeafInitialization, LeafPlannedEvent, LeafUnplannedEvent, LeafFinalization
<1>6. ASSUME NEW c \in Composites, Enter(c) PROVE Unwound'
  BY <1>3, <1>4, <1>6 DEF Enter
<1>7. ASSUME NEW c \in Composites, NextMessage(c) \/ Leave(c) PROVE Unwound'
  BY <1>3, <1>7 DEF NextMessage, Leave, Handling
<1>8. ASSUME End PROVE Unwound'
  BY <1>3, <1>8 DEF End, Handling
<1>9. CASE Next
  BY <1>1, <1>2, <1>4, <1>5, <1>6, <1>7, <1>8, <1>9, StepCases
  DEF process_initialization_event, process_planned_event, process_finalization_event, LeafThrows
<1>10. QED
  BY <1>1, <1>9

LEMMA ScheduleStep == Progress /\ Unwound /\ Schedule /\ [Next]_vars => Schedule'
<1> SUFFICES ASSUME Progress, Unwound, Schedule, [Next]_vars PROVE Schedule'
  OBVIOUS
<1>1. CASE process_initialization_event
  BY <1>1, ScheduleBegin DEF process_initialization_event
<1>2. CASE process_planned_event
  BY <1>2, ScheduleBegin DEF process_planned_event
<1>3. CASE process_finalization_event
  BY <1>3, ScheduleBegin DEF process_finalization_event
<1>4. CASE End
  BY <1>4, ScheduleEnd DEF Unwound, End, Handling
<1>5. ASSUME NEW n \in Leaves,
             \/ LeafInitialization(n) \/ LeafPlannedEvent(n)
             \/ LeafUnplannedEvent(n) \/ LeafFinalization(n)
      PROVE  Schedule'
  BY <1>5, ScheduleLeaf
<1>6. ASSUME NEW n \in Leaves, LeafThrows(n) PROVE Schedule'
  BY <1>6, ScheduleAbort DEF LeafThrows
<1>7. ASSUME NEW c \in Composites, Enter(c) PROVE Schedule'
  BY <1>7, ScheduleEnter
<1>8. ASSUME NEW c \in Composites, NextMessage(c) PROVE Schedule'
  BY <1>8, ScheduleNextMessage
<1>9. ASSUME NEW c \in Composites, Leave(c) PROVE Schedule'
  BY <1>9, ScheduleLeave
<1>10. CASE UNCHANGED vars
  BY <1>10 DEF vars, nodeVars, Schedule, NothingMissed, PlannedDue, OthersInSync, InSync, Replans
<1>11. CASE Next
  BY <1>1, <1>2, <1>3, <1>4, <1>5, <1>6, <1>7, <1>8, <1>9, <1>10, <1>11, StepCases
<1>12. QED
  BY <1>10, <1>11

LEMMA Scheduled == Spec => [](Progress /\ Unwound /\ Schedule)
<1>1. Init => Progress /\ Unwound /\ Schedule
  BY ProgressInit, ScheduleInit DEF Init, Unwound
<1>2. Progress /\ Unwound /\ Schedule /\ [Next]_vars => (Progress /\ Unwound /\ Schedule)'
  BY ProgressStep, UnwoundStep, ScheduleStep
<1>3. QED
  BY <1>1, <1>2, PTL DEF Spec

\* In no queue of the tree does the simulated time pass a planned event, so no
\* event of a component can be lost by being overtaken.
THEOREM NothingIsMissed == Spec => []NothingMissed
<1>1. Schedule => NothingMissed
  BY DEF Schedule
<1>2. QED
  BY <1>1, Scheduled, PTL

\* In every simulation of every tree each queue holds events of components of
\* its own node, none of which time has passed, and all events are within the
\* simulated period.
THEOREM AllOnTime == Spec => []EventsOnTime
<1>1. TypeOK /\ NothingMissed /\ EventsInPeriod => EventsOnTime
  BY DEF EventsOnTime
<1>2. QED
  BY <1>1, SimulationTyped, NothingIsMissed, AllEventsInPeriod, PTL

\* Whenever the end user has control, each composite node is planned, in the
\* queue above, for exactly the earliest event of its components.
THEOREM TreeInSync == Spec => []HierarchyInSync
<1>1. Progress /\ Schedule => HierarchyInSync
  <2>1. SUFFICES ASSUME Schedule, ~Busy, failure = "none" PROVE \A c \in Composites : InSync(c)
    BY DEF HierarchyInSync
  <2>2. DOMAIN stack = {}
    BY <2>1 DEF Busy
  <2>3. QED
    BY <2>1, <2>2 DEF Schedule, OthersInSync, Replans
<1>2. QED
  BY <1>1, Scheduled, PTL

-----------------------------------------------------------------------------
(* How far the lives of the nodes have come                                *)

LEMMA LivesInit == Init => Lives
<1> SUFFICES ASSUME Init PROVE Lives
  OBVIOUS
<1>1. DOMAIN stack = {} /\ ~Busy
  BY DEF Init, Busy
<1>2. \A n \in Nodes : life[n] = "new"
  BY DEF Init
<1>3. CallsAllowed /\ FinalizedBelow /\ FinalizedSoFar /\ ComponentsFollow
  BY <1>1, <1>2 DEF CallsAllowed, FinalizedBelow, FinalizedSoFar, ComponentsFollow, Follows, Nodes
<1>4. TopFollows
  BY <1>1, <1>2, TopAssumption DEF TopFollows, Init
<1>5. QED
  BY <1>3, <1>4 DEF Lives, NoInternalError, Init

\* The handler of n returns to that of the k-th frame, which had called x.
Stage(n, event) ==
    CASE event = "initialization" -> "initialized"
      [] event = "finalization" -> "finalized"
      [] OTHER -> life[n]
Returns(n, k, x) ==
    /\ k \in DOMAIN stack /\ x \in stack[k].calls
    /\ x.node = n /\ Parent(n) = stack[k].call.node
    /\ \A i \in DOMAIN stack : i <= k \/ stack[i].call = x
    /\ DOMAIN stack' = 1 .. k
    /\ \A i \in 1 .. k - 1 : stack'[i] = stack[i]
    /\ stack'[k] = Frame(stack[k].call, stack[k].calls \ {x}, stack[k].src, stack[k].routed)
    /\ life' = [life EXCEPT ![n] = Stage(n, x.event)]
    /\ n \in Composites /\ x.event = "finalization" =>
          \A m \in Nodes : Parent(m) = n => life[m] = "finalized"

LEMMA LeafReturns ==
    ASSUME Progress, NEW n \in Leaves,
           \/ LeafInitialization(n) \/ LeafPlannedEvent(n)
           \/ LeafUnplannedEvent(n) \/ LeafFinalization(n)
    PROVE  Returns(n, Len(stack), NextCall)
<1>1. PICK event \in Events : LeafEvent(n, event)
  BY DEF LeafInitialization, LeafPlannedEvent, LeafUnplannedEvent, LeafFinalization, Events
<1>2. /\ Busy /\ NextCall \in top.calls /\ NextCall.node = n /\ NextCall.event = event
      /\ Parent(n) = top.call.node
      /\ DOMAIN stack' = 1 .. Len(stack)
      /\ \A i \in 1 .. Len(stack) - 1 : stack'[i] = stack[i]
      /\ stack'[Len(stack)] = Frame(top.call, top.calls \ {NextCall}, top.src, top.routed)
  BY <1>1, LeafStep DEF Progress
<1>3. DOMAIN stack = 1 .. Len(stack) /\ Len(stack) \in Nat /\ Len(stack) > 0
  BY <1>2, StackDomain DEF Progress
<1>4. life \in [Nodes -> {"new", "initialized", "finalized"}] /\ n \in Nodes
  BY DEF Progress, TypeOK, Nodes
<1>5. life' = [life EXCEPT ![n] = Stage(n, event)]
  <2>1. CASE LeafInitialization(n)
    BY <1>2, <2>1 DEF LeafInitialization, LeafEvent, Stage
  <2>2. CASE LeafFinalization(n)
    BY <1>2, <2>2 DEF LeafFinalization, LeafEvent, Stage
  <2>3. CASE LeafPlannedEvent(n)
    BY <1>2, <1>4, <2>3 DEF LeafPlannedEvent, LeafEvent, Stage
  <2>4. CASE LeafUnplannedEvent(n)
    BY <1>2, <1>4, <2>4 DEF LeafUnplannedEvent, LeafEvent, Stage
  <2>5. QED
    BY <2>1, <2>2, <2>3, <2>4
<1>6. n \notin Composites
  BY TreeAssumption
<1>7. QED
  BY <1>2, <1>3, <1>5, <1>6 DEF Returns, top

LEMMA CompositeReturns ==
    ASSUME Progress, Lives, NEW c \in Composites, Leave(c)
    PROVE  Returns(c, Len(stack) - 1, top.call)
<1> DEFINE n == Len(stack)
           k == n - 1
<1>1. Handling(c) /\ Resumed(SubSeq(stack, 1, n - 1), top.call)
  BY DEF Leave
<1>2. /\ top.call.node = c
      /\ n \in DOMAIN stack /\ k \in DOMAIN stack
      /\ top.call \in stack[k].calls /\ Parent(c) = stack[k].call.node
      /\ DOMAIN stack' = 1 .. k
      /\ \A i \in 1 .. n - 2 : stack'[i] = stack[i]
      /\ stack'[k] = Frame(stack[k].call, stack[k].calls \ {top.call}, stack[k].src, stack[k].routed)
  BY <1>1, LeaveStep DEF Progress
<1>3. DOMAIN stack = 1 .. n /\ n \in Nat /\ k - 1 = n - 2
  BY StackDomain DEF Progress
<1>4. life \in [Nodes -> {"new", "initialized", "finalized"}] /\ c \in Nodes
  BY DEF Progress, TypeOK, Nodes
<1>5. life' = [life EXCEPT ![c] = Stage(c, top.call.event)]
  BY <1>4 DEF Leave, Stage
<1>6. ASSUME top.call.event = "finalization", NEW m \in Nodes, Parent(m) = c
      PROVE  life[m] = "finalized"
  BY <1>1, <1>2, <1>6 DEF Lives, FinalizedSoFar, top, Handling
<1>7. \A i \in DOMAIN stack : i <= k \/ stack[i].call = top.call
  BY <1>3 DEF top
<1>8. QED
  BY <1>2, <1>3, <1>5, <1>6, <1>7 DEF Returns

\* What the return changes: the stage of n, and nothing about others.
LEMMA ReturnChanges ==
    ASSUME Progress, Lives, NEW n \in Nodes, NEW k, NEW x, Returns(n, k, x)
    PROVE  /\ x.event \in Events /\ LifeAllows(x)
           /\ \A m \in Nodes : m # n => life'[m] = life[m]
           /\ life'[n] = Stage(n, x.event)
           /\ \A m \in Nodes : life[m] = "finalized" => life'[m] = "finalized"
           /\ \A i \in DOMAIN stack' :
                 /\ i \in DOMAIN stack /\ stack'[i].call = stack[i].call
                 /\ stack'[i].calls \subseteq stack[i].calls
                 /\ \A y \in stack'[i].calls : y.node = n => y.event \in {"planned", "unplanned"}
                 /\ \A y \in stack[i].calls : y = x \/ y \in stack'[i].calls
           /\ \A d : d # n => \A e : Doing(d, e)' <=> Doing(d, e)
           /\ \A e : Doing(n, e) => e = x.event
           /\ x.event \in {"initialization", "finalization"} => Doing(Parent(n), x.event)'
<1>1. DOMAIN stack = 1 .. Len(stack) /\ Len(stack) \in Nat /\ k \in DOMAIN stack /\ k \in Nat
  BY StackDomain DEF Progress, Returns
<1>2. x \in stack[k].calls /\ x.node = n /\ Parent(n) = stack[k].call.node
  BY DEF Returns
<1>3. FrameOK(stack[k]) /\ x.event \in Events
  BY <1>1, <1>2 DEF Progress, StackOK, FrameOK
<1>4. LifeAllows(x)
  BY <1>1, <1>2 DEF Lives, CallsAllowed
<1>5. life \in [Nodes -> {"new", "initialized", "finalized"}]
  BY DEF Progress, TypeOK
<1>6. (\A m \in Nodes : m # n => life'[m] = life[m]) /\ life'[n] = Stage(n, x.event)
  BY <1>5 DEF Returns
<1>7. \A m \in Nodes : life[m] = "finalized" => life'[m] = "finalized"
  BY <1>2, <1>4, <1>6 DEF LifeAllows, Stage
<1>8. \A i \in DOMAIN stack' : i \in DOMAIN stack /\ (i = k \/ (i < k /\ i \in 1 .. k - 1))
  BY <1>1 DEF Returns
<1>9. ASSUME NEW i \in DOMAIN stack'
      PROVE  /\ i \in DOMAIN stack /\ stack'[i].call = stack[i].call
             /\ stack'[i].calls \subseteq stack[i].calls
             /\ \A y \in stack[i].calls : y = x \/ y \in stack'[i].calls
  BY <1>8 DEF Returns, Frame
<1>10. ASSUME NEW i \in DOMAIN stack', NEW y \in stack'[i].calls, y.node = n
       PROVE  y.event \in {"planned", "unplanned"}
  <2>1. CASE i = k
    <3>1. y \in stack[k].calls /\ y # x
      BY <2>1 DEF Returns, Frame
    <3>2. QED
      BY <1>2, <1>3, <1>10, <3>1 DEF FrameOK, Events
  <2>2. CASE i # k
    <3>1. i < k /\ i \in DOMAIN stack /\ y \in stack[i].calls
      BY <1>8, <1>9, <2>2
    <3>2. Parent(n) = stack[i].call.node
      BY <1>10, <3>1 DEF Progress, StackOK, FrameOK
    <3>3. QED
      BY <1>1, <1>2, <3>1, <3>2, HandlersDistinct DEF Progress
  <2>3. QED
    BY <2>1, <2>2
<1>11. \A j \in DOMAIN stack : j \in 1 .. k => stack[j].call.node # n
  BY <1>1, <1>2, NotInProgress DEF Progress
<1>12. \A i \in DOMAIN stack : i \in 1 .. k \/ stack[i].call = x
  BY <1>1 DEF Returns
<1>13. DOMAIN stack' = 1 .. k
  BY DEF Returns
<1>14. \A d : d # n => \A e : Doing(d, e)' <=> Doing(d, e)
  BY <1>2, <1>9, <1>12, <1>13 DEF Doing
<1>15. \A e : Doing(n, e) => e = x.event
  BY <1>11, <1>12 DEF Doing
<1>16. x.event \in {"initialization", "finalization"} => Doing(Parent(n), x.event)'
  <2>1. SUFFICES ASSUME x.event \in {"initialization", "finalization"}
                 PROVE  \E i \in DOMAIN stack' :
                           stack'[i].call.node = Parent(n) /\ stack'[i].call.event = x.event
    BY DEF Doing
  <2>2. stack[k].call.event = x.event
    BY <1>2, <1>3, <2>1 DEF FrameOK, Events, Call
  <2>3. k \in DOMAIN stack'
    BY <1>1, <1>13
  <2>4. QED
    BY <1>2, <1>9, <2>2, <2>3
<1>17. QED
  BY <1>3, <1>4, <1>6, <1>7, <1>9, <1>10, <1>14, <1>15, <1>16

LEMMA NotOwnParent ==
    ASSUME NEW n \in Nodes
    PROVE  Parent(n) # n
<1>1. {n} \in SUBSET Nodes /\ {n} # {}
  OBVIOUS
<1>2. \E m \in {n} : Parent(m) \notin {n}
  BY <1>1, TreeAssumption
<1>3. QED
  BY <1>2

LEMMA LivesReturn ==
    ASSUME Progress, Unwound, Lives, Busy, Busy', UNCHANGED <<failure, flags>>,
           NEW n \in Nodes, NEW k, NEW x, Returns(n, k, x)
    PROVE  Lives'
<1>1. /\ failure = "none" /\ failure' = "none"
      /\ CallsAllowed /\ FinalizedBelow /\ FinalizedSoFar /\ ComponentsFollow /\ TopFollows
  BY DEF Unwound, Lives
<1>2. /\ x.event \in Events /\ LifeAllows(x) /\ x.node = n
      /\ \A m \in Nodes : m # n => life'[m] = life[m]
      /\ life'[n] = Stage(n, x.event)
      /\ \A m \in Nodes : life[m] = "finalized" => life'[m] = "finalized"
  <2>1. x.node = n
    BY DEF Returns
  <2>2. QED
    BY <2>1, ReturnChanges
<1>3. /\ x.event = "initialization" => life[n] = "new" /\ life'[n] = "initialized"
      /\ x.event = "finalization" => life'[n] = "finalized"
      /\ x.event \in {"planned", "unplanned"} => life'[n] = life[n]
  BY <1>2 DEF LifeAllows, Stage
<1>4. \A i \in DOMAIN stack' :
         /\ i \in DOMAIN stack /\ stack'[i].call = stack[i].call
         /\ stack'[i].calls \subseteq stack[i].calls
         /\ \A y \in stack'[i].calls : y.node = n => y.event \in {"planned", "unplanned"}
         /\ \A y \in stack[i].calls : y = x \/ y \in stack'[i].calls
  BY ReturnChanges
<1>5. /\ \A d : d # n => \A e : Doing(d, e)' <=> Doing(d, e)
      /\ \A e : Doing(n, e) => e = x.event
      /\ x.event \in {"initialization", "finalization"} => Doing(Parent(n), x.event)'
  BY ReturnChanges
<1>6. CallsAllowed'
  <2>1. ASSUME NEW i \in DOMAIN stack', NEW y \in stack'[i].calls PROVE LifeAllows(y)'
    <3>1. y \in stack[i].calls /\ i \in DOMAIN stack /\ LifeAllows(y)
      BY <1>1, <1>4 DEF CallsAllowed
    <3>2. y.node \in Nodes
      BY <3>1 DEF Progress, StackOK, FrameOK
    <3>3. CASE y.node = n
      BY <1>4, <3>3 DEF LifeAllows
    <3>4. CASE y.node # n
      BY <1>2, <3>1, <3>2, <3>4 DEF LifeAllows
    <3>5. QED
      BY <3>3, <3>4
  <2>2. QED
    BY <2>1 DEF CallsAllowed
<1>7. ASSUME NEW c \in Composites, NEW m \in Nodes, Parent(m) = c PROVE Follows(m, c)'
  <2>1. Follows(m, c) /\ c \in Nodes
    BY <1>1, <1>7 DEF ComponentsFollow, Nodes
  <2>2. CASE m = n /\ c # n
    <3>1. life'[c] = life[c]
      BY <1>2, <2>1, <2>2
    <3>2. CASE x.event \in {"initialization", "finalization"}
      BY <1>3, <1>5, <1>7, <2>2, <3>2 DEF Follows
    <3>3. CASE x.event \in {"planned", "unplanned"}
      BY <1>3, <1>5, <2>1, <2>2, <3>1, <3>3 DEF Follows
    <3>4. QED
      BY <1>2, <3>2, <3>3 DEF Events
  <2>3. CASE c = n /\ m # n
    <3>1. life'[m] = life[m]
      BY <1>2, <2>3
    <3>2. x.event # "finalization" => ~Doing(n, "finalization")
      BY <1>5
    <3>3. x.event \in {"planned", "unplanned"} => ~Doing(n, "initialization")
      BY <1>5
    <3>4. CASE x.event = "initialization"
      BY <1>3, <2>1, <2>3, <3>1, <3>2, <3>4 DEF Follows
    <3>5. CASE x.event = "finalization"
      BY <1>3, <2>3, <3>5 DEF Follows
    <3>6. CASE x.event \in {"planned", "unplanned"}
      BY <1>3, <2>1, <2>3, <3>1, <3>2, <3>3, <3>6 DEF Follows
    <3>7. QED
      BY <1>2, <3>4, <3>5, <3>6 DEF Events
  <2>4. CASE c # n /\ m # n
    BY <1>2, <1>5, <2>1, <2>4 DEF Follows
  <2>5. CASE c = n /\ m = n
    BY <1>7, <2>5, NotOwnParent
  <2>6. QED
    BY <2>2, <2>3, <2>4, <2>5
<1>8. TopFollows'
  <2>1. started /\ UNCHANGED <<started, finishing, finished>> /\ Top \in Nodes
    BY <1>1, TopAssumption DEF TopFollows, flags
  <2>2. ~finishing => x.event # "finalization"
    BY DEF Progress, EventsInPeriod, InPeriod, Returns
  <2>3. ~finishing => life'[Top] # "finalized"
    BY <1>1, <1>2, <1>3, <2>1, <2>2 DEF TopFollows, Events
  <2>4. QED
    BY <2>1, <2>3 DEF TopFollows
<1>9. FinalizedBelow'
  <2>1. ASSUME NEW c \in Composites, life'[c] = "finalized", NEW m \in Nodes, Parent(m) = c
        PROVE  life'[m] = "finalized"
    <3>1. CASE life[c] = "finalized"
      BY <1>1, <1>2, <2>1, <3>1 DEF FinalizedBelow
    <3>2. CASE life[c] # "finalized"
      <4>1. c = n /\ x.event = "finalization"
        BY <1>2, <1>3, <2>1, <3>2 DEF Nodes, Events
      <4>2. life[m] = "finalized"
        BY <2>1, <4>1 DEF Returns
      <4>3. QED
        BY <1>2, <4>2
    <3>3. QED
      BY <3>1, <3>2
  <2>2. QED
    BY <2>1 DEF FinalizedBelow
<1>10. FinalizedSoFar'
  <2>1. ASSUME NEW i \in DOMAIN stack', stack'[i].call.event = "finalization",
               NEW m \in Nodes, Parent(m) = stack'[i].call.node
        PROVE  life'[m] = "finalized" \/ Call(m, "finalization", 0, <<>>) \in stack'[i].calls
    <3>1. life[m] = "finalized" \/ Call(m, "finalization", 0, <<>>) \in stack[i].calls
      BY <1>1, <1>4, <2>1 DEF FinalizedSoFar
    <3>2. CASE life[m] = "finalized"
      BY <1>2, <3>2
    <3>3. CASE Call(m, "finalization", 0, <<>>) = x
      BY <1>2, <1>3, <3>3 DEF Call
    <3>4. CASE Call(m, "finalization", 0, <<>>) \in stack[i].calls /\ Call(m, "finalization", 0, <<>>) # x
      BY <1>4, <3>4
    <3>5. QED
      BY <3>1, <3>2, <3>3, <3>4
  <2>2. QED
    BY <2>1 DEF FinalizedSoFar
<1>11. finished' => life'[Top] = "finalized"
  BY <1>2, TopAssumption DEF Lives, flags
<1>12. QED
  BY <1>1, <1>6, <1>7, <1>8, <1>9, <1>10, <1>11 DEF Lives, NoInternalError, ComponentsFollow

LEMMA LivesThrows ==
    ASSUME Progress, Lives, Busy, UNCHANGED flags, NEW n \in Leaves, LeafThrows(n)
    PROVE  Lives'
<1>1. LifeAllows(NextCall)
  <2>1. NextCall \in top.calls /\ Len(stack) \in DOMAIN stack
    BY NextCallPending, StackDomain DEF LeafThrows, Progress
  <2>2. QED
    BY <2>1 DEF Lives, CallsAllowed, top
<1>2. Abort("node")
  BY <1>1 DEF LeafThrows
<1>3. UNCHANGED <<life, finished>> /\ failure' = "node" /\ DOMAIN stack' = {}
  BY <1>2, EmptyStack DEF Abort, nodeVars, flags
<1>4. QED
  BY <1>3 DEF Lives, CallsAllowed, FinalizedBelow, FinalizedSoFar, NoInternalError

\* A composite node that is called has an event at the current time, and is at
\* the right stage of its life, so that its handler does not throw.
LEMMA EntryAllowed ==
    ASSUME Progress, Unwound, Schedule, Lives, NEW c \in Composites, Enter(c)
    PROVE  QueueAllows(NextCall) /\ LifeAllows(NextCall)
<1>1. Busy /\ NextCall \in top.calls /\ NextCall.node = c /\ failure = "none"
  BY NextCallPending DEF Enter, Progress, Unwound
<1>2. DOMAIN stack = 1 .. Len(stack) /\ Len(stack) \in DOMAIN stack
  BY <1>1, StackDomain DEF Progress
<1>3. Parent(c) = top.call.node /\ c \in Nodes /\ c \in Parents
  BY <1>1, <1>2 DEF Progress, StackOK, FrameOK, top, Nodes, Parents
<1>4. LifeAllows(NextCall)
  BY <1>1, <1>2 DEF Lives, CallsAllowed, top
<1>5. NoneBefore(due[c], t)
  BY <1>3 DEF Schedule, NothingMissed
<1>6. ASSUME NextCall.event = "planned" PROVE \E n \in DOMAIN due[c] : due[c][n] = t
  <2>1. c \in DOMAIN due[Parent(c)] /\ due[Parent(c)][c] = t
    BY <1>1, <1>2, <1>3, <1>6 DEF Schedule, PlannedDue, top
  <2>2. ~Replans(c)
    BY <1>2, <1>3, NotInProgress DEF Replans, Progress, top
  <2>3. InSync(c)
    BY <1>1, <2>2 DEF Schedule, OthersInSync
  <2>4. t \in Earliest(due[c])
    BY <2>1, <2>3 DEF InSync, TimesOf
  <2>5. QED
    BY <1>3, <2>4, EarliestTime DEF Progress, TypeOK, Timed
<1>7. QED
  BY <1>1, <1>4, <1>5, <1>6 DEF QueueAllows

LEMMA LivesEnter ==
    ASSUME Progress, Unwound, Schedule, Lives, UNCHANGED flags, NEW c \in Composites, Enter(c)
    PROVE  Lives'
<1> DEFINE x0 == NextCall
           frame == EventFrame(x0)
           n == Len(stack)
<1>1. QueueAllows(x0) /\ LifeAllows(x0)
  BY EntryAllowed
<1>2. /\ Busy /\ x0 \in top.calls /\ x0.node = c
      /\ Parent(c) = top.call.node
      /\ FrameOK(frame) /\ frame.call = x0
      /\ Busy' /\ DOMAIN stack' = 1 .. n + 1
      /\ \A i \in 1 .. n : stack'[i] = stack[i]
      /\ stack'[n + 1] = frame
      /\ UNCHANGED <<t, nodeVars, failure>>
  BY <1>1, EnterStep DEF Progress
<1>3. DOMAIN stack = 1 .. n /\ n \in Nat /\ n > 0 /\ n \in DOMAIN stack
  BY <1>2, StackDomain DEF Progress
<1>4. /\ UNCHANGED <<life, failure, finished>> /\ failure = "none"
      /\ CallsAllowed /\ FinalizedBelow /\ FinalizedSoFar /\ ComponentsFollow /\ TopFollows
  BY <1>2 DEF nodeVars, flags, Lives, Unwound
<1>5. \A i \in DOMAIN stack : i \in DOMAIN stack' /\ stack'[i] = stack[i]
  BY <1>2, <1>3
<1>6. \A i \in DOMAIN stack' : i = n + 1 \/ i \in DOMAIN stack
  BY <1>2, <1>3
<1>7. x0.event \in Events
  BY <1>2, <1>3 DEF Progress, StackOK, FrameOK, top
<1>8. ASSUME NEW m \in Nodes, Parent(m) = c PROVE Follows(m, c) /\ \A e : ~Doing(c, e)
  <2>1. \A i \in DOMAIN stack : stack[i].call.node # c
    BY <1>2, <1>3, NotInProgress DEF Progress, top, Nodes
  <2>2. QED
    BY <1>4, <1>8, <2>1 DEF ComponentsFollow, Doing
<1>9. ASSUME NEW y \in frame.calls PROVE LifeAllows(y)
  <2>1. y.node \in Nodes /\ Parent(y.node) = c
    BY <1>2 DEF FrameOK
  <2>2. y.event = "initialization" => x0.event = "initialization"
    BY <1>2, <1>7 DEF FrameOK, Call, Events
  <2>3. y.event = "finalization" => x0.event = "finalization"
    BY <1>2, <1>7 DEF FrameOK, Call, Events
  <2>4. QED
    BY <1>1, <1>2, <1>8, <2>1, <2>2, <2>3 DEF LifeAllows, Follows
<1>10. CallsAllowed'
  <2>1. ASSUME NEW i \in DOMAIN stack', NEW y \in stack'[i].calls PROVE LifeAllows(y)
    BY <1>2, <1>4, <1>5, <1>6, <1>9 DEF CallsAllowed
  <2>2. QED
    BY <1>4, <2>1 DEF CallsAllowed, LifeAllows
<1>11. FinalizedSoFar'
  <2>1. ASSUME x0.event = "finalization", NEW m \in Nodes, Parent(m) = c
        PROVE  Call(m, "finalization", 0, <<>>) \in frame.calls
    <3>1. Index(m) \in DOMAIN Children[c] /\ Children[c][Index(m)] = m
      BY <2>1, ParentAndIndex
    <3>2. frame.calls = EventForAll(c, "finalization")
      BY <1>2, <2>1 DEF EventFrame, Frame
    <3>3. QED
      BY <3>1, <3>2 DEF EventForAll
  <2>2. ASSUME NEW i \in DOMAIN stack', stack'[i].call.event = "finalization",
               NEW m \in Nodes, Parent(m) = stack'[i].call.node
        PROVE  life[m] = "finalized" \/ Call(m, "finalization", 0, <<>>) \in stack'[i].calls
    <3>1. CASE i = n + 1
      BY <1>2, <2>1, <2>2, <3>1
    <3>2. CASE i \in DOMAIN stack
      BY <1>4, <1>5, <2>2, <3>2 DEF FinalizedSoFar
    <3>3. QED
      BY <1>6, <3>1, <3>2
  <2>3. QED
    BY <1>4, <2>2 DEF FinalizedSoFar
<1>12. ComponentsFollow'
  <2>1. \A d, e : Doing(d, e) => Doing(d, e)'
    BY <1>5 DEF Doing
  <2>2. QED
    BY <1>4, <2>1 DEF ComponentsFollow, Follows
<1>13. TopFollows' /\ FinalizedBelow'
  BY <1>2, <1>4 DEF TopFollows, FinalizedBelow, flags
<1>14. QED
  BY <1>4, <1>10, <1>11, <1>12, <1>13 DEF Lives, NoInternalError

LEMMA LivesNextMessage ==
    ASSUME Progress, Unwound, Lives, UNCHANGED flags, NEW c \in Composites, NextMessage(c)
    PROVE  Lives'
<1> DEFINE n == Len(stack)
<1>1. /\ Busy /\ Busy' /\ top.call.event = "planned"
      /\ DOMAIN stack' = 1 .. n
      /\ \A i \in 1 .. n - 1 : stack'[i] = stack[i]
      /\ stack'[n].call = top.call
      /\ \A x \in stack'[n].calls : x.event = "unplanned"
  BY NextMessageStep DEF Progress
<1>2. DOMAIN stack = 1 .. n /\ n \in Nat /\ n > 0
  BY <1>1, StackDomain DEF Progress
<1>3. /\ UNCHANGED <<life, failure, started, finishing, finished>> /\ failure = "none"
      /\ CallsAllowed /\ FinalizedBelow /\ FinalizedSoFar /\ ComponentsFollow /\ TopFollows
  BY <1>1 DEF NextMessage, flags, Lives, Unwound
<1>4. \A i \in DOMAIN stack' :
         i \in DOMAIN stack /\ stack'[i].call = stack[i].call /\ (i = n \/ stack'[i] = stack[i])
  BY <1>1, <1>2 DEF top
<1>5. CallsAllowed'
  <2>1. ASSUME NEW i \in DOMAIN stack', NEW x \in stack'[i].calls PROVE LifeAllows(x)
    BY <1>1, <1>3, <1>4 DEF CallsAllowed, LifeAllows
  <2>2. QED
    BY <1>3, <2>1 DEF CallsAllowed, LifeAllows
<1>6. FinalizedSoFar'
  <2>1. \A i \in DOMAIN stack' : stack'[i].call.event = "finalization" => stack'[i] = stack[i]
    BY <1>1, <1>4
  <2>2. QED
    BY <1>3, <1>4, <2>1 DEF FinalizedSoFar
<1>7. ComponentsFollow'
  <2>1. \A d, e : Doing(d, e)' <=> Doing(d, e)
    BY <1>1, <1>2, <1>4 DEF Doing
  <2>2. QED
    BY <1>3, <2>1 DEF ComponentsFollow, Follows
<1>8. TopFollows' /\ FinalizedBelow'
  BY <1>1, <1>3 DEF TopFollows, FinalizedBelow
<1>9. QED
  BY <1>3, <1>5, <1>6, <1>7, <1>8 DEF Lives, NoInternalError

LEMMA LivesBegin ==
    ASSUME Progress, Lives, NEW event \in {"initialization", "planned", "finalization"},
           Begin(event),
           event = "initialization" => ~started /\ started' = TRUE,
           event # "initialization" => UNCHANGED started,
           event = "planned" => started,
           event = "finalization" => finishing
    PROVE  Lives'
<1>1. /\ Busy' /\ DOMAIN stack' = {1}
      /\ stack'[1] = Frame(Call(Root, event, 0, <<>>), {Call(Top, event, 0, <<>>)}, Root, 0)
  BY BeginStep DEF Events
<1>2. /\ UNCHANGED <<life, failure, finishing, finished>>
      /\ ~Busy /\ failure = "none" /\ ~finished
      /\ FinalizedBelow /\ ComponentsFollow /\ TopFollows
  BY DEF Begin, nodeVars, Lives
<1>3. started'
  BY <1>2 DEF TopFollows
<1>4. /\ event = "initialization" => life[Top] = "new"
      /\ life[Top] # "finalized"
  BY <1>2 DEF TopFollows
<1>5. CallsAllowed'
  BY <1>1, <1>2, <1>4 DEF CallsAllowed, LifeAllows, Frame, Call
<1>6. FinalizedSoFar'
  BY <1>1, OnlyTop DEF FinalizedSoFar, Frame, Call
<1>7. ComponentsFollow'
  <2>1. DOMAIN stack = {}
    BY <1>2 DEF Busy
  <2>2. QED
    BY <1>2, <2>1 DEF ComponentsFollow, Follows, Doing
<1>8. TopFollows' /\ FinalizedBelow'
  BY <1>1, <1>2, <1>3, <1>4 DEF TopFollows, FinalizedBelow
<1>9. QED
  BY <1>2, <1>5, <1>6, <1>7, <1>8 DEF Lives, NoInternalError

LEMMA LivesEnd ==
    ASSUME Progress, Unwound, Lives, End
    PROVE  Lives'
<1>1. /\ stack' = <<>> /\ UNCHANGED <<life, failure, started>> /\ Handling(Root)
      /\ failure = "none" /\ Busy
      /\ FinalizedBelow /\ FinalizedSoFar /\ ComponentsFollow /\ TopFollows
  BY DEF End, nodeVars, Lives, Unwound, Handling
<1>2. DOMAIN stack' = {} /\ ~Busy'
  BY <1>1, EmptyStack
<1>3. /\ DOMAIN stack = {1} /\ stack[1] = top /\ top.call.node = Root
  <2>1. DOMAIN stack = 1 .. Len(stack) /\ Len(stack) \in Nat /\ Len(stack) > 0
    BY <1>1, StackDomain DEF Progress
  <2>2. Root \notin Composites
    BY TreeAssumption DEF Nodes
  <2>3. ~(Len(stack) > 1)
    BY <1>1, <2>1, <2>2 DEF Progress, StackOK, Handling, top
  <2>4. QED
    BY <1>1, <2>1, <2>3 DEF Handling, top
<1>4. finishing => life[Top] = "finalized"
  <2>1. ASSUME finishing PROVE top.call.event = "finalization"
    BY <1>3, <2>1 DEF Progress, EventsInPeriod, InPeriod
  <2>2. Parent(Top) = Root /\ Top \in Nodes
    BY TopAssumption, ChildrenAreNodes DEF Parents
  <2>3. QED
    BY <1>1, <1>3, <2>1, <2>2 DEF FinalizedSoFar, Handling
<1>5. ComponentsFollow'
  <2>1. \A c \in Composites : \A e : ~Doing(c, e)
    BY <1>3, TreeAssumption DEF Doing, Nodes
  <2>2. QED
    BY <1>1, <2>1 DEF ComponentsFollow, Follows
<1>6. CallsAllowed' /\ FinalizedSoFar' /\ FinalizedBelow'
  BY <1>1, <1>2 DEF CallsAllowed, FinalizedSoFar, FinalizedBelow
<1>7. CASE finishing
  <2>1. finished' = TRUE /\ UNCHANGED finishing
    BY <1>7 DEF End
  <2>2. TopFollows'
    BY <1>1, <1>7, <2>1 DEF TopFollows
  <2>3. QED
    BY <1>1, <1>4, <1>5, <1>6, <1>7, <2>2 DEF Lives, NoInternalError
<1>8. CASE ~finishing
  <2>1. UNCHANGED finished
    BY <1>8 DEF End
  <2>2. TopFollows'
    BY <1>1, <1>8 DEF TopFollows
  <2>3. QED
    BY <1>1, <1>5, <1>6, <2>1, <2>2 DEF Lives, NoInternalError
<1>9. QED
  BY <1>7, <1>8

LEMMA LivesStep == Progress /\ Unwound /\ Schedule /\ Lives /\ [Next]_vars => Lives'
<1> SUFFICES ASSUME Progress, Unwound, Schedule, Lives, [Next]_vars PROVE Lives'
  OBVIOUS
<1>1. CASE process_initialization_event
  BY <1>1, LivesBegin DEF process_initialization_event
<1>2. CASE process_planned_event
  BY <1>2, LivesBegin DEF process_planned_event
<1>3. CASE process_finalization_event
  BY <1>3, LivesBegin DEF process_finalization_event
<1>4. CASE End
  BY <1>4, LivesEnd
<1>5. ASSUME NEW n \in Leaves, UNCHANGED flags,
             \/ LeafInitialization(n) \/ LeafPlannedEvent(n)
             \/ LeafUnplannedEvent(n) \/ LeafFinalization(n)
      PROVE  Lives'
  <2>1. PICK event : LeafEvent(n, event)
    BY <1>5 DEF LeafInitialization, LeafPlannedEvent, LeafUnplannedEvent, LeafFinalization
  <2>2. Busy /\ Busy' /\ UNCHANGED failure /\ n \in Nodes
    BY <2>1, LeafStep DEF Progress, Nodes
  <2>3. Returns(n, Len(stack), NextCall)
    BY <1>5, LeafReturns
  <2>4. QED
    BY <1>5, <2>2, <2>3, LivesReturn
<1>6. ASSUME NEW n \in Leaves, UNCHANGED flags, LeafThrows(n) PROVE Lives'
  BY <1>6, LivesThrows DEF LeafThrows
<1>7. ASSUME NEW c \in Composites, UNCHANGED flags, Enter(c) PROVE Lives'
  BY <1>7, LivesEnter
<1>8. ASSUME NEW c \in Composites, UNCHANGED flags, NextMessage(c) PROVE Lives'
  BY <1>8, LivesNextMessage
<1>9. ASSUME NEW c \in Composites, UNCHANGED flags, Leave(c) PROVE Lives'
  <2>1. Busy /\ Busy' /\ UNCHANGED failure /\ c \in Nodes
    BY <1>9, LeaveStep DEF Leave, Progress, Nodes
  <2>2. Returns(c, Len(stack) - 1, top.call)
    BY <1>9, CompositeReturns
  <2>3. QED
    BY <1>9, <2>1, <2>2, LivesReturn
<1>10. CASE UNCHANGED vars
  BY <1>10 DEF vars, nodeVars, Lives, NoInternalError, CallsAllowed, LifeAllows, FinalizedBelow,
     FinalizedSoFar, ComponentsFollow, Follows, Doing, TopFollows, Busy
<1>11. CASE Next
  BY <1>1, <1>2, <1>3, <1>4, <1>5, <1>6, <1>7, <1>8, <1>9, <1>10, <1>11, StepCases
<1>12. QED
  BY <1>10, <1>11

LEMMA Lived == Spec => [](Progress /\ Unwound /\ Schedule /\ Lives)
<1>1. Init => Progress /\ Unwound /\ Schedule /\ Lives
  BY ProgressInit, ScheduleInit, LivesInit DEF Init, Unwound
<1>2. Progress /\ Unwound /\ Schedule /\ Lives /\ [Next]_vars
         => (Progress /\ Unwound /\ Schedule /\ Lives)'
  BY ProgressStep, UnwoundStep, ScheduleStep, LivesStep
<1>3. QED
  BY <1>1, <1>2, PTL DEF Spec

\* No composite node finds its queue empty or past the time it is called at, and
\* no node is initialized or finalized twice: the exceptions the framework has
\* for these are never thrown, whatever the nodes plan and send.
THEOREM NeverInternalError == Spec => []NoInternalError
<1>1. Lives => NoInternalError
  BY DEF Lives
<1>2. QED
  BY <1>1, Lived, PTL

\* When the simulation has finished, finalization has reached every node of the
\* tree, at any depth.
THEOREM AllFinalized == Spec => []WhollyFinalized
<1>1. Lives => WhollyFinalized
  <2>1. SUFFICES ASSUME Lives, finished PROVE \A n \in Nodes : life[n] = "finalized"
    BY DEF WhollyFinalized
  <2> DEFINE Good == {n \in Nodes : life[n] = "finalized"}
  <2>2. life[Top] = "finalized" /\ FinalizedBelow
    BY <2>1 DEF Lives
  <2>3. ASSUME NEW n \in Nodes, Parent(n) = Root \/ Parent(n) \in Good PROVE n \in Good
    <3>1. Parent(n) \in Parents
      BY ParentAndIndex
    <3>2. CASE Parent(n) = Root
      BY <2>2, <3>2, OnlyTop
    <3>3. CASE Parent(n) # Root
      BY <2>2, <2>3, <3>1, <3>3 DEF FinalizedBelow, Parents
    <3>4. QED
      BY <3>2, <3>3
  <2>4. Nodes \subseteq Good
    <3> HIDE DEF Good
    <3> QED  BY <2>3, TreeInduction
  <2>5. QED
    BY <2>4
<1>2. QED
  BY <1>1, Lived, PTL

-----------------------------------------------------------------------------
(* What the leaves have been told                                          *)

\* How far a time is from the start, in whole ticks of the leaf's precision.
SinceStart(u, n) == Floor(u, TimePrecision[n]) - Floor(StartT, TimePrecision[n])

\* Initialization takes place at the start, and finalization at the end; in
\* between, a leaf has been told how far its last event was from the start.
Counted ==
    /\ StartT <= t /\ \A n \in Leaves : StartT <= last[n]
    /\ ~started => t = StartT
    /\ \A i \in DOMAIN stack : stack[i].call.event = "initialization" => t = StartT
    /\ \A n \in Nodes : life[n] = "finalized" => finishing
    /\ \A n \in Leaves : life[n] # "finalized" => told[n] = SinceStart(last[n], n)

LEMMA CountedInit == Init => Counted
<1> SUFFICES ASSUME Init PROVE Counted
  OBVIOUS
<1>1. DOMAIN stack = {}
  BY EmptySeq DEF Init
<1>2. \A n \in Leaves : SinceStart(StartT, n) = 0
  BY FloorBounds, TimeAssumption, DurationAssumption, MaxScaleAssumption DEF SinceStart, Scales
<1>3. QED
  BY <1>1, <1>2, TimeAssumption DEF Init, Counted

\* The leaf's elapsed duration leads from its last event to now.
LEMMA ElapsedSince ==
    ASSUME TypeOK, NEW n \in Leaves, told[n] = SinceStart(last[n], n)
    PROVE  told[n] + elapsed_dt(n) = SinceStart(t, n)
<1>1. t \in Int /\ last[n] \in Int /\ TimePrecision[n] \in Nat
  BY DurationAssumption, MaxScaleAssumption DEF TypeOK, Scales
<1>2. /\ Floor(t, TimePrecision[n]) \in Int /\ Floor(last[n], TimePrecision[n]) \in Int
      /\ Floor(StartT, TimePrecision[n]) \in Int
  BY <1>1, FloorBounds, TimeAssumption
<1>3. QED
  BY <1>2 DEF SinceStart, elapsed_dt

\* The events of a leaf that tell it an elapsed duration tell it the time.
LEMMA LeafTold ==
    ASSUME Progress, Counted, NEW n \in Leaves,
           LeafPlannedEvent(n) \/ LeafUnplannedEvent(n) \/ LeafFinalization(n)
    PROVE  told' = [told EXCEPT ![n] = SinceStart(t, n)]
<1>1. PICK event \in {"planned", "unplanned", "finalization"} : LeafEvent(n, event)
  BY DEF LeafPlannedEvent, LeafUnplannedEvent, LeafFinalization
<1>2. Busy /\ NextCall \in top.calls /\ NextCall.event = event
  BY <1>1, LeafStep DEF Progress
<1>3. event = "finalization" \/ ~finishing
  <2>1. Len(stack) \in DOMAIN stack
    BY <1>2, StackDomain DEF Progress
  <2>2. InPeriod(NextCall)
    BY <1>2, <2>1 DEF Progress, EventsInPeriod, top
  <2>3. QED
    BY <1>2, <2>2 DEF InPeriod
<1>4. life[n] # "finalized"
  <2>1. CASE LeafFinalization(n)
    BY <2>1 DEF LeafFinalization
  <2>2. CASE LeafPlannedEvent(n) \/ LeafUnplannedEvent(n)
    <3>1. NextCall.event # "finalization"
      BY <2>2 DEF LeafPlannedEvent, LeafUnplannedEvent, LeafEvent
    <3>2. QED
      BY <1>2, <1>3, <3>1 DEF Counted, Nodes
  <2>3. QED
    BY <2>1, <2>2
<1>5. told[n] + elapsed_dt(n) = SinceStart(t, n)
  BY <1>4, ElapsedSince DEF Progress, Counted
<1>6. QED
  BY <1>5 DEF LeafPlannedEvent, LeafUnplannedEvent, LeafFinalization

LEMMA CountedLeaf ==
    ASSUME Progress, Schedule, Counted, NEW n \in Leaves, UNCHANGED flags,
           \/ LeafInitialization(n) \/ LeafPlannedEvent(n)
           \/ LeafUnplannedEvent(n) \/ LeafFinalization(n)
    PROVE  Counted'
<1>1. PICK event : LeafEvent(n, event)
  BY DEF LeafInitialization, LeafPlannedEvent, LeafUnplannedEvent, LeafFinalization
<1>2. /\ Busy /\ NextCall \in top.calls /\ NextCall.node = n /\ NextCall.event = event
      /\ DOMAIN stack' = 1 .. Len(stack)
      /\ \A i \in 1 .. Len(stack) - 1 : stack'[i] = stack[i]
      /\ stack'[Len(stack)].call = top.call
      /\ t' = t
  BY <1>1, LeafStep DEF Progress, Frame
<1>3. DOMAIN stack = 1 .. Len(stack) /\ Len(stack) \in DOMAIN stack /\ Len(stack) \in Nat
  BY <1>2, StackDomain DEF Progress
<1>4. /\ \A i \in DOMAIN stack' : i \in DOMAIN stack /\ stack'[i].call = stack[i].call
      /\ FrameOK(top) /\ InPeriod(NextCall) /\ n \in Nodes
  BY <1>2, <1>3 DEF Progress, StackOK, EventsInPeriod, top, Nodes
<1>5. UNCHANGED <<started, finishing>>
  BY DEF flags
<1>6. (~started' => t' = StartT) /\ \A i \in DOMAIN stack' : stack'[i].call.event = "initialization" => t' = StartT
  BY <1>2, <1>4, <1>5 DEF Counted
<1>7. /\ life \in [Nodes -> {"new", "initialized", "finalized"}] /\ last \in [Leaves -> Int]
      /\ told \in [Leaves -> Int]
  BY DEF Progress, TypeOK
<1>8. CASE LeafInitialization(n)
  <2>1. event = "initialization" /\ life' = [life EXCEPT ![n] = "initialized"] /\ told' = told
    BY <1>2, <1>8 DEF LeafInitialization, LeafEvent
  <2>2. life[n] = "new" /\ last' = [last EXCEPT ![n] = t]
    BY <1>8 DEF LeafInitialization, PlanNext
  <2>3. t = StartT
    BY <1>2, <1>3, <1>4, <2>1 DEF FrameOK, Events, Counted, top, Call
  <2>4. last[n] = t
    BY <1>7, <2>3, TimeAssumption DEF Schedule, NothingMissed, Counted
  <2>5. last' = last
    BY <1>7, <2>2, <2>4
  <2>6. QED
    BY <1>2, <1>4, <1>5, <1>6, <1>7, <2>1, <2>2, <2>5 DEF Counted, SinceStart
<1>9. CASE LeafPlannedEvent(n) \/ LeafUnplannedEvent(n)
  <2>1. told' = [told EXCEPT ![n] = SinceStart(t, n)]
    BY <1>9, LeafTold
  <2>2. last' = [last EXCEPT ![n] = t] /\ life' = life
    BY <1>9 DEF LeafPlannedEvent, LeafUnplannedEvent, PlanNext
  <2>3. \A m \in Leaves : life'[m] # "finalized" => told'[m] = SinceStart(last'[m], m)
    BY <1>7, <2>1, <2>2 DEF Counted
  <2>4. \A m \in Leaves : StartT <= last'[m]
    <3>1. StartT <= t /\ \A m \in Leaves : StartT <= last[m]
      BY DEF Counted
    <3>2. QED
      BY <1>7, <2>2, <3>1
  <2>5. QED
    BY <1>2, <1>4, <1>5, <1>6, <1>7, <2>1, <2>2, <2>3, <2>4 DEF Counted, SinceStart
<1>10. CASE LeafFinalization(n)
  <2>1. event = "finalization" /\ life' = [life EXCEPT ![n] = "finalized"] /\ last' = last
    BY <1>2, <1>10 DEF LeafFinalization, LeafEvent
  <2>2. told' = [told EXCEPT ![n] = SinceStart(t, n)] /\ finishing
    BY <1>2, <1>4, <1>10, <2>1, LeafTold DEF InPeriod
  <2>3. \A m \in Leaves : life'[m] # "finalized" => told'[m] = SinceStart(last'[m], m)
    BY <1>4, <1>7, <2>1, <2>2 DEF Counted
  <2>4. \A m \in Leaves : StartT <= last'[m]
    <3>1. StartT <= t /\ \A m \in Leaves : StartT <= last[m]
      BY DEF Counted
    <3>2. QED
      BY <2>1, <3>1
  <2>5. QED
    BY <1>2, <1>4, <1>5, <1>6, <1>7, <2>1, <2>2, <2>3, <2>4 DEF Counted, SinceStart
<1>11. QED
  BY <1>8, <1>9, <1>10

\* The steps that start an event at the top or drop all events.
LEMMA CountedBegin ==
    ASSUME Counted, NEW event, Begin(event), event = "initialization" => ~started,
           started' = TRUE \/ UNCHANGED started
    PROVE  Counted'
<1>1. /\ DOMAIN stack' = {1} /\ stack'[1].call.event = event
      /\ UNCHANGED <<t, last, life, told, finishing>>
  BY DEF Begin, nodeVars, Frame, Call
<1>2. event = "initialization" => t = StartT
  BY DEF Counted
<1>3. ~started' => ~started
  OBVIOUS
<1>4. QED
  BY <1>1, <1>2, <1>3 DEF Counted, SinceStart

LEMMA CountedEnd ==
    ASSUME Progress, Unwound, Schedule, Lives, Counted, End
    PROVE  Counted'
<1>1. stack' = <<>> /\ UNCHANGED <<last, life, told, started>> /\ Busy /\ failure = "none"
  BY DEF End, nodeVars, Handling, Unwound
<1>2. DOMAIN stack' = {} /\ started
  BY <1>1, EmptyStack DEF Lives, TopFollows
<1>3. t <= t' /\ t' \in Int /\ t \in Int /\ (finishing => finishing')
  <2>1. CASE finishing
    BY <2>1 DEF End, Progress, TypeOK
  <2>2. CASE ~finishing
    <3>1. /\ t' \in Int /\ t <= EndT /\ t \in Int
          /\ t' = t \/ t' = EndT \/ t' \in Earliest(due[Root])
      BY <2>2, AdvanceTime DEF Progress, End, TypeOK
    <3>2. \A u \in Earliest(due[Root]) : t <= u
      BY DEF Earliest, TimesOf, Imminent, Schedule, NothingMissed, NoneBefore, Parents
    <3>3. QED
      BY <2>2, <3>1, <3>2
  <2>3. QED
    BY <2>1, <2>2
<1>4. QED
  BY <1>1, <1>2, <1>3, TimeAssumption DEF Counted, SinceStart

\* In the steps of composite nodes, and when user code throws, leaves are told
\* nothing, and no event begins that its caller has not.
LEMMA CountedOthers ==
    ASSUME Counted, UNCHANGED <<t, last, told, flags>>,
           \A n \in Leaves : life'[n] = life[n],
           \A n \in Nodes : life'[n] = "finalized" => life[n] = "finalized" \/ finishing,
           \A i \in DOMAIN stack' : stack'[i].call.event = "initialization" =>
               \E j \in DOMAIN stack : stack[j].call.event = "initialization"
    PROVE  Counted'
  BY DEF Counted, SinceStart, flags

LEMMA CountedEnter ==
    ASSUME Progress, Counted, UNCHANGED flags, NEW c \in Composites, Enter(c)
    PROVE  Counted'
<1>1. UNCHANGED <<t, last, told, life>>
  BY DEF Enter, Abort, nodeVars
<1>2. CASE Abort("internal")
  <2>1. DOMAIN stack' = {}
    BY <1>2, EmptyStack DEF Abort
  <2>2. QED
    BY <1>1, <2>1, CountedOthers
<1>3. CASE ~Abort("internal")
  <2>1. /\ Busy /\ NextCall \in top.calls
        /\ EventFrame(NextCall).call = NextCall
        /\ DOMAIN stack' = 1 .. Len(stack) + 1
        /\ \A i \in 1 .. Len(stack) : stack'[i] = stack[i]
        /\ stack'[Len(stack) + 1] = EventFrame(NextCall)
    BY <1>3, EnterStep DEF Progress
  <2>2. DOMAIN stack = 1 .. Len(stack) /\ Len(stack) \in DOMAIN stack /\ Len(stack) \in Nat
    BY <2>1, StackDomain DEF Progress
  <2>3. NextCall.event = "initialization" => stack[Len(stack)].call.event = "initialization"
    BY <2>1, <2>2 DEF Progress, StackOK, FrameOK, Events, top, Call
  <2>4. \A i \in DOMAIN stack' : i \in DOMAIN stack \/ i = Len(stack) + 1
    BY <2>1, <2>2
  <2>5. QED
    BY <1>1, <2>1, <2>2, <2>3, <2>4, CountedOthers
<1>4. QED
  BY <1>2, <1>3

LEMMA CountedLeave ==
    ASSUME Progress, Counted, UNCHANGED flags, NEW c \in Composites, Leave(c)
    PROVE  Counted'
<1>1. UNCHANGED <<t, last, told>> /\ c \notin Leaves
  BY TreeAssumption DEF Leave
<1>2. /\ Handling(c) /\ Resumed(SubSeq(stack, 1, Len(stack) - 1), top.call)
      /\ \/ life' = life
         \/ life' = [life EXCEPT ![c] = "initialized"]
         \/ life' = [life EXCEPT ![c] = "finalized"] /\ top.call.event = "finalization"
  BY DEF Leave
<1>3. /\ Busy /\ DOMAIN stack' = 1 .. Len(stack) - 1
      /\ \A i \in 1 .. Len(stack) - 2 : stack'[i] = stack[i]
      /\ stack'[Len(stack) - 1].call = stack[Len(stack) - 1].call
  BY <1>2, LeaveStep DEF Progress, Frame
<1>4. DOMAIN stack = 1 .. Len(stack) /\ Len(stack) \in DOMAIN stack /\ Len(stack) \in Nat
  BY <1>3, StackDomain DEF Progress
<1>5. \A i \in DOMAIN stack' : i \in DOMAIN stack /\ stack'[i].call = stack[i].call
  <2>1. \A k \in Nat : \A i \in 1 .. k - 1 : i \in 1 .. k /\ (i \in 1 .. k - 2 \/ i = k - 1)
    OBVIOUS
  <2>2. \A i \in DOMAIN stack' : i \in 1 .. Len(stack) /\ (i \in 1 .. Len(stack) - 2 \/ i = Len(stack) - 1)
    BY <1>3, <1>4, <2>1
  <2>3. QED
    BY <1>3, <1>4, <2>2
<1>6. top.call.event = "finalization" => finishing
  BY <1>4 DEF Progress, EventsInPeriod, InPeriod, top
<1>7. life \in [Nodes -> {"new", "initialized", "finalized"}] /\ c \in Nodes
  BY DEF Progress, TypeOK, Nodes
<1>8. \A n \in Nodes : life'[n] = "finalized" => life[n] = "finalized" \/ finishing
  BY <1>2, <1>6, <1>7
<1>9. \A n \in Leaves : life'[n] = life[n]
  BY <1>1, <1>2, <1>7 DEF Nodes
<1>10. QED
  BY <1>1, <1>5, <1>8, <1>9, CountedOthers

LEMMA CountedStep == Progress /\ Unwound /\ Schedule /\ Lives /\ Counted /\ [Next]_vars => Counted'
<1> SUFFICES ASSUME Progress, Unwound, Schedule, Lives, Counted, [Next]_vars PROVE Counted'
  OBVIOUS
<1>1. CASE process_initialization_event
  BY <1>1, CountedBegin DEF process_initialization_event
<1>2. CASE process_planned_event \/ process_finalization_event
  BY <1>2, CountedBegin DEF process_planned_event, process_finalization_event
<1>3. CASE End
  BY <1>3, CountedEnd
<1>4. ASSUME NEW n \in Leaves, UNCHANGED flags,
             \/ LeafInitialization(n) \/ LeafPlannedEvent(n)
             \/ LeafUnplannedEvent(n) \/ LeafFinalization(n)
      PROVE  Counted'
  BY <1>4, CountedLeaf
<1>5. ASSUME NEW n \in Leaves, UNCHANGED flags, LeafThrows(n) PROVE Counted'
  <2>1. DOMAIN stack' = {} /\ UNCHANGED <<t, last, told, life>>
    BY <1>5, EmptyStack DEF LeafThrows, Abort, nodeVars
  <2>2. QED
    BY <1>5, <2>1, CountedOthers
<1>6. ASSUME NEW c \in Composites, UNCHANGED flags, Enter(c) PROVE Counted'
  BY <1>6, CountedEnter
<1>7. ASSUME NEW c \in Composites, UNCHANGED flags, NextMessage(c) PROVE Counted'
  <2>1. /\ Busy /\ DOMAIN stack' = 1 .. Len(stack)
        /\ \A i \in 1 .. Len(stack) - 1 : stack'[i] = stack[i]
        /\ stack'[Len(stack)].call = top.call
    BY <1>7, NextMessageStep DEF Progress
  <2>2. \A i \in DOMAIN stack' : i \in DOMAIN stack /\ stack'[i].call = stack[i].call
    BY <2>1, StackDomain DEF Progress, top
  <2>3. UNCHANGED <<t, last, told, life>>
    BY <1>7 DEF NextMessage
  <2>4. QED
    BY <1>7, <2>2, <2>3, CountedOthers
<1>8. ASSUME NEW c \in Composites, UNCHANGED flags, Leave(c) PROVE Counted'
  BY <1>8, CountedLeave
<1>9. CASE UNCHANGED vars
  BY <1>9 DEF vars, nodeVars, Counted, SinceStart
<1>10. CASE Next
  BY <1>1, <1>2, <1>3, <1>4, <1>5, <1>6, <1>7, <1>8, <1>9, <1>10, StepCases
<1>11. QED
  BY <1>9, <1>10

\* The elapsed durations that a leaf is given add up, at every one of its
\* events, to how far the simulated time is from the start, in ticks of the
\* leaf's own time precision, whatever the precisions of other nodes.
THEOREM ElapsedIsExact == Spec => ElapsedAddsUp
<1> DEFINE Exact ==
      \A n \in Leaves :
          LeafPlannedEvent(n) \/ LeafUnplannedEvent(n) \/ LeafFinalization(n)
              => told'[n] = Floor(t, TimePrecision[n]) - Floor(StartT, TimePrecision[n])
<1>1. Progress /\ Counted => Exact
  BY LeafTold DEF SinceStart, Progress, TypeOK
<1>2. Init => Counted
  BY CountedInit
<1>3. Progress /\ Unwound /\ Schedule /\ Lives /\ Counted /\ [Next]_vars => Counted'
  BY CountedStep
<1>4. Spec => [][Exact]_vars
  <2> HIDE DEF Exact
  <2>1. Progress /\ Counted /\ [Next]_vars => [Exact]_vars
    BY <1>1
  <2>2. QED
    BY <1>2, <1>3, <2>1, Lived, PTL DEF Spec
<1>5. QED
  BY <1>4 DEF ElapsedAddsUp

-----------------------------------------------------------------------------
(* Messages waiting to be routed                                           *)

\* A frame routes the messages of its planned component: the only one that
\* may be called for a planned event.
SourceOK(frame) ==
    /\ frame.call.node \in Composites \cup {Root}
    /\ IF frame.call.node = Root THEN frame.src = Root
       ELSE \A x \in frame.calls : x.event = "planned" => x.node = frame.src

Routed(n) == \E i \in DOMAIN stack : stack[i].call.event = "planned" /\ stack[i].src = n

\* A node has messages only while they are routed, and the topmost has none.
Drained ==
    /\ DOMAIN outputs = Nodes
    /\ \A i \in DOMAIN stack : SourceOK(stack[i])
    /\ failure = "none" => \A n \in Nodes : outputs[n] # <<>> => Routed(n)
    /\ outputs[Top] = <<>>

LEMMA TopIsNode == Top \in Nodes /\ Parent(Top) = Root
<1>1. 1 \in DOMAIN Children[Root] /\ Children[Root][1] = Top
  BY TopAssumption
<1>2. QED
  BY <1>1, ChildrenAreNodes DEF Parents

\* No links, no ports.
LEMMA NothingOutward ==
    ASSUME NEW src, Parent(src) = Top, NEW port
    PROVE  Ascending(outward_ports(src, port)) = <<>>
<1>1. outward_ports(src, port) = {}
  BY TopAssumption DEF outward_ports
<1>2. Cardinality({}) = 0
  BY FS_EmptySet
<1>3. <<>> \in [1 .. 0 -> {}] /\ \A f \in [1 .. 0 -> {}] : f = <<>>
  OBVIOUS
<1>4. \E s \in [1 .. Cardinality({}) -> {}] : \A i, j \in DOMAIN s : i < j => s[i] < s[j]
  BY <1>2, <1>3
<1>5. Ascending({}) \in [1 .. Cardinality({}) -> {}]
  BY <1>4 DEF Ascending
<1>6. QED
  BY <1>1, <1>2, <1>3, <1>5

\* What a frame passes outward is appended to its own node's list only, and
\* nothing to that of the topmost node.
LEMMA PassedOn ==
    ASSUME StackOK, Drained, NEW c \in Composites, Handling(c), top.call.event = "planned"
    PROVE  /\ DOMAIN PassedOutward(c) = Nodes
           /\ \A n \in Nodes : n # c => PassedOutward(c)[n] = outputs[n]
           /\ PassedOutward(c)[Top] = <<>>
<1> DEFINE m == outputs[top.src][top.routed]
           ports == Ascending(outward_ports(top.src, m.port))
           passed == [i \in DOMAIN ports |->
                        [port |-> ports[i],
                         msg |-> <<m.msg[1], Append(m.msg[2], <<c, ports[i]>>)>>]]
<1>1. c \in Nodes /\ DOMAIN outputs = Nodes /\ outputs[Top] = <<>> /\ Top \in Nodes
  BY TopIsNode DEF Nodes, Drained
<1>2. \/ PassedOutward(c) = outputs
      \/ PassedOutward(c) = [outputs EXCEPT ![c] = outputs[c] \o passed]
  BY DEF PassedOutward
<1>3. c = Top => passed = <<>>
  <2>1. SUFFICES ASSUME c = Top PROVE passed = <<>>
    OBVIOUS
  <2>2. Parent(top.src) = Top
    BY <2>1, StackDomain DEF StackOK, FrameOK, Handling, top
  <2>3. ports = <<>>
    BY <2>2, NothingOutward
  <2> HIDE DEF ports
  <2>4. QED
    BY <2>3
<1> HIDE DEF passed
<1>4. c = Top => outputs[c] \o passed = <<>>
  BY <1>1, <1>3
<1>5. QED
  BY <1>1, <1>2, <1>4

LEMMA DrainedInit == Init => Drained
  BY EmptySeq, TopIsNode DEF Init, Drained, Busy

\* A leaf sends messages only in a planned event, for which it is the source.
LEMMA DrainedLeaf ==
    ASSUME Progress, Unwound, Drained, NEW n \in Leaves,
           \/ LeafInitialization(n) \/ LeafPlannedEvent(n)
           \/ LeafUnplannedEvent(n) \/ LeafFinalization(n)
    PROVE  Drained'
<1>1. PICK event : LeafEvent(n, event)
  BY DEF LeafInitialization, LeafPlannedEvent, LeafUnplannedEvent, LeafFinalization
<1>2. /\ Busy /\ NextCall \in top.calls /\ NextCall.node = n /\ NextCall.event = event
      /\ Parent(n) = top.call.node
      /\ DOMAIN stack' = 1 .. Len(stack)
      /\ \A i \in 1 .. Len(stack) - 1 : stack'[i] = stack[i]
      /\ stack'[Len(stack)] = Frame(top.call, top.calls \ {NextCall}, top.src, top.routed)
      /\ failure' = failure
  BY <1>1, LeafStep DEF Progress
<1>3. DOMAIN stack = 1 .. Len(stack) /\ Len(stack) \in DOMAIN stack /\ n \in Nodes
  BY <1>2, StackDomain DEF Progress, Nodes
<1>4. \A i \in DOMAIN stack' :
         /\ i \in DOMAIN stack /\ stack'[i].call = stack[i].call /\ stack'[i].src = stack[i].src
         /\ stack'[i].calls \subseteq stack[i].calls
  BY <1>2, <1>3 DEF top, Frame
<1>5. \A i \in DOMAIN stack' : SourceOK(stack'[i])
  BY <1>4 DEF Drained, SourceOK
<1>6. \A m \in Nodes : Routed(m) => Routed(m)'
  BY <1>2, <1>3, <1>4 DEF Routed
<1>7. CASE outputs' = outputs
  BY <1>2, <1>5, <1>6, <1>7 DEF Drained
<1>8. CASE LeafPlannedEvent(n)
  <2>1. event = "planned"
    BY <1>2, <1>8 DEF LeafPlannedEvent, LeafEvent
  <2>2. PICK sent \in Emissions[n] :
           outputs' = [outputs EXCEPT ![n] =
              [i \in DOMAIN sent |-> [port |-> sent[i], msg |-> <<i, <<>>>>]]]
    BY <1>8 DEF LeafPlannedEvent
  <2>3. n # Top => Routed(n)'
    <3>1. SUFFICES ASSUME n # Top PROVE Routed(n)'
      OBVIOUS
    <3>2. top.call.node # Root
      BY <1>2, <1>3, <3>1, OnlyTop
    <3>3. top.call.event = "planned" /\ top.src = n
      BY <1>2, <1>3, <2>1, <3>2 DEF Drained, SourceOK, Progress, StackOK, FrameOK, Events, Call, top
    <3>4. QED
      BY <1>2, <1>3, <3>3 DEF Routed, Frame
  <2>4. n = Top => outputs'[n] = <<>>
    <3>1. SUFFICES ASSUME n = Top PROVE outputs'[n] = <<>>
      OBVIOUS
    <3>2. sent = <<>>
      BY <3>1, TopAssumption
    <3>3. QED
      BY <1>3, <2>2, <3>2 DEF Drained
  <2>5. DOMAIN outputs' = Nodes /\ \A m \in Nodes : m # n => outputs'[m] = outputs[m]
    BY <2>2 DEF Drained
  <2>6. outputs'[Top] = <<>>
    BY <2>4, <2>5, TopIsNode DEF Drained
  <2>7. QED
    BY <1>2, <1>5, <1>6, <2>3, <2>4, <2>5, <2>6 DEF Drained
<1>9. QED
  BY <1>7, <1>8 DEF LeafInitialization, LeafUnplannedEvent, LeafFinalization

\* The handler of a composite node starts with a frame that calls its source.
LEMMA DrainedEnter ==
    ASSUME Progress, Drained, NEW c \in Composites, Enter(c)
    PROVE  Drained'
<1>1. UNCHANGED outputs
  BY DEF Enter, Abort, nodeVars
<1>2. CASE Abort("internal")
  <2>1. DOMAIN stack' = {} /\ failure' = "internal"
    BY <1>2, EmptyStack DEF Abort
  <2>2. QED
    BY <1>1, <2>1 DEF Drained
<1>3. CASE ~Abort("internal")
  <2> DEFINE frame == EventFrame(NextCall)
  <2>1. /\ Busy /\ NextCall \in top.calls /\ NextCall.node = c
        /\ FrameOK(frame) /\ frame.call = NextCall
        /\ DOMAIN stack' = 1 .. Len(stack) + 1
        /\ \A i \in 1 .. Len(stack) : stack'[i] = stack[i]
        /\ stack'[Len(stack) + 1] = frame
        /\ failure' = failure
    BY <1>3, EnterStep DEF Progress
  <2>2. DOMAIN stack = 1 .. Len(stack) /\ Len(stack) \in Nat
    BY <2>1, StackDomain DEF Progress
  <2>3. SourceOK(frame)
    <3>1. NextCall.event \in Events
      BY <2>1 DEF FrameOK
    <3>2. ASSUME NEW x \in frame.calls, x.event = "planned" PROVE x.node = frame.src
      BY <3>1, <3>2 DEF EventFrame, Frame, EventForAll, DstCalls, Call, Events
    <3>3. frame.call.node \in Composites /\ frame.call.node # Root
      BY <2>1, TreeAssumption DEF Nodes
    <3>4. QED
      BY <3>2, <3>3 DEF SourceOK
  <2> HIDE DEF frame
  <2>4. \A i \in DOMAIN stack' : i \in DOMAIN stack \/ i = Len(stack) + 1
    BY <2>1, <2>2
  <2>5. \A i \in DOMAIN stack : i \in DOMAIN stack' /\ stack'[i] = stack[i]
    BY <2>1, <2>2
  <2>6. \A i \in DOMAIN stack' : SourceOK(stack'[i])
    BY <2>1, <2>3, <2>4, <2>5 DEF Drained
  <2>7. \A m \in Nodes : Routed(m) => Routed(m)'
    BY <2>5 DEF Routed
  <2>8. QED
    BY <1>1, <2>1, <2>6, <2>7 DEF Drained
<1>4. QED
  BY <1>2, <1>3

\* A composite node that passes messages on is in its own planned event, as the
\* source of the frame below.
LEMMA SenderRouted ==
    ASSUME Progress, Drained, NEW c \in Composites, Handling(c), top.call.event = "planned",
           c # Top
    PROVE  /\ Len(stack) - 1 \in DOMAIN stack
           /\ stack[Len(stack) - 1].call.event = "planned"
           /\ stack[Len(stack) - 1].src = c
<1> DEFINE k == Len(stack) - 1
<1>1. /\ DOMAIN stack = 1 .. Len(stack) /\ Len(stack) \in Nat /\ Len(stack) > 0
      /\ c \in Nodes /\ c # Root
  BY StackDomain, TreeAssumption DEF Progress, Handling, Nodes
<1>2. Len(stack) > 1
  BY <1>1 DEF Handling, Progress, StackOK, top
<1>3. k \in DOMAIN stack /\ top.call \in stack[k].calls
  BY <1>1, <1>2 DEF Progress, StackOK, top
<1>4. Parent(c) = stack[k].call.node /\ stack[k].call.event = "planned"
  BY <1>3 DEF Progress, StackOK, FrameOK, Events, Call, Handling
<1>5. stack[k].call.node # Root
  BY <1>1, <1>4, OnlyTop
<1>6. QED
  BY <1>3, <1>4, <1>5 DEF Drained, SourceOK, Handling

LEMMA DrainedNextMessage ==
    ASSUME Progress, Drained, NEW c \in Composites, NextMessage(c)
    PROVE  Drained'
<1>1. /\ Busy /\ top.call.event = "planned"
      /\ DOMAIN stack' = 1 .. Len(stack)
      /\ \A i \in 1 .. Len(stack) - 1 : stack'[i] = stack[i]
      /\ stack'[Len(stack)].call = top.call
      /\ \A x \in stack'[Len(stack)].calls : x.event = "unplanned"
  BY NextMessageStep DEF Progress
<1>2. DOMAIN stack = 1 .. Len(stack) /\ Len(stack) \in DOMAIN stack /\ Len(stack) \in Nat
  BY <1>1, StackDomain DEF Progress
<1>3. Handling(c) /\ outputs' = PassedOutward(c) /\ failure' = failure
      /\ stack'[Len(stack)].src = top.src
  BY <1>2 DEF NextMessage, Frame, top
<1>4. /\ DOMAIN outputs' = Nodes /\ outputs'[Top] = <<>>
      /\ \A n \in Nodes : n # c => outputs'[n] = outputs[n]
  BY <1>1, <1>3, PassedOn DEF Progress
<1>5. \A i \in DOMAIN stack' :
         /\ i \in DOMAIN stack /\ stack'[i].call = stack[i].call /\ stack'[i].src = stack[i].src
         /\ \A x \in stack'[i].calls : x.event = "planned" => x \in stack[i].calls
  BY <1>1, <1>2, <1>3 DEF top
<1>6. \A i \in DOMAIN stack' : SourceOK(stack'[i])
  BY <1>5 DEF Drained, SourceOK
<1>7. \A m \in Nodes : Routed(m) => Routed(m)'
  BY <1>1, <1>2, <1>5 DEF Routed
<1>8. c # Top => Routed(c)
  BY <1>1, <1>3, SenderRouted DEF Routed
<1>9. QED
  BY <1>3, <1>4, <1>6, <1>7, <1>8 DEF Drained

LEMMA DrainedLeave ==
    ASSUME Progress, Drained, NEW c \in Composites, Leave(c)
    PROVE  Drained'
<1>1. Handling(c) /\ Resumed(SubSeq(stack, 1, Len(stack) - 1), top.call) /\ failure' = failure
  BY DEF Leave
<1>2. /\ Busy /\ DOMAIN stack' = 1 .. Len(stack) - 1
      /\ \A i \in 1 .. Len(stack) - 2 : stack'[i] = stack[i]
      /\ stack'[Len(stack) - 1] =
            Frame(stack[Len(stack) - 1].call, stack[Len(stack) - 1].calls \ {top.call},
                  stack[Len(stack) - 1].src, stack[Len(stack) - 1].routed)
  BY <1>1, LeaveStep DEF Progress
<1>3. DOMAIN stack = 1 .. Len(stack) /\ Len(stack) \in DOMAIN stack /\ Len(stack) \in Nat
  BY <1>2, StackDomain DEF Progress
<1>4. \A i \in DOMAIN stack' : i \in 1 .. Len(stack) /\ (i \in 1 .. Len(stack) - 2 \/ i = Len(stack) - 1)
  <2>1. \A k \in Nat : \A i \in 1 .. k - 1 : i \in 1 .. k /\ (i \in 1 .. k - 2 \/ i = k - 1)
    OBVIOUS
  <2>2. QED
    BY <1>2, <1>3, <2>1
<1>5. \A i \in DOMAIN stack' :
         /\ i \in DOMAIN stack /\ stack'[i].call = stack[i].call /\ stack'[i].src = stack[i].src
         /\ stack'[i].calls \subseteq stack[i].calls
  BY <1>2, <1>3, <1>4 DEF Frame
<1>6. \A i \in DOMAIN stack' : SourceOK(stack'[i])
  BY <1>5 DEF Drained, SourceOK
<1>7. ASSUME NEW m \in Nodes, Routed(m), top.call.event = "planned" => m # top.src
      PROVE  Routed(m)'
  <2>1. PICK i \in DOMAIN stack : stack[i].call.event = "planned" /\ stack[i].src = m
    BY <1>7 DEF Routed
  <2>2. i # Len(stack)
    BY <1>7, <2>1 DEF top
  <2>3. i \in DOMAIN stack'
    BY <1>2, <1>3, <2>2
  <2>4. QED
    BY <1>5, <2>1, <2>3 DEF Routed
<1>8. CASE top.call.event # "planned"
  <2>1. outputs' = outputs
    BY <1>8 DEF Leave
  <2>2. QED
    BY <1>1, <1>6, <1>7, <1>8, <2>1 DEF Drained
<1>9. CASE top.call.event = "planned"
  <2>1. outputs' = [PassedOutward(c) EXCEPT ![top.src] = <<>>]
    BY <1>9 DEF Leave
  <2>2. /\ DOMAIN PassedOutward(c) = Nodes /\ PassedOutward(c)[Top] = <<>>
        /\ \A n \in Nodes : n # c => PassedOutward(c)[n] = outputs[n]
    BY <1>1, <1>9, PassedOn DEF Progress
  <2>3. /\ DOMAIN outputs' = Nodes /\ outputs'[Top] = <<>>
        /\ \A n \in Nodes : n # top.src /\ n # c => outputs'[n] = outputs[n]
        /\ top.src \in Nodes => outputs'[top.src] = <<>>
    BY <2>1, <2>2, TopIsNode
  <2>4. c # Top => Routed(c)'
    <3>1. SUFFICES ASSUME c # Top PROVE Routed(c)'
      OBVIOUS
    <3>2. stack[Len(stack) - 1].call.event = "planned" /\ stack[Len(stack) - 1].src = c
          /\ Len(stack) - 1 \in DOMAIN stack
      BY <1>1, <1>9, <3>1, SenderRouted
    <3>3. Len(stack) - 1 \in DOMAIN stack'
      BY <1>2, <1>3, <3>2
    <3>4. QED
      BY <1>5, <3>2, <3>3 DEF Routed
  <2>5. QED
    BY <1>1, <1>6, <1>7, <2>3, <2>4 DEF Drained
<1>10. QED
  BY <1>8, <1>9

LEMMA DrainedStep == Progress /\ Unwound /\ Schedule /\ Lives /\ Drained /\ [Next]_vars => Drained'
<1> SUFFICES ASSUME Progress, Unwound, Schedule, Lives, Drained, [Next]_vars PROVE Drained'
  OBVIOUS
<1>1. ASSUME NEW event \in Events, Begin(event) PROVE Drained'
  <2>1. /\ DOMAIN stack' = {1}
        /\ stack'[1] = Frame(Call(Root, event, 0, <<>>), {Call(Top, event, 0, <<>>)}, Root, 0)
        /\ UNCHANGED <<outputs, failure>> /\ DOMAIN stack = {}
    BY <1>1, BeginStep DEF Begin, nodeVars, Busy
  <2>2. SourceOK(stack'[1]) /\ \A m \in Nodes : ~Routed(m)
    BY <2>1 DEF SourceOK, Frame, Call, Routed
  <2>3. QED
    BY <2>1, <2>2 DEF Drained
<1>2. CASE process_initialization_event \/ process_planned_event \/ process_finalization_event
  BY <1>1, <1>2 DEF process_initialization_event, process_planned_event,
     process_finalization_event, Events
<1>3. CASE End
  <2>1. DOMAIN stack' = {} /\ UNCHANGED <<outputs, failure>> /\ Handling(Root)
    BY <1>3, EmptyStack DEF End, nodeVars
  <2>2. DOMAIN stack = {1} /\ stack[1].call.node = Root
    <3>1. DOMAIN stack = 1 .. Len(stack) /\ Len(stack) \in Nat /\ Len(stack) > 0
      BY <2>1, StackDomain DEF Progress, Handling
    <3>2. Root \notin Composites
      BY TreeAssumption DEF Nodes
    <3>3. ~(Len(stack) > 1)
      BY <2>1, <3>1, <3>2 DEF Progress, StackOK, Handling, top
    <3>4. QED
      BY <2>1, <3>1, <3>3 DEF Handling, top
  <2>3. \A m \in Nodes : ~Routed(m)
    BY <2>2, TreeAssumption DEF Routed, Drained, SourceOK, Nodes
  <2>4. QED
    BY <2>1, <2>3 DEF Drained
<1>4. ASSUME NEW n \in Leaves, UNCHANGED flags,
             \/ LeafInitialization(n) \/ LeafPlannedEvent(n)
             \/ LeafUnplannedEvent(n) \/ LeafFinalization(n)
      PROVE  Drained'
  BY <1>4, DrainedLeaf
<1>5. ASSUME NEW n \in Leaves, UNCHANGED flags, LeafThrows(n) PROVE Drained'
  <2>1. DOMAIN stack' = {} /\ UNCHANGED outputs /\ failure' # "none"
    BY <1>5, EmptyStack DEF LeafThrows, Abort, nodeVars
  <2>2. QED
    BY <2>1 DEF Drained
<1>6. ASSUME NEW c \in Composites, UNCHANGED flags, Enter(c) PROVE Drained'
  BY <1>6, DrainedEnter
<1>7. ASSUME NEW c \in Composites, UNCHANGED flags, NextMessage(c) PROVE Drained'
  BY <1>7, DrainedNextMessage
<1>8. ASSUME NEW c \in Composites, UNCHANGED flags, Leave(c) PROVE Drained'
  BY <1>8, DrainedLeave
<1>9. CASE UNCHANGED vars
  BY <1>9 DEF vars, nodeVars, Drained, SourceOK, Routed
<1>10. CASE Next
  BY <1>2, <1>3, <1>4, <1>5, <1>6, <1>7, <1>8, <1>9, <1>10, StepCases
<1>11. QED
  BY <1>9, <1>10

\* No message outlives the event that sent it: between two events, every list of
\* sent messages in the tree is empty, the ones a composite node's own output
\* ports collected included.
THEOREM MessagesAreDrained == Spec => []OutputsDrained
<1>1. Drained => OutputsDrained
  <2>1. SUFFICES ASSUME Drained, ~Busy, failure = "none", NEW n \in Nodes
                 PROVE  outputs[n] = <<>>
    BY DEF OutputsDrained
  <2>2. ~Routed(n)
    BY <2>1, EmptySeq DEF Routed, Busy
  <2>3. QED
    BY <2>1, <2>2 DEF Drained
<1>2. Init => Drained
  BY DrainedInit
<1>3. Progress /\ Unwound /\ Schedule /\ Lives /\ Drained /\ [Next]_vars => Drained'
  BY DrainedStep
<1>4. QED
  BY <1>1, <1>2, <1>3, Lived, PTL DEF Spec

-----------------------------------------------------------------------------
(* The routes of messages                                                  *)

\* A route is a list of hops, each a node and a port it is left or entered by.
Hops == Nodes \X Ports

\* A message enters nodes by inward links from hop down to a leaf.
Down(hop, s) ==
    /\ s # <<>> /\ s[1] = hop /\ s[Len(s)][1] \in Leaves
    /\ \A i \in 1 .. Len(s) - 1 :
          s[i][1] \notin Leaves /\ s[i + 1] \in inward_dsts(s[i][1], s[i][2])
IntoPaths == [hop \in Hops |-> {s \in Seq(Hops) : Down(hop, s)}]

\* Links lead to ports of the nodes that may be linked.
LEMMA LinkedHops ==
    ASSUME NEW n \in Nodes, NEW p
    PROVE  /\ \A d \in inward_dsts(n, p) : d \in Hops /\ Parent(d[1]) = n
           /\ \A d \in inner_dsts(n, p) : d \in Hops /\ Parent(d[1]) = Parent(n)
           /\ outward_ports(n, p) \subseteq Ports /\ IsFiniteSet(outward_ports(n, p))
           /\ outward_ports(n, p) # {} => Parent(n) \in Composites
<1>1. \A d \in inward_dsts(n, p) : d \in Hops /\ Parent(d[1]) = n
  BY LinkAssumption DEF inward_dsts, Hops
<1>2. \A d \in inner_dsts(n, p) : d \in Hops /\ Parent(d[1]) = Parent(n)
  BY LinkAssumption DEF inner_dsts, Hops
<1>3. outward_ports(n, p) \subseteq Ports /\ (outward_ports(n, p) # {} => Parent(n) \in Composites)
  BY PortAssumption DEF outward_ports
<1>4. IsFiniteSet(outward_ports(n, p))
  BY <1>3, PortAssumption, FS_Subset
<1>5. QED
  BY <1>1, <1>2, <1>3, <1>4

\* The paths into a node are what the equation of IntoRoutes asks for, so that
\* there is a function that satisfies it.
LEMMA IntoFixed ==
    IntoPaths = [hop \in Nodes \X Ports |->
        IF hop[1] \in Leaves THEN {<<hop>>}
        ELSE UNION {{<<hop>> \o r : r \in IntoPaths[d]} : d \in inward_dsts(hop[1], hop[2])}]
<1>1. ASSUME NEW hop \in Hops, hop[1] \in Leaves PROVE IntoPaths[hop] = {<<hop>>}
  <2>1. ASSUME NEW s \in Seq(Hops), Down(hop, s) PROVE s = <<hop>>
    <3>1. Len(s) \in Nat /\ Len(s) > 0  BY <2>1 DEF Down
    <3>2. 1 \notin 1 .. Len(s) - 1  BY <1>1, <2>1 DEF Down
    <3>3. Len(s) = 1
      <4>1. \A n \in Nat : n > 0 /\ 1 \notin 1 .. n - 1 => n = 1  OBVIOUS
      <4>. QED  BY <3>1, <3>2, <4>1
    <3>5. s[1] = hop  BY <2>1 DEF Down
    <3>4. <<hop>> \in Seq(Hops) /\ Len(<<hop>>) = 1 /\ <<hop>>[1] = hop  OBVIOUS
    <3>. QED  BY <3>3, <3>4, <3>5, SeqEqual
  <2>2. <<hop>> \in Seq(Hops) /\ Down(hop, <<hop>>)  BY <1>1 DEF Down
  <2>. QED  BY <2>1, <2>2 DEF IntoPaths
<1>2. ASSUME NEW hop \in Hops, hop[1] \notin Leaves
      PROVE  IntoPaths[hop] =
                UNION {{<<hop>> \o r : r \in IntoPaths[d]} : d \in inward_dsts(hop[1], hop[2])}
  <2>1. ASSUME NEW s \in Seq(Hops), Down(hop, s)
        PROVE  \E d \in inward_dsts(hop[1], hop[2]) : \E r \in IntoPaths[d] : s = <<hop>> \o r
    <3>1. Len(s) \in Nat /\ Len(s) > 1 /\ s # <<>>  BY <1>2, <2>1 DEF Down
    <3>2. 1 \in 1 .. Len(s) - 1 /\ s[1] = hop  BY <2>1, <3>1 DEF Down
    <3>3. s[2] \in inward_dsts(hop[1], hop[2])  BY <2>1, <3>2 DEF Down
    <3>4. s[2] \in Hops  BY <3>1
    <3>5. /\ Tail(s) \in Seq(Hops) /\ Len(Tail(s)) = Len(s) - 1
          /\ \A i \in 1 .. Len(s) - 1 : Tail(s)[i] = s[i + 1]
      BY <3>1, HeadTailProperties, Zenon
    <3>6. Down(s[2], Tail(s))
      <4>1. Tail(s) # <<>> /\ Tail(s)[1] = s[2] /\ Tail(s)[Len(Tail(s))] = s[Len(s)]
        <5>1. 1 \in 1 .. Len(s) - 1 /\ Len(s) - 1 \in 1 .. Len(s) - 1 /\ Len(s) - 1 + 1 = Len(s)
          BY <3>1
        <5>2. Len(Tail(s)) > 0  BY <3>1, <3>5
        <5>3. Tail(s) # <<>>
          <6>1. Len(Tail(s)) # 0  BY <3>1, <3>5, SMTT(30)
          <6>2. Len(<<>>) = 0  OBVIOUS
          <6>. QED  BY <6>1, <6>2, Zenon
        <5>4. Tail(s)[1] = s[1 + 1]  BY <3>5, <5>1
        <5>5. Tail(s)[Len(s) - 1] = s[Len(s) - 1 + 1]  BY <3>5, <5>1
        <5>. QED  BY <3>5, <5>1, <5>3, <5>4, <5>5
      <4>2. ASSUME NEW i \in 1 .. Len(Tail(s)) - 1
            PROVE  /\ Tail(s)[i] = s[i + 1] /\ Tail(s)[i + 1] = s[i + 1 + 1]
                   /\ i + 1 \in 1 .. Len(s) - 1
        BY <3>1, <3>5
      <4>. QED  BY <2>1, <4>1, <4>2 DEF Down
    <3>7. s = <<hop>> \o Tail(s)
      BY <3>1, <3>2, <3>5
    <3>. QED  BY <3>3, <3>4, <3>5, <3>6, <3>7 DEF IntoPaths
  <2>2. ASSUME NEW d \in inward_dsts(hop[1], hop[2]), NEW r \in IntoPaths[d]
        PROVE  <<hop>> \o r \in IntoPaths[hop]
    <3>1. d \in Hops  BY LinkedHops DEF Hops
    <3>2. r \in Seq(Hops) /\ Down(d, r)  BY <3>1 DEF IntoPaths
    <3>3. Len(r) \in Nat /\ Len(r) > 0  BY <3>2 DEF Down
    <3> DEFINE s == <<hop>> \o r
    <3>4. /\ s \in Seq(Hops) /\ Len(s) = Len(r) + 1 /\ s[1] = hop
          /\ \A i \in 2 .. Len(r) + 1 : s[i] = r[i - 1]
      BY <3>2, <3>3
    <3>5. s # <<>> /\ s[Len(s)] = r[Len(r)] /\ s[2] = d
      BY <3>2, <3>3, <3>4 DEF Down
    <3>6. ASSUME NEW i \in 1 .. Len(s) - 1
          PROVE  s[i][1] \notin Leaves /\ s[i + 1] \in inward_dsts(s[i][1], s[i][2])
      <4>1. CASE i = 1  BY <1>2, <3>4, <3>5, <4>1
      <4>2. CASE i # 1
        <5>1. i - 1 \in 1 .. Len(r) - 1 /\ s[i] = r[i - 1] /\ s[i + 1] = r[i - 1 + 1]
          BY <3>3, <3>4, <4>2
        <5>. QED  BY <3>2, <5>1 DEF Down
      <4>. QED  BY <4>1, <4>2
    <3> HIDE DEF s
    <3>7. Down(hop, s)  BY <3>2, <3>4, <3>5, <3>6 DEF Down
    <3>. QED  BY <3>4, <3>7 DEF IntoPaths, s
  <2>3. IntoPaths[hop] = {s \in Seq(Hops) : Down(hop, s)}  BY DEF IntoPaths
  <2>4. \A s : s \in IntoPaths[hop] <=>
            \E d \in inward_dsts(hop[1], hop[2]) : \E r \in IntoPaths[d] : s = <<hop>> \o r
    BY <2>1, <2>2, <2>3
  <2>. QED  BY <2>4, SMTT(30)
<1>. QED  BY <1>1, <1>2 DEF IntoPaths, Hops

\* The routes into a node are those of one hop more than the routes into the
\* components it is linked to.
LEMMA IntoEquation ==
    ASSUME NEW hop \in Hops
    PROVE  IntoRoutes[hop] =
              IF hop[1] \in Leaves THEN {<<hop>>}
              ELSE UNION {{<<hop>> \o r : r \in IntoRoutes[d]} : d \in inward_dsts(hop[1], hop[2])}
<1>1. IntoRoutes = [hp \in Nodes \X Ports |->
        IF hp[1] \in Leaves THEN {<<hp>>}
        ELSE UNION {{<<hp>> \o r : r \in IntoRoutes[d]} : d \in inward_dsts(hp[1], hp[2])}]
  BY IntoFixed, ZenonT(60) DEF IntoRoutes
<1>. QED  BY <1>1 DEF Hops

\* A route into a port is a list of hops that begins with it.
LEMMA IntoTyped ==
    ASSUME NEW hop \in Hops, NEW r \in IntoRoutes[hop]
    PROVE  r \in Seq(Hops) /\ Len(r) > 0 /\ r[1] = hop
<1> DEFINE Fine(h, s) == s \in Seq(Hops) /\ Len(s) > 0 /\ s[1] = h
           Bad == {n \in Nodes : \E p \in Ports : \E s \in IntoRoutes[<<n, p>>] : ~Fine(<<n, p>>, s)}
<1>1. ASSUME Bad # {} PROVE FALSE
  <2>1. PICK n \in Bad : \A m \in Bad : Parent(m) # n
    <3>1. Bad \in SUBSET Nodes  OBVIOUS
    <3> HIDE DEF Bad
    <3>. QED  BY <1>1, <3>1, DepthAssumption
  <2>2. PICK p \in Ports : \E s \in IntoRoutes[<<n, p>>] : ~Fine(<<n, p>>, s)  OBVIOUS
  <2> DEFINE h == <<n, p>>
  <2>3. PICK s \in IntoRoutes[h] : ~Fine(h, s)  BY <2>2
  <2>4. h \in Hops /\ h[1] = n /\ h[2] = p  BY DEF Hops
  <2> HIDE DEF h
  <2>5. CASE n \in Leaves
    <3>1. s = <<h>>  BY <2>3, <2>4, <2>5, IntoEquation
    <3>. QED  BY <2>3, <2>4, <3>1
  <2>6. CASE n \notin Leaves
    <3>1. PICK d \in inward_dsts(n, p) : \E q \in IntoRoutes[d] : s = <<h>> \o q
      <4>1. IntoRoutes[h] = UNION {{<<h>> \o q : q \in IntoRoutes[d]} : d \in inward_dsts(n, p)}
        BY <2>4, <2>6, IntoEquation
      <4>. QED  BY <2>3, <4>1
    <3>2. PICK q \in IntoRoutes[d] : s = <<h>> \o q  BY <3>1
    <3>3. d \in Hops /\ Parent(d[1]) = n  BY LinkedHops
    <3>4. d[1] \in Nodes /\ d[2] \in Ports /\ d = <<d[1], d[2]>>  BY <3>3 DEF Hops
    <3>5. d[1] \notin Bad  BY <2>1, <3>3
    <3>6. Fine(d, q)  BY <3>2, <3>4, <3>5
    <3>7. <<h>> \in Seq(Hops) /\ Len(<<h>>) = 1 /\ <<h>>[1] = h  BY <2>4
    <3>8. q \in Seq(Hops) /\ Len(q) \in Nat  BY <3>6
    <3>9. /\ s \in Seq(Hops) /\ Len(s) = 1 + Len(q)
          /\ \A i \in 1 .. 1 + Len(q) : s[i] = IF i <= 1 THEN <<h>>[i] ELSE q[i - 1]
      BY <3>2, <3>7, <3>8, ConcatProperties
    <3>10. s[1] = h /\ Len(s) > 0  BY <3>7, <3>8, <3>9
    <3>. QED  BY <2>3, <3>9, <3>10
  <2>. QED  BY <2>5, <2>6
<1>2. hop[1] \in Nodes /\ hop[2] \in Ports /\ hop = <<hop[1], hop[2]>>  BY DEF Hops
<1>. QED  BY <1>1, <1>2

\* A message leaves nodes by outward links from src, and then passes to a
\* component of the same node that the last of them is in.
Up(src, u) ==
    \A i \in 1 .. Len(u) :
        LET from == IF i = 1 THEN src ELSE u[i - 1]
        IN  \E p \in outward_ports(from[1], from[2]) : u[i] = <<Parent(from[1]), p>>
EndOf(src, u) == IF u = <<>> THEN src ELSE u[Len(u)]
Across(hop) == UNION {IntoRoutes[d] : d \in inner_dsts(hop[1], hop[2])}
RoutePaths ==
    [src \in Hops |-> UNION {{u \o r : r \in Across(EndOf(src, u))} : u \in {v \in Seq(Hops) : Up(src, v)}}]

\* A message that is passed outward is at a port of the node above.
LEMMA OutwardHop ==
    ASSUME NEW src \in Hops, NEW p \in outward_ports(src[1], src[2])
    PROVE  <<Parent(src[1]), p>> \in Hops
  BY LinkedHops DEF Hops, Nodes

\* So are the routes to the other components of the same node.
LEMMA AcrossTyped ==
    ASSUME NEW src \in Hops, NEW r \in Across(src)
    PROVE  r \in Seq(Hops) /\ Len(r) > 0
<1>1. PICK d \in inner_dsts(src[1], src[2]) : r \in IntoRoutes[d]  BY DEF Across
<1>2. d \in Hops  BY LinkedHops DEF Hops
<1>. QED  BY <1>1, <1>2, IntoTyped

\* A way outward ends at a port of a node.
LEMMA EndTyped ==
    ASSUME NEW src \in Hops, NEW u \in Seq(Hops)
    PROVE  EndOf(src, u) \in Hops
<1>1. CASE u = <<>>  BY <1>1 DEF EndOf
<1>2. CASE u # <<>>
  <2>1. Len(u) \in 1 .. Len(u)  BY <1>2, EmptySeq
  <2>. QED  BY <1>2, <2>1, ElementOfSeq DEF EndOf
<1>. QED  BY <1>1, <1>2

\* What is on a path, spelled out.
LEMMA PathsOf ==
    ASSUME NEW src \in Hops
    PROVE  \A s : s \in RoutePaths[src] <=>
                \E u \in Seq(Hops) : Up(src, u) /\ \E q \in Across(EndOf(src, u)) : s = u \o q
<1>1. RoutePaths[src] = UNION {{u \o r : r \in Across(EndOf(src, u))} : u \in {v \in Seq(Hops) : Up(src, v)}}
  BY DEF RoutePaths
<1> HIDE DEF RoutePaths
<1>2. \A s : s \in RoutePaths[src] <=> \E u \in {v \in Seq(Hops) : Up(src, v)} : s \in {u \o r : r \in Across(EndOf(src, u))}
  BY <1>1, Zenon
<1>. QED  BY <1>2, Zenon

\* These paths are what the equation of Routes asks for.
LEMMA RoutesFixed ==
    RoutePaths = [src \in Nodes \X Ports |->
        LET up == Parent(src[1])
        IN  (UNION {IntoRoutes[d] : d \in inner_dsts(src[1], src[2])})
            \cup (UNION {{<<<<up, p>>>> \o r : r \in RoutePaths[<<up, p>>]}
                           : p \in outward_ports(src[1], src[2])})]
<1>1. ASSUME NEW src \in Hops
      PROVE  RoutePaths[src] = Across(src)
                \cup UNION {{<<<<Parent(src[1]), p>>>> \o r : r \in RoutePaths[<<Parent(src[1]), p>>]}
                              : p \in outward_ports(src[1], src[2])}
  <2> DEFINE up == Parent(src[1])
             ports == outward_ports(src[1], src[2])
  <2>1. ASSUME NEW s \in Across(src) PROVE s \in RoutePaths[src]
    <3>1. <<>> \in Seq(Hops) /\ Up(src, <<>>) /\ EndOf(src, <<>>) = src  BY DEF Up, EndOf
    <3>2. s = <<>> \o s  BY AcrossTyped, ConcatEmptySeq
    <3>. QED  BY <3>1, <3>2, PathsOf
  <2>2. ASSUME NEW p \in ports, NEW r \in RoutePaths[<<up, p>>]
        PROVE  <<<<up, p>>>> \o r \in RoutePaths[src]
    <3> DEFINE h == <<up, p>>
    <3>1. h \in Hops  BY OutwardHop
    <3> HIDE DEF h
    <3>2. PICK v \in Seq(Hops) : Up(h, v) /\ \E q \in Across(EndOf(h, v)) : r = v \o q
      BY <3>1 DEF RoutePaths, h
    <3>3. PICK q \in Across(EndOf(h, v)) : r = v \o q  BY <3>2
    <3>4. q \in Seq(Hops)  BY <3>1, AcrossTyped, EndTyped
    <3> DEFINE u == <<h>> \o v
    <3>5. <<h>> \in Seq(Hops) /\ Len(<<h>>) = 1 /\ <<h>>[1] = h /\ Len(v) \in Nat  BY <3>1
    <3>6. /\ u \in Seq(Hops) /\ Len(u) = 1 + Len(v)
          /\ \A i \in 1 .. 1 + Len(v) : u[i] = IF i <= 1 THEN <<h>>[i] ELSE v[i - 1]
      BY <3>5, ConcatProperties
    <3>7. <<h>> \o r = u \o q  BY <3>3, <3>4, <3>5, ConcatAssociative, SMTT(30)
    <3> HIDE DEF u
    <3>8. Up(src, u)
      <4>1. SUFFICES ASSUME NEW i \in 1 .. Len(u)
                     PROVE  LET from == IF i = 1 THEN src ELSE u[i - 1]
                            IN  \E o \in outward_ports(from[1], from[2]) : u[i] = <<Parent(from[1]), o>>
        BY DEF Up
      <4>2. CASE i = 1
        <5>1. u[i] = h  BY <3>5, <3>6, <4>2
        <5>. QED  BY <4>2, <5>1 DEF h
      <4>3. CASE i # 1
        <5>1. i - 1 \in 1 .. Len(v) /\ i \in Nat /\ i > 1  BY <3>5, <3>6, <4>3
        <5>2. u[i] = v[i - 1]  BY <3>5, <3>6, <5>1
        <5>3. u[i - 1] = IF i - 1 = 1 THEN h ELSE v[i - 1 - 1]  BY <3>5, <3>6, <5>1
        <5>. QED  BY <3>2, <4>3, <5>1, <5>2, <5>3 DEF Up
      <4>. QED  BY <4>2, <4>3
    <3>9. EndOf(src, u) = EndOf(h, v)
      <4>1. u # <<>>  
        <5>1. Len(u) # 0  BY <3>5, <3>6
        <5>2. Len(<<>>) = 0  OBVIOUS
        <5>. QED  BY <5>1, <5>2, Zenon
      <4>2. CASE v = <<>>
        <5>1. Len(v) = 0  BY <4>2
        <5>2. u[Len(u)] = h  BY <3>5, <3>6, <5>1
        <5>. QED  BY <4>1, <4>2, <5>2 DEF EndOf
      <4>3. CASE v # <<>>
        <5>1. Len(v) > 0  BY <3>5, <4>3, EmptySeq
        <5>2. u[Len(u)] = v[Len(v)]  BY <3>5, <3>6, <5>1
        <5>. QED  BY <4>1, <4>3, <5>2 DEF EndOf
      <4>. QED  BY <4>2, <4>3
    <3>10. <<h>> \o r \in RoutePaths[src]  BY <3>3, <3>6, <3>7, <3>8, <3>9, PathsOf
    <3>. QED  BY <3>10 DEF h
  <2>3. ASSUME NEW s \in RoutePaths[src]
        PROVE  \/ s \in Across(src)
               \/ \E p \in ports : \E r \in RoutePaths[<<up, p>>] : s = <<<<up, p>>>> \o r
    <3>1. PICK u \in Seq(Hops) : Up(src, u) /\ \E q \in Across(EndOf(src, u)) : s = u \o q
      BY DEF RoutePaths
    <3>2. PICK q \in Across(EndOf(src, u)) : s = u \o q  BY <3>1
    <3>3. q \in Seq(Hops)  BY AcrossTyped, EndTyped
    <3>4. CASE u = <<>>
      <4>1. s = q /\ EndOf(src, u) = src  BY <3>2, <3>3, <3>4, ConcatEmptySeq DEF EndOf
      <4>. QED  BY <3>2, <4>1
    <3>5. CASE u # <<>>
      <4> DEFINE v == Tail(u)
                 h == u[1]
      <4>1. Len(u) \in Nat /\ Len(u) > 0  BY <3>5, EmptySeq
      <4>2. PICK p \in ports : h = <<up, p>>
        <5>1. 1 \in 1 .. Len(u)  BY <4>1
        <5>. QED  BY <3>1, <5>1 DEF Up
      <4>3. h \in Hops  BY <4>2, OutwardHop
      <4>4. /\ v \in Seq(Hops) /\ Len(v) = Len(u) - 1
            /\ \A i \in 1 .. Len(u) - 1 : v[i] = u[i + 1]
        BY <3>5, HeadTailProperties, Zenon
      <4>5. <<h>> \in Seq(Hops) /\ Len(<<h>>) = 1 /\ <<h>>[1] = h  BY <4>3
      <4> HIDE DEF v
      <4>6. u = <<h>> \o v
        <5>1. /\ <<h>> \o v \in Seq(Hops) /\ Len(<<h>> \o v) = 1 + Len(v)
              /\ \A i \in 1 .. 1 + Len(v) : (<<h>> \o v)[i] = IF i <= 1 THEN <<h>>[i] ELSE v[i - 1]
          BY <4>4, <4>5, ConcatProperties
        <5>2. Len(<<h>> \o v) = Len(u)  BY <4>1, <4>4, <5>1
        <5>3. ASSUME NEW i \in 1 .. Len(u) PROVE u[i] = (<<h>> \o v)[i]
          <6>1. CASE i = 1  BY <4>1, <4>4, <4>5, <5>1, <6>1
          <6>2. CASE i # 1
            <7>1. i - 1 \in 1 .. Len(u) - 1 /\ i - 1 + 1 = i /\ ~(i <= 1) /\ i \in 1 .. 1 + Len(v)
              BY <4>1, <4>4, <6>2
            <7>. QED  BY <4>4, <5>1, <7>1
          <6>. QED  BY <6>1, <6>2
        <5>. QED  BY <5>1, <5>2, <5>3, SeqEqual
      <4>7. s = <<h>> \o (v \o q)
        <5>1. (<<h>> \o v) \o q = <<h>> \o (v \o q)
          BY <3>3, <4>4, <4>5, ConcatAssociative
        <5>. QED  BY <3>2, <4>6, <5>1, Zenon
      <4>8. Up(h, v)
        <5>1. SUFFICES ASSUME NEW i \in 1 .. Len(v)
                       PROVE  LET from == IF i = 1 THEN h ELSE v[i - 1]
                              IN  \E o \in outward_ports(from[1], from[2]) : v[i] = <<Parent(from[1]), o>>
          BY DEF Up
        <5>2. i + 1 \in 1 .. Len(u) /\ i + 1 # 1 /\ i + 1 - 1 = i /\ i \in 1 .. Len(u) - 1
          BY <4>1, <4>4
        <5>3. v[i] = u[i + 1] /\ (IF i = 1 THEN h ELSE v[i - 1]) = u[i]
          <6>1. CASE i = 1  BY <4>4, <5>2, <6>1
          <6>2. CASE i # 1
            <7>1. i - 1 \in 1 .. Len(u) - 1 /\ i - 1 + 1 = i  BY <4>1, <5>2, <6>2
            <7>. QED  BY <4>4, <5>2, <6>2, <7>1
          <6>. QED  BY <6>1, <6>2
        <5>4. \E o \in outward_ports(u[i][1], u[i][2]) : u[i + 1] = <<Parent(u[i][1]), o>>
          BY <3>1, <5>2 DEF Up
        <5>. QED  BY <5>3, <5>4
      <4>9. EndOf(h, v) = EndOf(src, u)
        <5>1. CASE v = <<>>
          <6>1. Len(v) = 0  BY <5>1
          <6>2. Len(u) = 1  BY <4>1, <4>4, <6>1
          <6>. QED  BY <3>5, <5>1, <6>2 DEF EndOf
        <5>2. CASE v # <<>>
          <6>1. Len(v) > 0  BY <4>4, <5>2, EmptySeq
          <6>2. Len(v) \in 1 .. Len(u) - 1 /\ Len(v) + 1 = Len(u)  BY <4>1, <4>4, <6>1
          <6>3. v[Len(v)] = u[Len(u)]  BY <4>4, <6>2
          <6>. QED  BY <3>5, <5>2, <6>3 DEF EndOf
        <5>. QED  BY <5>1, <5>2
      <4>10. v \o q \in RoutePaths[h]  BY <3>2, <4>3, <4>4, <4>8, <4>9, PathsOf
      <4> HIDE DEF h
      <4>. QED  BY <4>2, <4>7, <4>10
    <3>. QED  BY <3>4, <3>5
  <2> HIDE DEF up, ports
  <2>4. \A s : s \in RoutePaths[src] <=>
            s \in Across(src) \/ \E p \in ports : \E r \in RoutePaths[<<up, p>>] : s = <<<<up, p>>>> \o r
    BY <2>1, <2>2, <2>3
  <2>5. RoutePaths[src] = Across(src)
                \cup UNION {{<<<<up, p>>>> \o r : r \in RoutePaths[<<up, p>>]} : p \in ports}
    <3> DEFINE A == RoutePaths[src]
               B == Across(src)
               X(p) == {<<<<up, p>>>> \o r : r \in RoutePaths[<<up, p>>]}
               C == UNION {X(p) : p \in ports}
    <3>1. \A s : s \in C <=> \E p \in ports : \E r \in RoutePaths[<<up, p>>] : s = <<<<up, p>>>> \o r
      <4>1. ASSUME NEW s \in C
            PROVE  \E p \in ports : \E r \in RoutePaths[<<up, p>>] : s = <<<<up, p>>>> \o r
        BY <4>1
      <4>2. ASSUME NEW p \in ports, NEW r \in RoutePaths[<<up, p>>]
            PROVE  <<<<up, p>>>> \o r \in C
        BY <4>2
      <4> HIDE DEF C
      <4>. QED  BY <4>1, <4>2
    <3>2. \A s : s \in A <=> s \in B \/ s \in C  BY <2>4, <3>1, Zenon
    <3> HIDE DEF A, B, C
    <3>3. A = B \cup C  BY <3>2
    <3>. QED  BY <3>3 DEF A, B, C
  <2>. QED  BY <2>5 DEF up, ports
<1>2. DOMAIN RoutePaths = Hops /\ RoutePaths = [src \in Hops |-> RoutePaths[src]]
  BY DEF RoutePaths
<1>3. RoutePaths = [src \in Hops |-> Across(src)
                \cup UNION {{<<<<Parent(src[1]), p>>>> \o r : r \in RoutePaths[<<Parent(src[1]), p>>]}
                              : p \in outward_ports(src[1], src[2])}]
  BY <1>1, <1>2, Zenon
<1>. QED  BY <1>3, Zenon DEF Across, Hops

\* The routes from a port are those to the components it is linked to and those
\* that leave the node above by one of its ports first.
LEMMA RoutesEquation ==
    ASSUME NEW src \in Hops
    PROVE  Routes[src] = Across(src)
              \cup UNION {{<<<<Parent(src[1]), p>>>> \o r : r \in Routes[<<Parent(src[1]), p>>]}
                            : p \in outward_ports(src[1], src[2])}
<1>1. Routes = [hp \in Nodes \X Ports |->
        LET up == Parent(hp[1])
        IN  (UNION {IntoRoutes[d] : d \in inner_dsts(hp[1], hp[2])})
            \cup (UNION {{<<<<up, p>>>> \o r : r \in Routes[<<up, p>>]}
                           : p \in outward_ports(hp[1], hp[2])})]
  BY RoutesFixed, Zenon DEF Routes
<1>. QED  BY <1>1, Zenon DEF Hops, Across

\* A route is a list of hops, with one at least.
LEMMA RoutesTyped ==
    ASSUME NEW src \in Hops, NEW r \in Routes[src]
    PROVE  r \in Seq(Hops) /\ Len(r) > 0
<1> DEFINE Fine(s) == s \in Seq(Hops) /\ Len(s) > 0
           Good == {n \in Nodes : \A p \in Ports : \A s \in Routes[<<n, p>>] : Fine(s)}
<1>1. ASSUME NEW n \in Nodes, Parent(n) = Root \/ Parent(n) \in Good, NEW p \in Ports,
             NEW s \in Routes[<<n, p>>]
      PROVE  Fine(s)
  <2> DEFINE h == <<n, p>>
  <2>1. h \in Hops /\ h[1] = n /\ h[2] = p  BY DEF Hops
  <2> HIDE DEF h
  <2>2. s \in Routes[h]  BY DEF h
  <2>3. CASE s \in Across(h)  BY <2>1, <2>3, AcrossTyped
  <2>4. CASE s \notin Across(h)
    <3>1. PICK o \in outward_ports(n, p) : \E q \in Routes[<<Parent(n), o>>] : s = <<<<Parent(n), o>>>> \o q
      <4>1. Routes[h] = Across(h) \cup
                UNION {{<<<<Parent(h[1]), o>>>> \o q : q \in Routes[<<Parent(h[1]), o>>]}
                            : o \in outward_ports(h[1], h[2])}
        BY <2>1, RoutesEquation
      <4>2. s \in UNION {{<<<<Parent(h[1]), o>>>> \o q : q \in Routes[<<Parent(h[1]), o>>]}
                            : o \in outward_ports(h[1], h[2])}
        BY <2>2, <2>4, <4>1, Zenon
      <4>. QED  BY <2>1, <4>2
    <3>2. PICK q \in Routes[<<Parent(n), o>>] : s = <<<<Parent(n), o>>>> \o q  BY <3>1
    <3>3. Parent(n) \in Composites /\ o \in Ports  BY LinkedHops
    <3>4. Parent(n) # Root  BY <3>3, TreeAssumption DEF Nodes
    <3>5. Fine(q)  BY <1>1, <3>2, <3>3, <3>4
    <3> DEFINE g == <<Parent(n), o>>
    <3>6. g \in Hops  BY <3>3 DEF Hops, Nodes
    <3> HIDE DEF g
    <3>7. <<g>> \in Seq(Hops) /\ Len(<<g>>) = 1 /\ q \in Seq(Hops) /\ Len(q) \in Nat  BY <3>5, <3>6
    <3>8. <<g>> \o q \in Seq(Hops) /\ Len(<<g>> \o q) = 1 + Len(q)  BY <3>7, ConcatProperties
    <3>9. Len(<<g>> \o q) > 0  BY <3>7, <3>8
    <3>. QED  BY <3>2, <3>8, <3>9 DEF g
  <2>. QED  BY <2>3, <2>4
<1>2. \A n \in Nodes : (Parent(n) = Root \/ Parent(n) \in Good) => n \in Good  BY <1>1
<1>3. Nodes \subseteq Good
  <2> HIDE DEF Good
  <2>. QED  BY <1>2, TreeInduction
<1>4. src[1] \in Nodes /\ src[2] \in Ports /\ src = <<src[1], src[2]>>  BY DEF Hops
<1>. QED  BY <1>3, <1>4

\* The port indices of a set, in the order in which a std::set holds them.
Sorted(s, S) ==
    /\ s \in [1 .. Cardinality(S) -> S]
    /\ \A i, j \in DOMAIN s : i < j => s[i] < s[j]

\* Any finite set can be sorted: one without its least element is smaller.
LEMMA SortExists ==
    ASSUME NEW T \in SUBSET Nat, IsFiniteSet(T)
    PROVE  \E s : Sorted(s, T)
<1> DEFINE Bad == {S \in SUBSET T : ~ \E s : Sorted(s, S)}
           size == [S \in Bad |-> Cardinality(S)]
<1>1. ASSUME Bad # {} PROVE FALSE
  <2>1. \A S \in SUBSET T : IsFiniteSet(S) /\ Cardinality(S) \in Nat
    BY FS_Subset, FS_CardinalityType
  <2>2. size \in [Bad -> Nat]  BY <2>1
  <2>3. PICK S \in Bad : \A R \in Bad : size[S] <= size[R]
    <3> HIDE DEF Bad, size
    <3>. QED  BY <1>1, <2>2, LeastValue
  <2>4. S \in SUBSET T /\ S \in SUBSET Nat /\ IsFiniteSet(S) /\ Cardinality(S) \in Nat
    BY <2>1
  <2>5. S # {}
    <3>1. SUFFICES ASSUME S = {} PROVE \E s : Sorted(s, S)
      OBVIOUS
    <3>2. Cardinality(S) = 0  BY <3>1, FS_EmptySet
    <3>3. <<>> \in [1 .. 0 -> S] /\ \A i, j \in DOMAIN <<>> : i < j => <<>>[i] < <<>>[j]
      OBVIOUS
    <3>. QED  BY <3>2, <3>3 DEF Sorted
  <2>6. PICK x \in S : \A y \in S : x <= y  BY <2>4, <2>5, LeastNatural
  <2> DEFINE R == S \ {x}
             n == Cardinality(R)
  <2>7. Cardinality(S) = n + 1 /\ n \in Nat /\ R \in SUBSET T
    <3>1. Cardinality(R) = Cardinality(S) - 1  BY <2>4, FS_RemoveElement
    <3>2. R \in SUBSET T  BY <2>4
    <3>3. Cardinality(R) \in Nat  BY <2>1, <3>2
    <3>. QED  BY <2>4, <3>1, <3>2, <3>3
  <2>8. R \notin Bad
    <3>1. ASSUME R \in Bad PROVE FALSE
      <4>1. Cardinality(S) <= Cardinality(R)  BY <2>3, <3>1
      <4>. QED  BY <2>7, <4>1
    <3>. QED  BY <3>1
  <2>9. PICK r : Sorted(r, R)  BY <2>7, <2>8
  <2> DEFINE s == [i \in 1 .. n + 1 |-> IF i = 1 THEN x ELSE r[i - 1]]
  <2>10. r \in [1 .. n -> R] /\ \A i, j \in 1 .. n : i < j => r[i] < r[j]
    BY <2>9 DEF Sorted
  <2>11. \A i \in 1 .. n + 1 : i # 1 => i - 1 \in 1 .. n  BY <2>7
  <2>12. \A i \in 1 .. n : r[i] \in S /\ r[i] \in Nat /\ x < r[i]
    <3>1. x \in Nat /\ \A y \in R : y \in S /\ y \in Nat /\ x < y  BY <2>4, <2>6
    <3> HIDE DEF R
    <3>. QED  BY <2>10, <3>1
  <2>13. s \in [1 .. n + 1 -> S]
    <3> HIDE DEF n
    <3>. QED  BY <2>11, <2>12
  <2>14. ASSUME NEW i \in 1 .. n + 1, NEW j \in 1 .. n + 1, i < j PROVE s[i] < s[j]
    <3>1. j # 1 /\ j - 1 \in 1 .. n /\ s[j] = r[j - 1]  BY <2>7, <2>14
    <3>2. CASE i = 1  BY <2>12, <3>1, <3>2
    <3>3. CASE i # 1
      <4>1. i - 1 \in 1 .. n /\ s[i] = r[i - 1] /\ i - 1 < j - 1  BY <2>7, <2>14, <3>3
      <4>. QED  BY <2>10, <3>1, <4>1
    <3>. QED  BY <3>2, <3>3
  <2>15. DOMAIN s = 1 .. n + 1  OBVIOUS
  <2> HIDE DEF s, n
  <2>16. Sorted(s, S)  BY <2>7, <2>13, <2>14, <2>15 DEF Sorted
  <2>. QED  BY <2>16
<1>2. T \in SUBSET T  OBVIOUS
<1>. QED  BY <1>1, <1>2

\* A set sorted is all of the set.
LEMMA SortedIsAll ==
    ASSUME NEW S \in SUBSET Nat, IsFiniteSet(S), NEW s, Sorted(s, S), NEW p \in S
    PROVE  \E i \in DOMAIN s : s[i] = p
<1> DEFINE n == Cardinality(S)
<1>1. n \in Nat  BY FS_CardinalityType
<1>2. s \in [1 .. n -> S] /\ \A i, j \in 1 .. n : i < j => s[i] < s[j]  BY DEF Sorted
<1>3. IsFiniteSet(1 .. n) /\ Cardinality(1 .. n) = n
  <2>1. 1 \in Int /\ n \in Int  BY <1>1
  <2>2. IsFiniteSet(1 .. n) /\ Cardinality(1 .. n) = IF 1 > n THEN 0 ELSE n - 1 + 1
    <3> HIDE DEF n
    <3>. QED  BY <2>1, FS_Interval
  <2> HIDE DEF n
  <2>. QED  BY <1>1, <2>2
<1> HIDE DEF n
<1>4. s \in Injection(1 .. n, S)
  <2>1. ASSUME NEW i \in 1 .. n, NEW j \in 1 .. n, s[i] = s[j] PROVE i = j
    <3>1. s[i] \in Nat /\ s[j] \in Nat  BY <1>2
    <3>2. ~(i < j) /\ ~(j < i)  BY <1>2, <2>1, <3>1
    <3>. QED  BY <1>1, <3>2
  <2>. QED  BY <1>2, <2>1 DEF Injection, IsInjective
<1>5. s \in Surjection(1 .. n, S)  BY <1>3, <1>4, FS_Injection DEF n
<1>. QED  BY <1>2, <1>5 DEF Surjection

\* Hence a std::set of port indices is gone through in ascending order, and all
\* of it.
LEMMA AscendingSorts ==
    ASSUME NEW S \in SUBSET Nat, IsFiniteSet(S)
    PROVE  /\ Ascending(S) \in Seq(S) /\ DOMAIN Ascending(S) = 1 .. Len(Ascending(S))
           /\ \A p \in S : \E i \in DOMAIN Ascending(S) : Ascending(S)[i] = p
           /\ \A i, j \in DOMAIN Ascending(S) : i < j => Ascending(S)[i] < Ascending(S)[j]
<1>1. \E s \in [1 .. Cardinality(S) -> S] : \A i, j \in DOMAIN s : i < j => s[i] < s[j]
  BY SortExists DEF Sorted
<1>2. Sorted(Ascending(S), S)
  BY <1>1 DEF Ascending, Sorted
<1>3. Cardinality(S) \in Nat  BY FS_CardinalityType
<1>4. Ascending(S) \in Seq(S)  BY <1>2, <1>3, SeqDef DEF Sorted
<1>. QED  BY <1>2, <1>4, SortedIsAll, LenProperties DEF Sorted

-----------------------------------------------------------------------------
(* The deliveries that are owed                                            *)

\* The handler that routes the message being delivered is the only one below
\* unplanned events.
RouterIs(q) ==
    /\ q \in DOMAIN stack
    /\ \A j \in DOMAIN stack : j > q <=> stack[j].call.event = "unplanned"
Routing == stack[Router]
Current == outputs[Routing.src][Routing.routed]
SentBy(n) == IF Busy /\ Routing.src = n THEN Routing.routed ELSE 0

\* What is owed by the calls a frame has yet to make, by the messages in the
\* lists that are yet to be routed, and by the passing on of the current one.
Waiting(i) == IF i = Len(stack) THEN stack[i].calls ELSE stack[i].calls \ {stack[i + 1].call}
ByCall(i, x, d) ==
    \E r \in IntoRoutes[<<x.node, x.port>>] : d = <<x.msg[2] \o Entered(i) \o r, x.msg[1]>>
CallOwes(d) ==
    \E i \in DOMAIN stack : \E x \in Waiting(i) : x.event = "unplanned" /\ ByCall(i, x, d)
ByMessage(n, m, d) == \E r \in Routes[<<n, m.port>>] : d = <<m.msg[2] \o r, m.msg[1]>>
ListOwes(d) ==
    \E n \in Nodes : \E j \in DOMAIN outputs[n] : j > SentBy(n) /\ ByMessage(n, outputs[n][j], d)
ByPassing(n, m, d) ==
    \E p \in outward_ports(n, m.port) : \E r \in Routes[<<Parent(n), p>>] :
        d = <<Append(m.msg[2], <<Parent(n), p>>) \o r, m.msg[1]>>
PassingOwes(d) == Busy /\ Routing.routed > 0 /\ ByPassing(Routing.src, Current, d)
Owes(d) == CallOwes(d) \/ ListOwes(d) \/ PassingOwes(d)
OwedKept == failure = "none" => \A d : d \in owed <=> Owes(d)

\* Unplanned events are those of the message the router is at.
HasRouter == Busy => \E q \in DOMAIN stack : RouterIs(q)
RoutesOne ==
    Routing.routed > 0 =>
       /\ Routing.call.event = "planned" /\ Routing.call.node \in Composites
       /\ Routing.routed \in DOMAIN outputs[Routing.src]
       /\ \A x \in Routing.calls : x.event = "unplanned"
RouterKept ==
    Busy =>
    /\ \A i \in DOMAIN stack : stack[i].routed \in Nat /\ (i < Router => stack[i].routed = 0)
    /\ RoutesOne
    /\ \A i \in DOMAIN stack : \A x \in stack[i].calls : x.event = "unplanned" =>
          /\ i >= Router /\ Routing.routed > 0
          /\ x = Call(x.node, "unplanned", x.port, Current.msg) /\ x.port \in Ports

\* Only the component whose messages are routed, and the node that passes them
\* on, have any.
Sending ==
    failure = "none" =>
    \A n \in Nodes : outputs[n] # <<>> =>
       /\ Busy /\ Routing.call.event = "planned" /\ Routing.call.node \in Composites
       /\ n \in {Routing.src, Routing.call.node}
       /\ \A x \in Routing.calls : x.event = "unplanned"

\* The messages in a list are in the order in which they were sent, all come
\* through the same number of ports, and are distinct.
MessageOK(m) == m.port \in Ports /\ \E k \in Nat, h \in Seq(Hops) : m.msg = <<k, h>>
InOrder(m, l) ==
    m.msg[1] <= l.msg[1] /\ m.msg # l.msg /\ Len(m.msg[2]) = Len(l.msg[2])
ListOK(list) ==
    /\ list \in Seq({list[j] : j \in DOMAIN list})
    /\ \A j \in DOMAIN list : MessageOK(list[j])
    /\ \A j, l \in DOMAIN list : j < l => InOrder(list[j], list[l])
Labelled == \A n \in Nodes : ListOK(outputs[n])

\* What the router has passed on are messages before the current one.
Passes(c, e, m) == e.msg = <<m.msg[1], Append(m.msg[2], <<c, e.port>>)>>
Passed ==
    Busy /\ Routing.call.event = "planned" /\ Routing.call.node \in Composites =>
       \A e \in DOMAIN outputs[Routing.call.node] :
          \E j \in DOMAIN outputs[Routing.src] :
             /\ j < Routing.routed
             /\ Passes(Routing.call.node, outputs[Routing.call.node][e], outputs[Routing.src][j])

RoutingOK == HasRouter /\ RouterKept /\ Sending /\ Labelled /\ Passed

\* No message is about.
Quiet ==
    /\ \A n \in Nodes : outputs[n] = <<>>
    /\ \A i \in DOMAIN stack :
          /\ stack[i].call.event # "unplanned" /\ stack[i].routed = 0
          /\ \A x \in stack[i].calls : x.event # "unplanned"

OneRouter == \A q : RouterIs(q) => Router = q
NothingOwed == \A d : ~Owes(d)

-----------------------------------------------------------------------------
(* The router                                                              *)

\* There is at most one router.
LEMMA RouterFound == StackOK => OneRouter
<1> SUFFICES ASSUME StackOK, NEW q, RouterIs(q)
             PROVE  Router = q
  BY DEF OneRouter
<1>1. DOMAIN stack = 1 .. Len(stack) /\ Len(stack) \in Nat
  BY StackDomain
<1>2. ASSUME NEW i \in DOMAIN stack,
             \A j \in DOMAIN stack : j > i <=> stack[j].call.event = "unplanned"
      PROVE  i = q
  <2>1. q \in DOMAIN stack /\ \A j \in DOMAIN stack : j > i <=> j > q
    BY <1>2 DEF RouterIs
  <2>2. ~(i > i) /\ ~(q > q) /\ i \in Int /\ q \in Int
    BY <1>1, <2>1
  <2>3. ~(q > i) /\ ~(i > q)
    BY <2>1, <2>2, <1>2
  <2>4. QED
    BY <2>2, <2>3
<1>3. QED
  BY <1>2 DEF Router, RouterIs

LEMMA RouterFoundNext == StackOK' => OneRouter'
  BY RouterFound, PTL

\* While no message is about, the top handler is the router, and the invariant
\* holds with nothing owed.
LEMMA QuietRouter ==
    ASSUME StackOK, Quiet, Busy
    PROVE  RouterIs(Len(stack)) /\ Router = Len(stack)
<1>1. RouterIs(Len(stack))
  BY StackDomain DEF RouterIs, Quiet
<1>2. QED
  BY <1>1, RouterFound DEF OneRouter

LEMMA QuietRouting == StackOK /\ Quiet => RoutingOK /\ NothingOwed
<1> SUFFICES ASSUME StackOK, Quiet PROVE RoutingOK /\ NothingOwed
  OBVIOUS
<1>1. DOMAIN stack = 1 .. Len(stack) /\ Len(stack) \in Nat /\ (Busy <=> Len(stack) > 0)
  BY StackDomain
<1>2. Busy => RouterIs(Len(stack)) /\ Router = Len(stack) /\ Len(stack) \in DOMAIN stack
  BY <1>1, QuietRouter
<1>3. HasRouter
  BY <1>2 DEF HasRouter
<1>4. Busy => Routing.routed = 0
  BY <1>2 DEF Quiet, Routing
<1>5. RouterKept
  BY <1>1, <1>2, <1>4 DEF RouterKept, RoutesOne, Quiet
<1>6. Sending /\ Labelled
  <2>1. \A n \in Nodes : outputs[n] = <<>>
    BY DEF Quiet
  <2>2. DOMAIN <<>> = {} /\ \A S : <<>> \in Seq(S)
    BY EmptySeq
  <2>3. Sending
    BY <2>1 DEF Sending
  <2>4. ListOK(<<>>)
    BY <2>2, Zenon DEF ListOK
  <2>5. Labelled
    BY <2>1, <2>4, Zenon DEF Labelled, ListOK
  <2>6. QED
    BY <2>3, <2>5
<1>7. Passed
  <2>1. \A n \in Nodes : DOMAIN outputs[n] = {}
    BY EmptySeq DEF Quiet
  <2>2. QED
    BY <2>1 DEF Passed, Nodes
<1>8. ASSUME NEW d, Owes(d) PROVE FALSE
  <2>1. ~CallOwes(d)
    BY DEF CallOwes, Waiting, Quiet
  <2>2. ~ListOwes(d)
    BY EmptySeq DEF ListOwes, Quiet
  <2>3. ~PassingOwes(d)
    BY <1>4 DEF PassingOwes
  <2>4. QED
    BY <1>8, <2>1, <2>2, <2>3 DEF Owes
<1>9. QED
  BY <1>3, <1>5, <1>6, <1>7, <1>8 DEF RoutingOK, NothingOwed

LEMMA QuietRoutingNext == StackOK' /\ Quiet' => RoutingOK' /\ NothingOwed'
  BY QuietRouting, PTL

\* Where the top handler is not passing a message on, none is.
LEMMA TopRouter ==
    ASSUME StackOK, HasRouter, Busy, top.call.event # "unplanned"
    PROVE  /\ Router = Len(stack) /\ Routing = top /\ RouterIs(Len(stack))
           /\ \A i \in DOMAIN stack : i \in Nat /\ i <= Len(stack)
<1>1. DOMAIN stack = 1 .. Len(stack) /\ Len(stack) \in Nat /\ Len(stack) > 0
  BY StackDomain
<1>2. PICK q \in DOMAIN stack : RouterIs(q)
  BY DEF HasRouter
<1>3. Router = q
  BY <1>2, RouterFound DEF OneRouter
<1>4. ~(Len(stack) > q)
  BY <1>1, <1>2 DEF RouterIs, top
<1>5. q = Len(stack)
  BY <1>1, <1>4
<1>6. QED
  BY <1>1, <1>2, <1>3, <1>5 DEF Routing, top

-----------------------------------------------------------------------------
(* Steps while no message is about                                         *)

\* No message is about when the event called next, or the handler that is done,
\* is not for one; nor when no handler is in progress.
LEMMA QuietTop ==
    ASSUME StackOK, RoutingOK, Busy, failure = "none",
           \/ \E x \in top.calls : x.event # "unplanned"
           \/ /\ top.calls = {} /\ top.call.event # "unplanned"
              /\ top.call.event = "planned" => top.call.node \notin Composites
    PROVE  Quiet
<1>1. DOMAIN stack = 1 .. Len(stack) /\ Len(stack) \in Nat /\ Len(stack) > 0
  BY StackDomain
<1>2. FrameOK(top)
  BY <1>1 DEF StackOK, top
<1>3. top.call.event # "unplanned"
  BY <1>2 DEF FrameOK
<1>4. /\ Router = Len(stack) /\ Routing = top /\ RouterIs(Len(stack))
      /\ \A i \in DOMAIN stack : i \in Nat /\ i <= Len(stack)
  BY <1>3, TopRouter DEF RoutingOK
<1>5. /\ \A i \in DOMAIN stack : stack[i].routed \in Nat /\ (i < Router => stack[i].routed = 0)
      /\ RoutesOne
      /\ \A i \in DOMAIN stack : \A x \in stack[i].calls : x.event = "unplanned" =>
            Routing.routed > 0
  BY DEF RoutingOK, RouterKept
<1>6. ~(Routing.routed > 0)
  BY <1>4, <1>5 DEF RoutesOne
<1>7. \A i \in DOMAIN stack : stack[i].routed = 0
  <2>1. ASSUME NEW i \in DOMAIN stack PROVE stack[i].routed = 0
    <3>1. CASE i < Router
      BY <1>5, <3>1
    <3>2. CASE ~(i < Router)
      <4>1. i = Router
        BY <1>1, <1>4, <3>2
      <4>2. QED
        BY <1>5, <1>6, <4>1 DEF Routing
    <3>3. QED
      BY <3>1, <3>2
  <2>2. QED
    BY <2>1
<1>8. \A i \in DOMAIN stack : stack[i].call.event # "unplanned"
  BY <1>1, <1>4 DEF RouterIs
<1>9. \A i \in DOMAIN stack : \A x \in stack[i].calls : x.event # "unplanned"
  BY <1>5, <1>6
<1>10. \A n \in Nodes : outputs[n] = <<>>
  BY <1>4 DEF RoutingOK, Sending
<1>11. QED
  BY <1>7, <1>8, <1>9, <1>10 DEF Quiet

LEMMA QuietIdle ==
    ASSUME StackOK, RoutingOK, ~Busy, failure = "none"
    PROVE  Quiet
<1>1. DOMAIN stack = {}
  BY EmptySeq DEF Busy
<1>2. QED
  BY <1>1 DEF RoutingOK, Sending, Quiet

\* Then nothing is owed.
LEMMA QuietOwed ==
    ASSUME StackOK, Quiet, OwedKept, failure = "none"
    PROVE  owed = {}
  BY QuietRouting DEF NothingOwed, OwedKept

\* A step from such a state to another.
LEMMA QuietStep ==
    ASSUME StackOK, Quiet, OwedKept, failure = "none", StackOK', Quiet', UNCHANGED owed
    PROVE  RoutingOK' /\ OwedKept'
<1>1. owed' = {}
  BY QuietOwed
<1>2. RoutingOK' /\ NothingOwed'
  BY QuietRoutingNext
<1>3. QED
  BY <1>1, <1>2 DEF NothingOwed, OwedKept

\* The steps while no message is about.
LEMMA OwedBegin ==
    ASSUME Progress, RoutingOK, OwedKept,
           NEW event \in {"initialization", "planned", "finalization"}, Begin(event)
    PROVE  RoutingOK' /\ OwedKept'
<1>1. ~Busy /\ failure = "none" /\ UNCHANGED <<outputs, owed>> /\ StackOK
  BY DEF Begin, nodeVars, Progress
<1>2. Quiet
  BY <1>1, QuietIdle
<1>3. /\ StackOK' /\ DOMAIN stack' = {1}
      /\ stack'[1] = Frame(Call(Root, event, 0, <<>>), {Call(Top, event, 0, <<>>)}, Root, 0)
  BY BeginStep DEF Events
<1>4. Quiet'
  BY <1>1, <1>2, <1>3 DEF Quiet, Frame, Call
<1>5. QED
  BY <1>1, <1>2, <1>3, <1>4, QuietStep

\* The simulation's own handler ends when no message is about.
LEMMA EndQuiet ==
    ASSUME Progress, Unwound, RoutingOK, End
    PROVE  Quiet
<1>1. Handling(Root) /\ StackOK /\ failure = "none"
  BY DEF End, Handling, Progress, Unwound
<1>2. Busy /\ top.call.node = Root /\ top.calls = {} /\ Root \notin Composites
  BY <1>1, TreeAssumption DEF Handling, Nodes
<1>3. DOMAIN stack = 1 .. Len(stack) /\ Len(stack) \in Nat /\ Len(stack) > 0
  BY <1>1, <1>2, StackDomain
<1>4. Len(stack) = 1
  BY <1>1, <1>2, <1>3 DEF StackOK, top
<1>5. top.call.event # "unplanned"
  <2>1. PICK q \in DOMAIN stack : RouterIs(q)
    BY <1>2 DEF RoutingOK, HasRouter
  <2>2. q = 1 /\ 1 \in DOMAIN stack /\ ~(1 > 1)
    BY <1>3, <1>4
  <2>3. QED
    BY <1>4, <2>1, <2>2 DEF RouterIs, top
<1>6. QED
  BY <1>1, <1>2, <1>5, QuietTop

LEMMA OwedEnd ==
    ASSUME Progress, Unwound, RoutingOK, OwedKept, End
    PROVE  RoutingOK' /\ OwedKept'
<1>1. stack' = <<>> /\ UNCHANGED <<outputs, owed>> /\ StackOK /\ failure = "none"
  BY DEF End, nodeVars, Progress, Unwound, Handling
<1>2. Quiet
  BY EndQuiet
<1>3. StackOK' /\ DOMAIN stack' = {}
  BY <1>1, EmptyStack
<1>4. Quiet'
  BY <1>1, <1>2, <1>3 DEF Quiet
<1>5. QED
  BY <1>1, <1>2, <1>3, <1>4, QuietStep

\* Leaves are initialized and finalized when no message is about, and so are
\* composite nodes; a planned event is called then, too.
LEMMA OwedLeafQuiet ==
    ASSUME Progress, Unwound, RoutingOK, OwedKept, NEW n \in Leaves,
           LeafInitialization(n) \/ LeafFinalization(n)
    PROVE  RoutingOK' /\ OwedKept'
<1>1. PICK event : LeafEvent(n, event) /\ event # "unplanned"
  BY DEF LeafInitialization, LeafFinalization
<1>2. /\ Busy /\ NextCall \in top.calls /\ NextCall.event # "unplanned"
      /\ StackOK /\ StackOK' /\ DOMAIN stack' = 1 .. Len(stack)
      /\ \A i \in 1 .. Len(stack) - 1 : stack'[i] = stack[i]
      /\ stack'[Len(stack)] = Frame(top.call, top.calls \ {NextCall}, top.src, top.routed)
  BY <1>1, LeafStep DEF Progress
<1>3. failure = "none" /\ UNCHANGED <<outputs, owed>>
  BY <1>2 DEF Unwound, LeafInitialization, LeafFinalization
<1>4. Quiet
  BY <1>2, <1>3, QuietTop
<1>5. DOMAIN stack = 1 .. Len(stack) /\ Len(stack) \in Nat /\ Len(stack) > 0
  BY <1>2, StackDomain
<1>6. ASSUME NEW i \in DOMAIN stack'
      PROVE  /\ i \in DOMAIN stack /\ stack'[i].call = stack[i].call
             /\ stack'[i].calls \subseteq stack[i].calls /\ stack'[i].routed = stack[i].routed
  <2>1. CASE i = Len(stack)
    BY <1>2, <1>5, <2>1 DEF Frame, top
  <2>2. CASE i # Len(stack)
    BY <1>2, <1>5, <2>2
  <2>3. QED
    BY <2>1, <2>2
<1>7. Quiet'
  BY <1>3, <1>4, <1>6 DEF Quiet
<1>8. QED
  BY <1>2, <1>3, <1>4, <1>7, QuietStep

LEMMA OwedEnterQuiet ==
    ASSUME Progress, Unwound, Schedule, Lives, RoutingOK, OwedKept,
           NEW c \in Composites, Enter(c), NextCall.event # "unplanned"
    PROVE  RoutingOK' /\ OwedKept'
<1> DEFINE frame == EventFrame(NextCall)
<1>1. /\ Busy /\ NextCall \in top.calls
      /\ frame.call = NextCall
      /\ StackOK /\ StackOK' /\ DOMAIN stack' = 1 .. Len(stack) + 1
      /\ \A i \in 1 .. Len(stack) : stack'[i] = stack[i]
      /\ stack'[Len(stack) + 1] = frame
      /\ UNCHANGED <<outputs, owed>>
  BY EntryAllowed, EnterStep DEF Progress, nodeVars
<1>2. failure = "none"
  BY <1>1 DEF Unwound
<1>3. Quiet
  BY <1>1, <1>2, QuietTop
<1>4. DOMAIN stack = 1 .. Len(stack) /\ Len(stack) \in Nat /\ Len(stack) > 0
  BY <1>1, StackDomain
<1>5. NextCall.event \in Events
  BY <1>1, <1>4 DEF StackOK, FrameOK, top
<1>6. frame.routed = 0 /\ \A x \in frame.calls : x.event # "unplanned"
  BY <1>5 DEF Events, EventFrame, Frame, EventForAll, Call
<1>7. ASSUME NEW i \in DOMAIN stack'
      PROVE  (i \in DOMAIN stack /\ stack'[i] = stack[i]) \/ stack'[i] = frame
  BY <1>1, <1>4
<1> HIDE DEF frame
<1>8. Quiet'
  BY <1>1, <1>3, <1>6, <1>7 DEF Quiet
<1>9. QED
  BY <1>1, <1>2, <1>3, <1>8, QuietStep

LEMMA OwedLeaveQuiet ==
    ASSUME Progress, Unwound, RoutingOK, OwedKept, NEW c \in Composites, Leave(c),
           top.call.event \notin {"planned", "unplanned"}
    PROVE  RoutingOK' /\ OwedKept'
<1> DEFINE k == Len(stack) - 1
<1>1. /\ Handling(c) /\ Resumed(SubSeq(stack, 1, Len(stack) - 1), top.call)
      /\ UNCHANGED <<outputs, owed>> /\ StackOK
  BY DEF Leave, Progress
<1>2. /\ Busy /\ k \in DOMAIN stack /\ StackOK' /\ DOMAIN stack' = 1 .. k
      /\ \A i \in 1 .. Len(stack) - 2 : stack'[i] = stack[i]
      /\ stack'[k] = Frame(stack[k].call, stack[k].calls \ {top.call}, stack[k].src, stack[k].routed)
  BY <1>1, LeaveStep
<1>3. failure = "none"
  BY <1>2 DEF Unwound
<1>4. Quiet
  BY <1>1, <1>2, <1>3, QuietTop DEF Handling
<1>5. DOMAIN stack = 1 .. Len(stack) /\ Len(stack) \in Nat
  BY <1>1, StackDomain
<1>6. ASSUME NEW i \in DOMAIN stack'
      PROVE  /\ i \in DOMAIN stack /\ stack'[i].call = stack[i].call
             /\ stack'[i].calls \subseteq stack[i].calls /\ stack'[i].routed = stack[i].routed
  <2>1. CASE i = k
    BY <1>2, <1>5, <2>1 DEF Frame
  <2>2. CASE i # k
    BY <1>2, <1>5, <2>2
  <2>3. QED
    BY <2>1, <2>2
<1>7. Quiet'
  BY <1>1, <1>4, <1>6 DEF Quiet
<1>8. QED
  BY <1>1, <1>2, <1>3, <1>4, <1>7, QuietStep

-----------------------------------------------------------------------------
(* Routing goes on                                                         *)

\* The delivery of a message goes on: its router stays, and so do the lists.
LEMMA RoutingGoesOn ==
    ASSUME StackOK, RoutingOK, Busy, StackOK', Busy', UNCHANGED <<outputs, failure>>,
           NEW q, RouterIs(q), RouterIs(q)',
           stack'[q].call = stack[q].call, stack'[q].src = stack[q].src,
           stack'[q].routed = stack[q].routed, stack'[q].calls \subseteq stack[q].calls,
           \A i \in DOMAIN stack' :
              stack'[i].routed \in Nat /\ (i < q => stack'[i].routed = 0),
           \A i \in DOMAIN stack' : \A x \in stack'[i].calls : x.event = "unplanned" =>
              /\ i >= q /\ Routing.routed > 0
              /\ x = Call(x.node, "unplanned", x.port, Current.msg) /\ x.port \in Ports
    PROVE  /\ RoutingOK' /\ Router = q /\ Router' = q
           /\ Routing'.routed = Routing.routed /\ Routing'.src = Routing.src
           /\ Current' = Current
<1>1. Router = q /\ Router' = q
  BY RouterFound, RouterFoundNext DEF OneRouter
<1>2. /\ Routing'.routed = Routing.routed /\ Routing'.src = Routing.src
      /\ Routing'.call = Routing.call /\ Routing'.calls \subseteq Routing.calls
  BY <1>1 DEF Routing
<1>3. Current' = Current
  BY <1>2 DEF Current
<1>4. HasRouter'
  BY DEF HasRouter, RouterIs
<1>5. RoutesOne'
  BY <1>2 DEF RoutingOK, RouterKept, RoutesOne
<1>6. RouterKept'
  BY <1>1, <1>2, <1>3, <1>5 DEF RouterKept
<1>7. Sending' /\ Labelled' /\ Passed'
  <2>1. Sending'
    BY <1>2 DEF RoutingOK, Sending
  <2>2. Labelled'
    BY DEF RoutingOK, Labelled, ListOK
  <2>3. Passed'
    BY <1>2 DEF RoutingOK, Passed
  <2>4. QED
    BY <2>1, <2>2, <2>3
<1>8. QED
  BY <1>1, <1>2, <1>3, <1>4, <1>6, <1>7 DEF RoutingOK

\* So it does when a handler that was called for it returns.
LEMMA RoutingReturns ==
    ASSUME StackOK, RoutingOK, Busy, StackOK', Busy', UNCHANGED <<outputs, failure>>,
           NEW k \in DOMAIN stack, Router <= k, NEW x, DOMAIN stack' = 1 .. k,
           \A i \in 1 .. k - 1 : stack'[i] = stack[i],
           stack'[k] = Frame(stack[k].call, stack[k].calls \ {x}, stack[k].src, stack[k].routed)
    PROVE  /\ RoutingOK' /\ Router' = Router
           /\ Routing'.routed = Routing.routed /\ Routing'.src = Routing.src
           /\ Current' = Current
<1>1. DOMAIN stack = 1 .. Len(stack) /\ Len(stack) \in Nat
  BY StackDomain
<1>2. ASSUME NEW i \in DOMAIN stack'
      PROVE  /\ i \in DOMAIN stack /\ stack'[i].call = stack[i].call
             /\ stack'[i].calls \subseteq stack[i].calls /\ stack'[i].routed = stack[i].routed
             /\ stack'[i].src = stack[i].src
  <2>1. CASE i = k
    BY <2>1 DEF Frame
  <2>2. CASE i # k
    BY <1>1, <2>2
  <2>3. QED
    BY <2>1, <2>2
<1>3. PICK q \in DOMAIN stack : RouterIs(q)
  BY DEF RoutingOK, HasRouter
<1>4. Router = q
  BY <1>3, RouterFound DEF OneRouter
<1>5. q \in DOMAIN stack'
  BY <1>1, <1>4
<1>6. RouterIs(q)'
  BY <1>2, <1>3, <1>5 DEF RouterIs
<1>7. \A i \in DOMAIN stack' :
         stack'[i].routed \in Nat /\ (i < q => stack'[i].routed = 0)
  BY <1>2, <1>4 DEF RoutingOK, RouterKept
<1>8. \A i \in DOMAIN stack' : \A y \in stack'[i].calls : y.event = "unplanned" =>
         /\ i >= q /\ Routing.routed > 0
         /\ y = Call(y.node, "unplanned", y.port, Current.msg) /\ y.port \in Ports
  BY <1>2, <1>4 DEF RoutingOK, RouterKept
<1>9. QED
  BY <1>2, <1>3, <1>4, <1>5, <1>6, <1>7, <1>8, RoutingGoesOn

\* A message that enters a composite node is called for at its destinations.
LEMMA RoutingEnters ==
    ASSUME Progress, Unwound, Schedule, Lives, RoutingOK,
           NEW c \in Composites, Enter(c), NextCall.event = "unplanned"
    PROVE  /\ RoutingOK' /\ Router' = Router /\ Router <= Len(stack)
           /\ Router \in DOMAIN stack
           /\ Routing'.routed = Routing.routed /\ Routing'.src = Routing.src
           /\ Current' = Current
           /\ NextCall.port \in Ports
<1> DEFINE frame == EventFrame(NextCall)
           n == Len(stack)
<1>1. /\ Busy /\ NextCall \in top.calls /\ NextCall.node = c
      /\ frame.call = NextCall /\ Busy'
      /\ StackOK /\ StackOK' /\ DOMAIN stack' = 1 .. n + 1
      /\ \A i \in 1 .. n : stack'[i] = stack[i]
      /\ stack'[n + 1] = frame
      /\ UNCHANGED <<outputs, failure>>
  BY EntryAllowed, EnterStep DEF Progress, nodeVars
<1>2. DOMAIN stack = 1 .. n /\ n \in Nat /\ n > 0 /\ n \in DOMAIN stack
  BY <1>1, StackDomain
<1>3. PICK q \in DOMAIN stack : RouterIs(q)
  BY <1>1 DEF RoutingOK, HasRouter
<1>4. Router = q
  BY <1>1, <1>3, RouterFound DEF OneRouter
<1>5. /\ Routing.routed > 0 /\ q <= n
      /\ NextCall = Call(c, "unplanned", NextCall.port, Current.msg) /\ NextCall.port \in Ports
  BY <1>1, <1>2, <1>4 DEF RoutingOK, RouterKept, top
<1>6. RouterIs(q)'
  <2>1. q \in DOMAIN stack' /\ n + 1 > q
    BY <1>1, <1>2
  <2>2. \A j \in DOMAIN stack' : j > q <=> stack'[j].call.event = "unplanned"
    BY <1>1, <1>2, <1>3, <2>1 DEF RouterIs
  <2>3. QED
    BY <2>1, <2>2 DEF RouterIs
<1>7. frame.routed = 0 /\ frame.calls = DstCalls(inward_dsts(c, NextCall.port), NextCall.msg)
  BY <1>1 DEF EventFrame, Frame
<1>8. NextCall.msg = Current.msg
  BY <1>5 DEF Call
<1>9. ASSUME NEW y \in frame.calls
      PROVE  y = Call(y.node, "unplanned", y.port, Current.msg) /\ y.port \in Ports
  <2>1. PICK d \in inward_dsts(c, NextCall.port) : y = Call(d[1], "unplanned", d[2], Current.msg)
    BY <1>7, <1>8 DEF DstCalls
  <2>2. d \in Hops
    BY LinkedHops DEF Nodes
  <2>3. QED
    BY <2>1, <2>2 DEF Call, Hops
<1> HIDE DEF frame
<1>10. \A i \in DOMAIN stack' :
          stack'[i].routed \in Nat /\ (i < q => stack'[i].routed = 0)
  BY <1>1, <1>2, <1>4, <1>5, <1>7 DEF RoutingOK, RouterKept
<1>11. ASSUME NEW i \in DOMAIN stack', NEW y \in stack'[i].calls, y.event = "unplanned"
       PROVE  /\ i >= q /\ Routing.routed > 0
              /\ y = Call(y.node, "unplanned", y.port, Current.msg) /\ y.port \in Ports
  <2>1. CASE i = n + 1
    BY <1>1, <1>2, <1>5, <1>9, <2>1
  <2>2. CASE i # n + 1
    <3>1. i \in DOMAIN stack /\ y \in stack[i].calls
      BY <1>1, <1>2, <2>2
    <3>2. QED
      BY <1>1, <1>4, <3>1, <1>11 DEF RoutingOK, RouterKept
  <2>3. QED
    BY <2>1, <2>2
<1>12. stack'[q] = stack[q] /\ q \in DOMAIN stack
  BY <1>1, <1>2
<1>13. QED
  BY <1>1, <1>3, <1>4, <1>5, <1>6, <1>10, <1>11, <1>12, RoutingGoesOn

-----------------------------------------------------------------------------
(* The hops of a route                                                     *)

\* The hops of routes.
LEMMA Associative == \A a, b, c \in Seq(Hops) : (a \o b) \o c = a \o (b \o c)
  BY ConcatAssociative

LEMMA OneHop ==
    \A h \in Hops : \A b \in Seq(Hops) :
        /\ <<h>> \in Seq(Hops) /\ Len(<<h>>) = 1 /\ <<h>>[1] = h
        /\ Append(b, h) = b \o <<h>>
  OBVIOUS

LEMMA HopMoved ==
    ASSUME NEW a \in Seq(Hops), NEW b \in Seq(Hops), NEW h \in Hops, NEW r \in Seq(Hops)
    PROVE  a \o Append(b, h) \o r = a \o b \o (<<h>> \o r)
<1>1. <<h>> \in Seq(Hops) /\ Append(b, h) = b \o <<h>>
  OBVIOUS
<1>2. a \o (b \o <<h>>) = (a \o b) \o <<h>>
  BY <1>1, ConcatAssociative
<1>3. a \o b \in Seq(Hops)
  BY ConcatProperties
<1>4. ((a \o b) \o <<h>>) \o r = (a \o b) \o (<<h>> \o r)
  BY <1>1, <1>3, ConcatAssociative
<1>5. QED
  BY <1>1, <1>2, <1>4

\* The current message, and the calls for it.
LEMMA CurrentTyped ==
    ASSUME StackOK, RoutingOK, Busy, Routing.routed > 0
    PROVE  /\ Routing.src \in Nodes /\ Parent(Routing.src) = Routing.call.node
           /\ Routing.call.node \in Composites
           /\ Routing.routed \in DOMAIN outputs[Routing.src]
           /\ MessageOK(Current) /\ Current.msg[2] \in Seq(Hops) /\ Current.msg[1] \in Nat
           /\ Current.msg = <<Current.msg[1], Current.msg[2]>>
<1>1. PICK q \in DOMAIN stack : RouterIs(q) /\ Router = q
  BY RouterFound DEF RoutingOK, HasRouter, OneRouter
<1>2. /\ Routing.call.event = "planned" /\ Routing.call.node \in Composites
      /\ Routing.routed \in DOMAIN outputs[Routing.src]
  BY DEF RoutingOK, RouterKept, RoutesOne
<1>3. Routing.src \in Nodes /\ Parent(Routing.src) = Routing.call.node
  BY <1>1, <1>2 DEF Routing, StackOK, FrameOK
<1>4. MessageOK(Current)
  BY <1>2, <1>3 DEF RoutingOK, Labelled, ListOK, Current
<1>5. QED
  BY <1>2, <1>3, <1>4 DEF MessageOK

LEMMA CallTyped ==
    ASSUME StackOK, RoutingOK, Busy, NEW i \in DOMAIN stack, NEW x \in stack[i].calls,
           x.event = "unplanned"
    PROVE  /\ <<x.node, x.port>> \in Hops /\ Parent(x.node) = stack[i].call.node
           /\ i >= Router /\ Routing.routed > 0
           /\ x = Call(x.node, "unplanned", x.port, Current.msg) /\ x.msg = Current.msg
<1>1. x.node \in Nodes /\ Parent(x.node) = stack[i].call.node
  BY DEF StackOK, FrameOK
<1>2. /\ i >= Router /\ Routing.routed > 0
      /\ x = Call(x.node, "unplanned", x.port, Current.msg) /\ x.port \in Ports
  BY DEF RoutingOK, RouterKept
<1>3. x.msg = Current.msg
  BY <1>2 DEF Call
<1>4. QED
  BY <1>1, <1>2, <1>3 DEF Hops

\* The ports of the composite nodes that the message has entered.
LEMMA EnteredTyped ==
    ASSUME StackOK, RoutingOK, Busy, NEW i \in DOMAIN stack, Router <= i
    PROVE  /\ Router \in DOMAIN stack /\ i - Router \in Nat
           /\ Entered(i) \in Seq(Hops) /\ Len(Entered(i)) = i - Router
           /\ \A j \in 1 .. i - Router :
                 /\ Entered(i)[j] = <<stack[Router + j].call.node, stack[Router + j].call.port>>
                 /\ Router + j \in DOMAIN stack /\ (Router + j) - 1 \in DOMAIN stack
                 /\ stack[Router + j].call \in stack[(Router + j) - 1].calls
                 /\ stack[Router + j].call.event = "unplanned"
<1>1. DOMAIN stack = 1 .. Len(stack) /\ Len(stack) \in Nat
  BY StackDomain
<1>2. PICK q \in DOMAIN stack : RouterIs(q) /\ Router = q
  BY RouterFound DEF RoutingOK, HasRouter, OneRouter
<1>3. Router \in Nat /\ Router > 0 /\ i \in Nat /\ i - Router \in Nat /\ Router \in DOMAIN stack
  BY <1>1, <1>2
<1>4. ASSUME NEW j \in 1 .. i - Router
      PROVE  /\ Router + j \in DOMAIN stack /\ (Router + j) - 1 \in DOMAIN stack
             /\ stack[Router + j].call \in stack[(Router + j) - 1].calls
             /\ stack[Router + j].call.event = "unplanned"
             /\ <<stack[Router + j].call.node, stack[Router + j].call.port>> \in Hops
  <2>1. /\ Router + j \in DOMAIN stack /\ (Router + j) - 1 \in DOMAIN stack
        /\ Router + j > Router /\ Router + j > 1
    BY <1>1, <1>3
  <2>2. stack[Router + j].call \in stack[(Router + j) - 1].calls
    <3>1. \A k \in DOMAIN stack : k > 1 => stack[k].call \in stack[k - 1].calls
      BY DEF StackOK
    <3>2. QED
      BY <2>1, <3>1, Zenon
  <2>3. stack[Router + j].call.event = "unplanned"
    BY <1>2, <2>1 DEF RouterIs
  <2>4. QED
    BY <2>1, <2>2, <2>3, CallTyped, Zenon
<1>5. Entered(i) \in [1 .. i - Router -> Hops]
  BY <1>4 DEF Entered
<1>6. Entered(i) \in Seq(Hops) /\ Len(Entered(i)) = i - Router
  <2>1. Entered(i) \in Seq(Hops)
    BY <1>3, <1>5, SeqDef
  <2>2. QED
    BY <1>3, <1>5, <2>1, LenProperties
<1>7. QED
  BY <1>3, <1>4, <1>6 DEF Entered

\* They are as long as the handlers are.
LEMMA EnteredKept ==
    ASSUME StackOK, Router' = Router, NEW i \in Nat, Router \in Nat,
           \A j \in Router + 1 .. i : stack'[j].call = stack[j].call
    PROVE  Entered(i)' = Entered(i)
<1>1. \A j \in 1 .. i - Router : Router + j \in Router + 1 .. i
  OBVIOUS
<1>2. QED
  BY <1>1 DEF Entered

-----------------------------------------------------------------------------
(* Calls for a message                                                     *)

\* The other parts of what is owed stay while the router and the lists do.
LEMMA RestOwed ==
    ASSUME UNCHANGED outputs, Busy, Busy',
           Routing'.routed = Routing.routed, Routing'.src = Routing.src, Current' = Current,
           NEW d
    PROVE  (ListOwes(d)' <=> ListOwes(d)) /\ (PassingOwes(d)' <=> PassingOwes(d))
<1>1. \A n : SentBy(n)' = SentBy(n)
  BY DEF SentBy
<1>2. ListOwes(d)' <=> ListOwes(d)
  BY <1>1 DEF ListOwes, ByMessage
<1>3. PassingOwes(d)' <=> PassingOwes(d)
  BY DEF PassingOwes, ByPassing
<1>4. QED
  BY <1>2, <1>3

\* The calls for a message that enters c are owed for the routes through c.
LEMMA OwedEnter ==
    ASSUME Progress, Unwound, Schedule, Lives, RoutingOK, OwedKept,
           NEW c \in Composites, Enter(c), NextCall.event = "unplanned"
    PROVE  RoutingOK' /\ OwedKept'
<1> SUFFICES ASSUME NEW n, n = Len(stack)
             PROVE  RoutingOK' /\ OwedKept'
  OBVIOUS
<1> DEFINE frame == EventFrame(NextCall)
           hop == <<c, NextCall.port>>
<1>1. /\ Busy /\ NextCall \in top.calls /\ NextCall.node = c
      /\ frame.call = NextCall /\ Busy'
      /\ StackOK /\ StackOK' /\ Len(stack') = n + 1 /\ DOMAIN stack' = 1 .. n + 1
      /\ \A i \in 1 .. n : stack'[i] = stack[i]
      /\ stack'[n + 1] = frame
      /\ UNCHANGED <<outputs, failure, owed>>
  BY EntryAllowed, EnterStep DEF Progress, nodeVars
<1>2. DOMAIN stack = 1 .. n /\ n \in Nat /\ n > 0 /\ n \in DOMAIN stack
  BY <1>1, StackDomain
<1>3. /\ RoutingOK' /\ Router' = Router /\ Router <= n /\ Router \in DOMAIN stack
      /\ Routing'.routed = Routing.routed /\ Routing'.src = Routing.src
      /\ Current' = Current
  BY RoutingEnters
<1>4. /\ hop \in Hops /\ Routing.routed > 0
      /\ NextCall = Call(c, "unplanned", NextCall.port, Current.msg) /\ NextCall.msg = Current.msg
  BY <1>1, <1>2, CallTyped DEF top
<1>5. Current.msg[2] \in Seq(Hops)
  BY <1>1, <1>4, CurrentTyped
<1>6. \A i \in 1 .. n : Entered(i)' = Entered(i)
  <2>1. ASSUME NEW i \in 1 .. n PROVE Entered(i)' = Entered(i)
    <3>1. i \in Nat /\ Router \in Nat /\ \A j \in Router + 1 .. i : j \in 1 .. n
      BY <1>2, <1>3
    <3>2. QED
      BY <1>1, <1>3, <3>1, EnteredKept
  <2>2. QED
    BY <2>1
<1>7. Entered(n) \in Seq(Hops) /\ Entered(n + 1)' = Append(Entered(n), hop)
  <2>1. /\ Entered(n) \in Seq(Hops) /\ Len(Entered(n)) = n - Router /\ n - Router \in Nat
        /\ \A j \in 1 .. n - Router :
              Entered(n)[j] = <<stack[Router + j].call.node, stack[Router + j].call.port>>
    BY <1>1, <1>2, <1>3, EnteredTyped
  <2>2. Entered(n + 1)' = [j \in 1 .. (n + 1) - Router |->
                             <<stack'[Router + j].call.node, stack'[Router + j].call.port>>]
    BY <1>3 DEF Entered
  <2>3. Append(Entered(n), hop) = [j \in 1 .. (n - Router) + 1 |->
                             IF j = (n - Router) + 1 THEN hop ELSE Entered(n)[j]]
    BY <1>4, <2>1
  <2>4. (n + 1) - Router = (n - Router) + 1 /\ Router \in Int
    BY <1>2, <1>3
  <2>5. ASSUME NEW j \in 1 .. (n - Router) + 1
        PROVE  <<stack'[Router + j].call.node, stack'[Router + j].call.port>>
                 = IF j = (n - Router) + 1 THEN hop ELSE Entered(n)[j]
    <3>1. CASE j = (n - Router) + 1
      <4>1. Router + j = n + 1
        BY <1>2, <2>4, <3>1
      <4>2. QED
        BY <1>1, <3>1, <4>1
    <3>2. CASE j # (n - Router) + 1
      <4>1. j \in 1 .. n - Router /\ Router + j \in 1 .. n
        BY <1>2, <1>3, <2>4, <3>2
      <4>2. QED
        BY <1>1, <2>1, <3>2, <4>1
    <3>3. QED
      BY <3>1, <3>2
  <2>6. [j \in 1 .. (n + 1) - Router |-> <<stack'[Router + j].call.node, stack'[Router + j].call.port>>]
          = [j \in 1 .. (n - Router) + 1 |-> IF j = (n - Router) + 1 THEN hop ELSE Entered(n)[j]]
    BY <2>4, <2>5
  <2>7. QED
    BY <2>1, <2>2, <2>3, <2>6, Zenon
<1>8. ASSUME NEW r \in Seq(Hops)
      PROVE  Current.msg[2] \o Entered(n + 1)' \o r
               = Current.msg[2] \o Entered(n) \o (<<hop>> \o r)
  <2> HIDE DEF hop
  <2>1. hop \in Hops /\ Entered(n) \in Seq(Hops) /\ Entered(n + 1)' = Append(Entered(n), hop)
    BY <1>4, <1>7
  <2>2. Current.msg[2] \o Append(Entered(n), hop) \o r = Current.msg[2] \o Entered(n) \o (<<hop>> \o r)
    BY <1>5, <2>1, HopMoved, ZenonT(60)
  <2>3. QED
    BY <2>1, <2>2
<1>9. IntoRoutes[hop] = UNION {{<<hop>> \o r : r \in IntoRoutes[d]} : d \in inward_dsts(c, NextCall.port)}
  <2>1. c \notin Leaves /\ hop[1] = c /\ hop[2] = NextCall.port
    BY TreeAssumption
  <2>2. QED
    BY <1>4, <2>1, IntoEquation
<1>16. \A r \in IntoRoutes[hop] : \E d \in inward_dsts(c, NextCall.port) :
          \E rest \in IntoRoutes[d] : r = <<hop>> \o rest
  <2> HIDE DEF hop
  <2>1. QED
    BY <1>9, Zenon
<1>10. frame.calls = {Call(d[1], "unplanned", d[2], Current.msg) : d \in inward_dsts(c, NextCall.port)}
  BY <1>1, <1>4 DEF EventFrame, Frame, DstCalls
<1>11. \A d \in inward_dsts(c, NextCall.port) :
          /\ d \in Hops /\ d = <<d[1], d[2]>>
          /\ \A r \in IntoRoutes[d] : r \in Seq(Hops)
  <2>1. c \in Nodes
    BY DEF Nodes
  <2>2. ASSUME NEW d \in inward_dsts(c, NextCall.port)
        PROVE  d \in Hops /\ \A r \in IntoRoutes[d] : r \in Seq(Hops)
    <3>1. d \in Hops
      BY <2>1, LinkedHops, Zenon
    <3>2. QED
      BY <3>1, IntoTyped
  <2>3. \A d \in Hops : d = <<d[1], d[2]>>
    BY DEF Hops
  <2>4. QED
    BY <2>2, <2>3, Zenon
<1> HIDE DEF frame, hop
<1>12. ASSUME NEW d PROVE CallOwes(d)' <=> CallOwes(d)
  <2>1. ASSUME CallOwes(d)' PROVE CallOwes(d)
    <3>1. PICK i \in DOMAIN stack' : \E x \in Waiting(i)' :
             x.event = "unplanned" /\ ByCall(i, x, d)'
      BY <2>1 DEF CallOwes
    <3>2. PICK x \in Waiting(i)' : x.event = "unplanned" /\ ByCall(i, x, d)'
      BY <3>1
    <3>3. PICK r \in IntoRoutes[<<x.node, x.port>>] :
             d = <<x.msg[2] \o Entered(i)' \o r, x.msg[1]>>
      BY <3>2 DEF ByCall
    <3>4. CASE i = n + 1
      <4>1. x \in frame.calls
        BY <1>1, <3>2, <3>4 DEF Waiting
      <4>2. PICK dst \in inward_dsts(c, NextCall.port) : x = Call(dst[1], "unplanned", dst[2], Current.msg)
        BY <1>10, <4>1
      <4>3. <<x.node, x.port>> = dst /\ x.msg = Current.msg
        BY <1>11, <4>2 DEF Call
      <4>4. r \in IntoRoutes[dst] /\ r \in Seq(Hops)
        BY <1>11, <3>3, <4>3
      <4>5. d = <<Current.msg[2] \o Entered(n) \o (<<hop>> \o r), Current.msg[1]>>
        BY <1>8, <3>3, <3>4, <4>3, <4>4
      <4>6. <<hop>> \o r \in IntoRoutes[hop]
        BY <1>9, <4>4
      <4>7. ByCall(n, NextCall, d)
        <5>1. <<NextCall.node, NextCall.port>> = hop
          BY <1>1 DEF hop
        <5>2. QED
          BY <1>4, <4>5, <4>6, <5>1 DEF ByCall
      <4>8. NextCall \in Waiting(n)
        BY <1>1 DEF Waiting, top
      <4>9. QED
        BY <1>2, <4>7, <4>8 DEF CallOwes
    <3>5. CASE i # n + 1
      <4>1. i \in DOMAIN stack /\ i \in 1 .. n /\ Entered(i)' = Entered(i)
        BY <1>1, <1>2, <1>6, <3>5
      <4>2. x \in Waiting(i)
        <5>1. CASE i = n
          <6>1. x \in stack'[i].calls
            BY <3>2 DEF Waiting
          <6>2. QED
            BY <1>1, <4>1, <5>1, <6>1 DEF Waiting
        <5>2. CASE i # n
          <6>1. i + 1 \in 1 .. n /\ i # n + 1
            BY <1>2, <4>1, <5>2
          <6>2. QED
            BY <1>1, <3>2, <4>1, <5>2, <6>1 DEF Waiting
        <5>3. QED
          BY <5>1, <5>2
      <4>3. QED
        BY <3>2, <3>3, <4>1, <4>2 DEF CallOwes, ByCall
    <3>6. QED
      BY <3>4, <3>5
  <2>2. ASSUME CallOwes(d) PROVE CallOwes(d)'
    <3>1. PICK i \in DOMAIN stack : \E x \in Waiting(i) :
             x.event = "unplanned" /\ ByCall(i, x, d)
      BY <2>2 DEF CallOwes
    <3>2. PICK x \in Waiting(i) : x.event = "unplanned" /\ ByCall(i, x, d)
      BY <3>1
    <3>3. PICK r \in IntoRoutes[<<x.node, x.port>>] :
             d = <<x.msg[2] \o Entered(i) \o r, x.msg[1]>>
      BY <3>2 DEF ByCall
    <3>4. i \in 1 .. n /\ i \in DOMAIN stack' /\ i # n + 1 /\ Entered(i)' = Entered(i)
      BY <1>1, <1>2, <1>6
    <3>5. CASE i = n /\ x = NextCall
      <4>1. <<x.node, x.port>> = hop /\ x.msg = Current.msg
        BY <1>1, <1>4, <3>5 DEF hop
      <4>9. PICK dst \in inward_dsts(c, NextCall.port) : \E rest \in IntoRoutes[dst] : r = <<hop>> \o rest
        BY <1>16, <3>3, <4>1
      <4>2. PICK rest \in IntoRoutes[dst] : r = <<hop>> \o rest
        BY <4>9
      <4>3. d = <<Current.msg[2] \o Entered(n + 1)' \o rest, Current.msg[1]>>
        BY <1>8, <1>11, <3>3, <3>5, <4>1, <4>2
      <4>10. PICK y : y = Call(dst[1], "unplanned", dst[2], Current.msg)
        OBVIOUS
      <4>4. y \in Waiting(n + 1)'
        BY <1>1, <1>10, <4>10 DEF Waiting
      <4>5. y.event = "unplanned" /\ <<y.node, y.port>> = dst /\ y.msg = Current.msg
        BY <1>11, <4>10 DEF Call
      <4>6. ByCall(n + 1, y, d)'
        BY <4>2, <4>3, <4>5 DEF ByCall
      <4>7. n + 1 \in DOMAIN stack'
        BY <1>1, <1>2
      <4>8. QED
        BY <4>4, <4>5, <4>6, <4>7 DEF CallOwes
    <3>6. CASE ~(i = n /\ x = NextCall)
      <4>1. x \in Waiting(i)'
        <5>1. CASE i = n
          BY <1>1, <3>2, <3>4, <3>6, <5>1 DEF Waiting
        <5>2. CASE i # n
          <6>1. i + 1 \in 1 .. n
            BY <1>2, <3>4, <5>2
          <6>2. QED
            BY <1>1, <3>2, <3>4, <5>2, <6>1 DEF Waiting
        <5>3. QED
          BY <5>1, <5>2
      <4>2. ByCall(i, x, d)'
        BY <3>3, <3>4 DEF ByCall
      <4>3. QED
        BY <3>2, <3>4, <4>1, <4>2 DEF CallOwes
    <3>7. QED
      BY <3>5, <3>6
  <2>3. QED
    BY <2>1, <2>2
<1>13. ASSUME NEW d PROVE Owes(d)' <=> Owes(d)
  BY <1>1, <1>3, <1>12, RestOwed DEF Owes
<1>14. OwedKept'
  BY <1>1, <1>13 DEF OwedKept
<1>15. QED
  BY <1>3, <1>14

\* When a handler returns, what its call was for is owed no longer by calls.
LEMMA CallsLeft ==
    ASSUME StackOK, Busy, Router' = Router, Router \in DOMAIN stack,
           NEW k \in DOMAIN stack, NEW x, DOMAIN stack' = 1 .. k, Len(stack') = k,
           \A i \in 1 .. k - 1 : stack'[i] = stack[i],
           stack'[k] = Frame(stack[k].call, stack[k].calls \ {x}, stack[k].src, stack[k].routed),
           k = Len(stack) \/ (k + 1 = Len(stack) /\ stack[k + 1].call = x),
           NEW d
    PROVE  CallOwes(d)' <=>
              \E i \in 1 .. k : \E y \in Waiting(i) :
                 ~(i = k /\ y = x) /\ y.event = "unplanned" /\ ByCall(i, y, d)
<1>1. DOMAIN stack = 1 .. Len(stack) /\ Len(stack) \in Nat /\ k \in Nat
  BY StackDomain
<1>2. \A i \in 1 .. k : stack'[i].call = stack[i].call
  BY <1>1 DEF Frame
<1>3. ASSUME NEW i \in 1 .. k PROVE Entered(i)' = Entered(i)
  <2>1. i \in Nat /\ Router \in Nat /\ \A j \in Router + 1 .. i : j \in 1 .. k
    BY <1>1
  <2>2. QED
    BY <1>2, <2>1, EnteredKept
<1>4. ASSUME NEW i \in 1 .. k
      PROVE  \A y : y \in Waiting(i)' <=> y \in Waiting(i) /\ ~(i = k /\ y = x)
  <2>1. CASE i = k
    <3>1. Waiting(i)' = stack[k].calls \ {x}
      BY <2>1 DEF Waiting, Frame
    <3>2. \A y : y \in Waiting(i) /\ y # x <=> y \in stack[k].calls \ {x}
      <4>1. CASE k = Len(stack)
        BY <2>1, <4>1 DEF Waiting
      <4>2. CASE k + 1 = Len(stack) /\ stack[k + 1].call = x
        <5>1. k # Len(stack)
          BY <1>1, <4>2
        <5>2. Waiting(i) = stack[k].calls \ {x}
          BY <2>1, <4>2, <5>1 DEF Waiting
        <5>3. QED
          BY <5>2
      <4>3. QED
        BY <4>1, <4>2
    <3>3. QED
      BY <2>1, <3>1, <3>2, Zenon
  <2>2. CASE i # k
    <3>1. i # Len(stack') /\ i # Len(stack) /\ i + 1 \in 1 .. k /\ stack'[i] = stack[i]
      BY <1>1, <2>2
    <3>2. Waiting(i)' = Waiting(i)
      BY <1>2, <3>1 DEF Waiting
    <3>3. QED
      BY <2>2, <3>2
  <2>3. QED
    BY <2>1, <2>2
<1>5. \A i \in 1 .. k : \A y : ByCall(i, y, d)' <=> ByCall(i, y, d)
  BY <1>3 DEF ByCall
<1>6. CallOwes(d)' <=> \E i \in 1 .. k : \E y \in Waiting(i)' : y.event = "unplanned" /\ ByCall(i, y, d)'
  BY DEF CallOwes
<1>7. QED
  BY <1>4, <1>5, <1>6, Zenon

\* A composite node that was called for a message returns when all of its calls
\* have been made.
LEMMA OwedLeave ==
    ASSUME Progress, Unwound, RoutingOK, OwedKept,
           NEW c \in Composites, Leave(c), top.call.event = "unplanned"
    PROVE  RoutingOK' /\ OwedKept'
<1> SUFFICES ASSUME NEW k, k = Len(stack) - 1, NEW x, x = top.call
             PROVE  RoutingOK' /\ OwedKept'
  OBVIOUS
<1>1. /\ Handling(c) /\ Resumed(SubSeq(stack, 1, Len(stack) - 1), top.call)
      /\ UNCHANGED <<outputs, owed, failure>> /\ StackOK
  BY DEF Leave, Progress
<1>2. /\ Busy /\ k \in DOMAIN stack /\ StackOK' /\ Busy' /\ DOMAIN stack' = 1 .. k /\ Len(stack') = k
      /\ \A i \in 1 .. k - 1 : stack'[i] = stack[i]
      /\ stack'[k] = Frame(stack[k].call, stack[k].calls \ {x}, stack[k].src, stack[k].routed)
      /\ x \in stack[k].calls
  <2>1. /\ Busy /\ k \in DOMAIN stack /\ StackOK' /\ Busy' /\ DOMAIN stack' = 1 .. k /\ Len(stack') = k
        /\ \A i \in 1 .. Len(stack) - 2 : stack'[i] = stack[i]
        /\ stack'[k] = Frame(stack[k].call, stack[k].calls \ {x}, stack[k].src, stack[k].routed)
        /\ x \in stack[k].calls
    BY <1>1, LeaveStep
  <2>2. Len(stack) \in Nat
    BY <1>1, StackDomain
  <2>3. k - 1 = Len(stack) - 2
    BY <2>2
  <2>4. QED
    BY <2>1, <2>3
<1>3. DOMAIN stack = 1 .. Len(stack) /\ Len(stack) \in Nat /\ k + 1 = Len(stack) /\ k # Len(stack)
  BY <1>1, StackDomain
<1>4. Router <= k /\ Router \in DOMAIN stack
  <2>1. k >= Router
    BY <1>1, <1>2, CallTyped
  <2>2. Router \in DOMAIN stack
    BY <1>1, <1>2, <2>1, RouterFound DEF RoutingOK, HasRouter, RouterIs, OneRouter
  <2>3. QED
    BY <1>3, <2>1, <2>2
<1>5. /\ RoutingOK' /\ Router' = Router
      /\ Routing'.routed = Routing.routed /\ Routing'.src = Routing.src
      /\ Current' = Current
  BY <1>1, <1>2, <1>4, RoutingReturns
<1>6. ASSUME NEW d PROVE CallOwes(d)' <=> CallOwes(d)
  <2>1. CallOwes(d)' <=>
           \E i \in 1 .. k : \E y \in Waiting(i) :
              ~(i = k /\ y = x) /\ y.event = "unplanned" /\ ByCall(i, y, d)
    <3>1. k + 1 = Len(stack) /\ stack[k + 1].call = x
      BY <1>3 DEF top
    <3>2. StackOK
      BY <1>1
    <3>3. QED
      BY <1>2, <1>4, <1>5, <3>1, <3>2, CallsLeft
  <2>2. x \notin Waiting(k)
    BY <1>3 DEF Waiting, top
  <2>3. Waiting(Len(stack)) = {}
    BY <1>1 DEF Waiting, Handling, top
  <2>4. \A i \in DOMAIN stack : i \in 1 .. k \/ i = Len(stack)
    <3>1. \A n \in Nat : \A i \in 1 .. n : i \in 1 .. n - 1 \/ i = n
      OBVIOUS
    <3>2. k = Len(stack) - 1
      BY <1>3
    <3>3. QED
      BY <1>3, <3>1, <3>2, Zenon
  <2>5. \A i \in 1 .. k : i \in DOMAIN stack
    BY <1>2, <1>3
  <2>6. CallOwes(d) <=> \E i \in 1 .. k : \E y \in Waiting(i) : y.event = "unplanned" /\ ByCall(i, y, d)
    BY <2>3, <2>4, <2>5, Zenon DEF CallOwes
  <2>7. \A i \in 1 .. k : \A y \in Waiting(i) : ~(i = k /\ y = x)
    BY <2>2
  <2>8. QED
    BY <2>1, <2>6, <2>7, Zenon
<1>7. ASSUME NEW d PROVE Owes(d)' <=> Owes(d)
  BY <1>1, <1>2, <1>5, <1>6, RestOwed DEF Owes
<1>8. OwedKept'
  BY <1>1, <1>7 DEF OwedKept
<1>9. QED
  BY <1>5, <1>8

-----------------------------------------------------------------------------
(* The delivery made next                                                  *)

\* Routes with beginnings of the same length differ in one part or the other.
LEMMA SameRoute ==
    \A a, b, u, v \in Seq(Hops) : Len(a) = Len(b) /\ a \o u = b \o v => a = b /\ u = v
<1> SUFFICES ASSUME NEW a \in Seq(Hops), NEW b \in Seq(Hops), NEW u \in Seq(Hops), NEW v \in Seq(Hops),
                    Len(a) = Len(b), a \o u = b \o v
             PROVE  a = b /\ u = v
  OBVIOUS
<1>1. /\ Len(a) \in Nat /\ Len(u) \in Nat /\ Len(v) \in Nat
      /\ Len(a \o u) = Len(a) + Len(u) /\ Len(b \o v) = Len(b) + Len(v)
      /\ \A i \in 1 .. Len(a) + Len(u) :
            (a \o u)[i] = IF i <= Len(a) THEN a[i] ELSE u[i - Len(a)]
      /\ \A i \in 1 .. Len(b) + Len(v) :
            (b \o v)[i] = IF i <= Len(b) THEN b[i] ELSE v[i - Len(b)]
  BY ConcatProperties, LenProperties
<1>2. Len(u) = Len(v)
  BY <1>1
<1>3. \A i \in 1 .. Len(a) : a[i] = b[i]
  BY <1>1, <1>2
<1>4. ASSUME NEW i \in 1 .. Len(u) PROVE u[i] = v[i]
  <2>1. Len(a) + i \in 1 .. Len(a) + Len(u) /\ ~(Len(a) + i <= Len(a)) /\ (Len(a) + i) - Len(a) = i
    BY <1>1
  <2>2. (a \o u)[Len(a) + i] = u[i]
    BY <1>1, <2>1
  <2>3. (b \o v)[Len(a) + i] = v[i]
    BY <1>1, <1>2, <2>1
  <2>4. QED
    BY <2>2, <2>3
<1>5. a = b
  BY <1>3, SeqEqual
<1>6. u = v
  BY <1>2, <1>4, SeqEqual
<1>7. QED
  BY <1>5, <1>6

LEMMA SameStart == \A a, b, u, v \in Seq(Hops) : Len(a) = Len(b) => (a \o u = b \o v => a = b)
  BY SameRoute, Zenon

LEMMA SameRest == \A a, u, v \in Seq(Hops) : a \o u = a \o v => u = v
  BY SameRoute, Zenon

\* The hops on from the router to the component that is called next.
Ahead == Entered(Len(stack)) \o <<<<NextCall.node, NextCall.port>>>>

LEMMA AheadTyped ==
    ASSUME StackOK, RoutingOK, Busy, NextCall \in top.calls, NextCall.event = "unplanned"
    PROVE  /\ Routing.routed > 0 /\ NextCall.msg = Current.msg
           /\ Router \in DOMAIN stack /\ Len(stack) - Router \in Nat
           /\ Ahead \in Seq(Hops) /\ Len(Ahead) = (Len(stack) - Router) + 1
           /\ RouteTaken = Current.msg[2] \o Ahead
           /\ Ahead[Len(Ahead)] = <<NextCall.node, NextCall.port>>
           /\ \A j \in 1 .. Len(stack) - Router :
                 Ahead[j] = <<stack[Router + j].call.node, stack[Router + j].call.port>>
           /\ Parent(Ahead[1][1]) = Routing.call.node /\ Ahead[1] \in Hops
<1> DEFINE n == Len(stack)
           hop == <<NextCall.node, NextCall.port>>
<1>1. DOMAIN stack = 1 .. n /\ n \in Nat /\ n \in DOMAIN stack
  BY StackDomain
<1>2. /\ hop \in Hops /\ Parent(NextCall.node) = top.call.node
      /\ n >= Router /\ Routing.routed > 0 /\ NextCall.msg = Current.msg
  BY <1>1, CallTyped DEF top
<1>3. Router \in DOMAIN stack /\ Router <= n
  BY <1>1, <1>2, RouterFound DEF RoutingOK, HasRouter, RouterIs, OneRouter
<1>4. /\ n - Router \in Nat
      /\ Entered(n) \in Seq(Hops) /\ Len(Entered(n)) = n - Router
      /\ \A j \in 1 .. n - Router :
            /\ Entered(n)[j] = <<stack[Router + j].call.node, stack[Router + j].call.port>>
            /\ Router + j \in DOMAIN stack /\ (Router + j) - 1 \in DOMAIN stack
            /\ stack[Router + j].call \in stack[(Router + j) - 1].calls
  BY <1>1, <1>3, EnteredTyped
<1>5. <<hop>> \in Seq(Hops) /\ Len(<<hop>>) = 1 /\ <<hop>>[1] = hop
  BY <1>2
<1> HIDE DEF hop
<1>6. /\ Ahead \in Seq(Hops) /\ Len(Ahead) = (n - Router) + 1
      /\ \A i \in 1 .. (n - Router) + 1 :
            Ahead[i] = IF i <= n - Router THEN Entered(n)[i] ELSE <<hop>>[i - (n - Router)]
  <2>1. Ahead = Entered(n) \o <<hop>>
    BY DEF Ahead, hop
  <2>2. QED
    BY <1>4, <1>5, <2>1, ConcatProperties
<1>7. Ahead[Len(Ahead)] = hop
  <2>1. (n - Router) + 1 \in 1 .. (n - Router) + 1 /\ ~((n - Router) + 1 <= n - Router)
        /\ ((n - Router) + 1) - (n - Router) = 1
    BY <1>4
  <2>2. QED
    BY <1>5, <1>6, <2>1
<1>8. ASSUME NEW j \in 1 .. n - Router
      PROVE  Ahead[j] = <<stack[Router + j].call.node, stack[Router + j].call.port>>
  <2>1. j \in 1 .. (n - Router) + 1 /\ j <= n - Router
    BY <1>4
  <2>2. QED
    BY <1>4, <1>6, <2>1
<1>9. Parent(Ahead[1][1]) = Routing.call.node
  <2>1. CASE n = Router
    <3>1. Ahead[1] = hop
      BY <1>1, <1>3, <1>6, <1>7, <2>1
    <3>2. Ahead[1][1] = NextCall.node
      BY <3>1 DEF hop
    <3>3. QED
      BY <1>2, <2>1, <3>2 DEF Routing, top
  <2>2. CASE n # Router
    <3>1. 1 \in 1 .. n - Router /\ (Router + 1) - 1 = Router
      BY <1>1, <1>3, <2>2
    <3>2. Ahead[1][1] = stack[Router + 1].call.node
      BY <1>8, <3>1
    <3>3. stack[Router + 1].call \in stack[Router].calls
      BY <1>4, <3>1
    <3>4. QED
      BY <1>3, <3>2, <3>3 DEF StackOK, FrameOK, Routing
  <2>3. QED
    BY <2>1, <2>2
<1>10. RouteTaken = Current.msg[2] \o Ahead
  <2>1. Current.msg[2] \in Seq(Hops)
    BY <1>2, CurrentTyped
  <2>2. (Current.msg[2] \o Entered(n)) \o <<hop>> = Current.msg[2] \o (Entered(n) \o <<hop>>)
    BY <1>4, <1>5, <2>1, Associative
  <2>3. QED
    BY <1>2, <2>2 DEF RouteTaken, Ahead, hop
<1>11. Ahead[1] \in Hops
  <2>1. 1 \in 1 .. Len(Ahead)
    BY <1>4, <1>6
  <2>2. QED
    BY <1>6, <2>1, ElementOfSeq
<1>12. QED
  BY <1>2, <1>3, <1>4, <1>6, <1>7, <1>8, <1>9, <1>10, <1>11 DEF hop

\* No other call is for a delivery on the same route.
LEMMA OtherCalls ==
    ASSUME StackOK, RoutingOK, Busy, NextCall \in top.calls, NextCall.event = "unplanned",
           NEW i \in DOMAIN stack, NEW y \in Waiting(i), y.event = "unplanned",
           ~(i = Len(stack) /\ y = NextCall), NEW e, ByCall(i, y, e)
    PROVE  e[1] # RouteTaken
<1> SUFFICES ASSUME e[1] = RouteTaken PROVE FALSE
  OBVIOUS
<1> DEFINE n == Len(stack)
           at == (i - Router) + 1
<1>1. DOMAIN stack = 1 .. n /\ n \in Nat /\ i \in 1 .. n /\ n \in DOMAIN stack
  BY StackDomain
<1>2. /\ Routing.routed > 0 /\ NextCall.msg = Current.msg
      /\ Router \in DOMAIN stack /\ n - Router \in Nat
      /\ Ahead \in Seq(Hops) /\ Len(Ahead) = (n - Router) + 1
      /\ RouteTaken = Current.msg[2] \o Ahead
      /\ Ahead[Len(Ahead)] = <<NextCall.node, NextCall.port>>
      /\ \A j \in 1 .. n - Router :
            Ahead[j] = <<stack[Router + j].call.node, stack[Router + j].call.port>>
  BY AheadTyped
<1>3. y \in stack[i].calls
  BY DEF Waiting
<1>4. /\ <<y.node, y.port>> \in Hops /\ i >= Router
      /\ y = Call(y.node, "unplanned", y.port, Current.msg) /\ y.msg = Current.msg
  BY <1>3, CallTyped
<1>5. Current.msg[2] \in Seq(Hops)
  BY <1>2, CurrentTyped
<1>6. /\ Entered(i) \in Seq(Hops) /\ Len(Entered(i)) = i - Router /\ i - Router \in Nat
      /\ \A j \in 1 .. i - Router : Router + j \in DOMAIN stack
  BY <1>1, <1>2, <1>4, EnteredTyped
<1>7. PICK r \in IntoRoutes[<<y.node, y.port>>] :
         e = <<Current.msg[2] \o Entered(i) \o r, Current.msg[1]>>
  BY <1>4 DEF ByCall
<1>8. r \in Seq(Hops) /\ Len(r) > 0 /\ r[1] = <<y.node, y.port>>
  BY <1>4, IntoTyped
<1>9. Entered(i) \o r = Ahead /\ Entered(i) \o r \in Seq(Hops)
  <2>1. Current.msg[2] \o (Entered(i) \o r) = Current.msg[2] \o Ahead
    <3>1. (Current.msg[2] \o Entered(i)) \o r = Current.msg[2] \o (Entered(i) \o r)
      BY <1>5, <1>6, <1>8, Associative
    <3>2. QED
      BY <1>2, <1>7, <3>1
  <2>2. Entered(i) \o r \in Seq(Hops)
    BY <1>6, <1>8, ConcatProperties
  <2>3. QED
    <3>1. Ahead \in Seq(Hops)
      BY <1>2
    <3>2. Entered(i) \o r = Ahead
      BY <1>5, <2>1, <2>2, <3>1, SameRest
    <3>3. QED
      BY <2>2, <3>2
<1>10. (Entered(i) \o r)[at] = <<y.node, y.port>>
  <2>1. Len(r) \in Nat /\ at \in 1 .. Len(Entered(i)) + Len(r) /\ ~(at <= Len(Entered(i)))
        /\ at - Len(Entered(i)) = 1
    BY <1>6, <1>8, LenProperties
  <2>2. (Entered(i) \o r)[at] = r[at - Len(Entered(i))]
    BY <1>6, <1>8, <2>1, ConcatProperties
  <2>3. QED
    BY <1>8, <2>1, <2>2
<1>11. CASE i = n
  <2>1. at = Len(Ahead)
    BY <1>2, <1>11
  <2>2. <<y.node, y.port>> = <<NextCall.node, NextCall.port>>
    BY <1>2, <1>9, <1>10, <2>1
  <2>3. NextCall = Call(NextCall.node, "unplanned", NextCall.port, Current.msg)
    BY <1>1, CallTyped DEF top
  <2>4. QED
    BY <1>4, <1>11, <2>2, <2>3
<1>12. CASE i # n
  <2>1. /\ at \in 1 .. n - Router /\ Router + at = i + 1 /\ i + 1 \in DOMAIN stack
        /\ i + 1 > 1 /\ (i + 1) - 1 = i /\ i + 1 > Router
    <3>1. Router \in 1 .. n /\ n \in Nat /\ i \in 1 .. n /\ i >= Router /\ i # n
      BY <1>1, <1>2, <1>4, <1>12
    <3> HIDE DEF n
    <3>2. QED
      BY <1>1, <3>1
  <2>2. <<y.node, y.port>> = <<stack[i + 1].call.node, stack[i + 1].call.port>>
    BY <1>2, <1>9, <1>10, <2>1
  <2>3. stack[i + 1].call \in stack[i].calls
    <3>1. \A j \in DOMAIN stack : j > 1 => stack[j].call \in stack[j - 1].calls
      BY DEF StackOK
    <3>2. stack[i + 1].call \in stack[(i + 1) - 1].calls
      BY <2>1, <3>1, Zenon
    <3>3. QED
      BY <2>1, <3>2
  <2>4. stack[i + 1].call.event = "unplanned"
    <3>1. PICK q \in DOMAIN stack : RouterIs(q) /\ q = Router
      BY RouterFound DEF RoutingOK, HasRouter, OneRouter
    <3>2. QED
      BY <2>1, <3>1 DEF RouterIs
  <2>5. stack[i + 1].call
          = Call(stack[i + 1].call.node, "unplanned", stack[i + 1].call.port, Current.msg)
    BY <2>3, <2>4, CallTyped
  <2>6. y = stack[i + 1].call
    BY <1>4, <2>2, <2>5
  <2>7. QED
    BY <1>12, <2>6 DEF Waiting
<1>13. QED
  BY <1>11, <1>12

\* A route outward of the composite node is not the one being taken inside it.
LEMMA NotPassed ==
    ASSUME StackOK, RoutingOK, Busy, NextCall \in top.calls, NextCall.event = "unplanned",
           NEW q \in Seq(Hops), Len(q) = Len(Current.msg[2]), NEW r \in Seq(Hops),
           NEW p, <<Routing.call.node, p>> \in Hops
    PROVE  Append(q, <<Routing.call.node, p>>) \o r # RouteTaken
<1> SUFFICES ASSUME NEW h, h = <<Routing.call.node, p>>, h \in Hops,
                    Append(q, h) \o r = RouteTaken
             PROVE  FALSE
  OBVIOUS
<1>1. /\ Routing.routed > 0 /\ Ahead \in Seq(Hops) /\ RouteTaken = Current.msg[2] \o Ahead
      /\ Parent(Ahead[1][1]) = Routing.call.node
  BY AheadTyped
<1>2. Current.msg[2] \in Seq(Hops)
  BY <1>1, CurrentTyped
<1>3. <<h>> \in Seq(Hops) /\ Append(q, h) = q \o <<h>> /\ Len(<<h>>) = 1 /\ <<h>>[1] = h
  BY OneHop
<1>4. <<h>> \o r \in Seq(Hops) /\ (<<h>> \o r)[1] = h
  <2>4. Len(r) \in Nat
    BY LenProperties
  <2>1. Len(<<h>>) = 1 /\ <<h>>[1] = h /\ Len(r) \in Nat
    BY <1>3, <2>4
  <2>3. 1 \in 1 .. 1 + Len(r) /\ 1 <= 1
    BY <2>1
  <2>2. QED
    BY <1>3, <2>1, <2>3, ConcatProperties
<1>5. q \o (<<h>> \o r) = Current.msg[2] \o Ahead
  <2>1. (q \o <<h>>) \o r = q \o (<<h>> \o r)
    BY <1>3, Associative
  <2>2. QED
    BY <1>1, <1>3, <2>1
<1>6. <<h>> \o r = Ahead
  <2>1. Ahead \in Seq(Hops) /\ <<h>> \o r \in Seq(Hops)
    BY <1>1, <1>4
  <2>2. QED
    BY <1>2, <1>5, <2>1, SameRoute, ZenonT(60)
<1>7. h[1] = Routing.call.node /\ Ahead[1] = h /\ Routing.call.node \in Nodes
  BY <1>4, <1>6 DEF Hops
<1>8. QED
  BY <1>1, <1>7, NotOwnParent

LEMMA PassingElsewhere ==
    ASSUME StackOK, RoutingOK, Busy, NextCall \in top.calls, NextCall.event = "unplanned",
           NEW e, PassingOwes(e)
    PROVE  e[1] # RouteTaken
<1>1. /\ Routing.routed > 0 /\ Routing.src \in Nodes
      /\ Parent(Routing.src) = Routing.call.node
      /\ Current.msg[2] \in Seq(Hops) /\ Current.port \in Ports
  BY AheadTyped, CurrentTyped DEF MessageOK
<1>2. PICK p \in outward_ports(Routing.src, Current.port) :
         \E r \in Routes[<<Parent(Routing.src), p>>] :
            e = <<Append(Current.msg[2], <<Parent(Routing.src), p>>) \o r, Current.msg[1]>>
  BY DEF PassingOwes, ByPassing
<1>3. PICK r \in Routes[<<Parent(Routing.src), p>>] :
         e = <<Append(Current.msg[2], <<Parent(Routing.src), p>>) \o r, Current.msg[1]>>
  BY <1>2
<1>4. <<Routing.call.node, p>> \in Hops
  <2>1. <<Routing.src, Current.port>> \in Hops
    BY <1>1 DEF Hops
  <2>2. QED
    BY <1>1, <2>1, OutwardHop
<1>5. r \in Seq(Hops)
  BY <1>1, <1>3, <1>4, RoutesTyped
<1>6. e[1] = Append(Current.msg[2], <<Routing.call.node, p>>) \o r
  BY <1>1, <1>3
<1>7. QED
  BY <1>1, <1>4, <1>5, <1>6, NotPassed

\* Of the messages in the lists only later ones can take the same route.
LEMMA ListsAreLater ==
    ASSUME StackOK, RoutingOK, Busy, failure = "none",
           NextCall \in top.calls, NextCall.event = "unplanned",
           NEW e, ListOwes(e), e[1] = RouteTaken
    PROVE  NextCall.msg[1] < e[2]
<1>1. /\ Routing.routed > 0 /\ NextCall.msg = Current.msg
      /\ Ahead \in Seq(Hops) /\ RouteTaken = Current.msg[2] \o Ahead
  BY AheadTyped
<1>2. /\ Routing.src \in Nodes /\ Routing.routed \in DOMAIN outputs[Routing.src]
      /\ Parent(Routing.src) = Routing.call.node /\ Routing.call.node \in Composites
      /\ Current.msg[2] \in Seq(Hops) /\ Current.msg[1] \in Nat
      /\ Current.msg = <<Current.msg[1], Current.msg[2]>>
  BY <1>1, CurrentTyped
<1>3. PICK n \in Nodes : \E j \in DOMAIN outputs[n] : j > SentBy(n) /\ ByMessage(n, outputs[n][j], e)
  BY DEF ListOwes
<1>4. PICK j \in DOMAIN outputs[n] : j > SentBy(n) /\ ByMessage(n, outputs[n][j], e)
  BY <1>3
<1>5. PICK m : m = outputs[n][j] /\ MessageOK(m)
  BY DEF RoutingOK, Labelled, ListOK
<1>6. m.msg[2] \in Seq(Hops) /\ m.msg[1] \in Nat /\ m.msg = <<m.msg[1], m.msg[2]>> /\ m.port \in Ports
  BY <1>5 DEF MessageOK
<1>7. PICK r \in Routes[<<n, m.port>>] : e = <<m.msg[2] \o r, m.msg[1]>>
  BY <1>4, <1>5 DEF ByMessage
<1>8. r \in Seq(Hops)
  BY <1>6, <1>7, RoutesTyped DEF Hops
<1>9. m.msg[2] \o r = Current.msg[2] \o Ahead /\ e[2] = m.msg[1]
  BY <1>1, <1>7
<1>10. /\ n \in {Routing.src, Routing.call.node} /\ Routing.call.event = "planned"
  <2>1. outputs[n] # <<>>
    BY <1>4, EmptySeq
  <2>2. QED
    BY <2>1 DEF RoutingOK, Sending
<1>11. CASE n = Routing.src
  <2>1. Routing.routed < j
    BY <1>4, <1>11 DEF SentBy
  <2>2. InOrder(Current, m)
    BY <1>2, <1>4, <1>5, <1>11, <2>1 DEF RoutingOK, Labelled, ListOK, Current
  <2>3. Current.msg[2] = m.msg[2]
    <3>1. Len(m.msg[2]) = Len(Current.msg[2])
      BY <2>2 DEF InOrder
    <3>2. QED
      <4>1. Ahead \in Seq(Hops) /\ Current.msg[2] \in Seq(Hops) /\ m.msg[2] \in Seq(Hops)
        BY <1>1, <1>2, <1>6
      <4>2. QED
        BY <1>8, <1>9, <3>1, <4>1, SameStart
  <2>4. Current.msg[1] # m.msg[1]
    BY <1>2, <1>6, <2>2, <2>3 DEF InOrder
  <2>5. QED
    BY <1>1, <1>2, <1>6, <1>9, <2>2, <2>4 DEF InOrder
<1>12. CASE n # Routing.src
  <2>1. n = Routing.call.node
    BY <1>10, <1>12
  <2>2. PICK i \in DOMAIN outputs[Routing.src] :
           /\ i < Routing.routed
           /\ Passes(n, m, outputs[Routing.src][i])
    BY <1>2, <1>4, <1>5, <1>10, <2>1 DEF RoutingOK, Passed
  <2>3. PICK l : l = outputs[Routing.src][i] /\ MessageOK(l) /\ InOrder(l, Current)
    BY <1>2, <2>2 DEF RoutingOK, Labelled, ListOK, Current
  <2>4. l.msg[2] \in Seq(Hops) /\ Len(l.msg[2]) = Len(Current.msg[2])
    <3>1. MessageOK(l) /\ InOrder(l, Current)
      BY <2>3
    <3>2. l.msg[2] \in Seq(Hops)
      BY <3>1 DEF MessageOK
    <3>3. QED
      BY <3>1, <3>2 DEF InOrder
  <2>5. m.msg[2] = Append(l.msg[2], <<Routing.call.node, m.port>>)
    <3>1. Passes(Routing.call.node, m, l)
      BY <2>1, <2>2, <2>3, Zenon
    <3>2. QED
      BY <3>1 DEF Passes
  <2>6. <<Routing.call.node, m.port>> \in Hops
    BY <1>6, <2>1 DEF Hops
  <2>7. Append(l.msg[2], <<Routing.call.node, m.port>>) \o r # RouteTaken
    BY <1>8, <2>4, <2>6, NotPassed
  <2>8. QED
    BY <1>1, <1>9, <2>5, <2>7
<1>13. QED
  BY <1>11, <1>12

\* The call of a leaf is for one delivery.
Delivery == <<RouteTaken, NextCall.msg[1]>>

LEMMA LeafDelivers ==
    ASSUME StackOK, RoutingOK, Busy, NextCall \in top.calls, NextCall.event = "unplanned",
           NextCall.node \in Leaves
    PROVE  \A d : ByCall(Len(stack), NextCall, d) <=> d = Delivery
<1>1. <<NextCall.node, NextCall.port>> \in Hops
  <2>1. Len(stack) \in DOMAIN stack
    BY StackDomain
  <2>2. QED
    BY <2>1, CallTyped DEF top
<1>2. IntoRoutes[<<NextCall.node, NextCall.port>>] = {<<<<NextCall.node, NextCall.port>>>>}
  BY <1>1, IntoEquation
<1>3. QED
  BY <1>2 DEF ByCall, Delivery, RouteTaken

\* It is owed, and the next of those on its route; and it is no longer owed once
\* the leaf has handled it.
LEMMA DeliveryNext ==
    ASSUME StackOK, RoutingOK, Busy, failure = "none",
           NextCall \in top.calls, NextCall.event = "unplanned", NextCall.node \in Leaves
    PROVE  /\ Owes(Delivery)
           /\ \A e : Owes(e) /\ e[1] = Delivery[1] => Delivery[2] <= e[2]
           /\ Delivery[1][Len(Delivery[1])][1] = NextCall.node
<1> DEFINE n == Len(stack)
<1>1. n \in DOMAIN stack
  BY StackDomain
<1>2. NextCall \in Waiting(n)
  BY DEF Waiting, top
<1>3. Owes(Delivery)
  BY <1>1, <1>2, LeafDelivers DEF Owes, CallOwes
<1>4. /\ Ahead \in Seq(Hops) /\ Len(Ahead) = (n - Router) + 1 /\ n - Router \in Nat
      /\ RouteTaken = Current.msg[2] \o Ahead
      /\ Ahead[Len(Ahead)] = <<NextCall.node, NextCall.port>>
      /\ Routing.routed > 0 /\ NextCall.msg = Current.msg
  BY AheadTyped
<1>5. Current.msg[2] \in Seq(Hops) /\ Current.msg[1] \in Nat
  BY <1>4, CurrentTyped
<1>6. Delivery[1] = RouteTaken /\ Delivery[2] = Current.msg[1]
  BY <1>4 DEF Delivery
<1>7. ASSUME NEW e, Owes(e), e[1] = RouteTaken
      PROVE  Current.msg[1] <= e[2]
  <2>1. CASE ListOwes(e)
    <3>1. Current.msg[1] < e[2]
      BY <1>4, <1>7, <2>1, ListsAreLater
    <3>2. e[2] \in Nat
      <4>1. PICK c \in Nodes : \E j \in DOMAIN outputs[c] : ByMessage(c, outputs[c][j], e)
        BY <2>1 DEF ListOwes
      <4>2. PICK j \in DOMAIN outputs[c] : ByMessage(c, outputs[c][j], e)
        BY <4>1
      <4>3. MessageOK(outputs[c][j]) /\ e[2] = outputs[c][j].msg[1]
        <5>1. MessageOK(outputs[c][j])
          BY DEF RoutingOK, Labelled, ListOK
        <5>2. e[2] = outputs[c][j].msg[1]
          BY <4>2 DEF ByMessage
        <5>3. QED
          BY <5>1, <5>2
      <4>4. QED
        BY <4>3 DEF MessageOK
    <3>3. QED
      BY <1>5, <3>1, <3>2
  <2>2. ~PassingOwes(e)
    BY <1>7, PassingElsewhere
  <2>3. CASE CallOwes(e)
    <3>1. PICK i \in DOMAIN stack : \E y \in Waiting(i) : y.event = "unplanned" /\ ByCall(i, y, e)
      BY <2>3 DEF CallOwes
    <3>2. PICK y \in Waiting(i) : y.event = "unplanned" /\ ByCall(i, y, e)
      BY <3>1
    <3>3. i = n /\ y = NextCall
      BY <1>7, <3>2, OtherCalls
    <3>4. e = Delivery
      BY <3>2, <3>3, LeafDelivers
    <3>5. QED
      BY <1>5, <1>6, <3>4
  <2>4. QED
    BY <1>7, <2>1, <2>2, <2>3 DEF Owes
<1>8. Delivery[1][Len(Delivery[1])][1] = NextCall.node
  <2>1. /\ Len(Current.msg[2]) \in Nat
        /\ Len(RouteTaken) = Len(Current.msg[2]) + Len(Ahead)
        /\ \A i \in 1 .. Len(Current.msg[2]) + Len(Ahead) :
              RouteTaken[i] = IF i <= Len(Current.msg[2]) THEN Current.msg[2][i]
                              ELSE Ahead[i - Len(Current.msg[2])]
    BY <1>4, <1>5, ConcatProperties, LenProperties
  <2>2. /\ Len(RouteTaken) \in 1 .. Len(Current.msg[2]) + Len(Ahead)
        /\ ~(Len(RouteTaken) <= Len(Current.msg[2]))
        /\ Len(RouteTaken) - Len(Current.msg[2]) = Len(Ahead)
    BY <1>4, <2>1
  <2>3. RouteTaken[Len(RouteTaken)] = Ahead[Len(Ahead)]
    BY <2>1, <2>2
  <2>4. QED
    BY <1>4, <1>6, <2>3
<1>9. QED
  BY <1>3, <1>6, <1>7, <1>8

LEMMA OwedLeafUnplanned ==
    ASSUME Progress, Unwound, RoutingOK, OwedKept, NEW l \in Leaves, LeafUnplannedEvent(l)
    PROVE  RoutingOK' /\ OwedKept'
<1> SUFFICES ASSUME NEW k, k = Len(stack), NEW x, x = NextCall
             PROVE  RoutingOK' /\ OwedKept'
  OBVIOUS
<1>1. /\ Busy /\ x \in top.calls /\ x.node = l /\ x.event = "unplanned"
      /\ StackOK /\ StackOK' /\ Busy' /\ Len(stack') = k /\ DOMAIN stack' = 1 .. k
      /\ \A i \in 1 .. k - 1 : stack'[i] = stack[i]
      /\ stack'[k] = Frame(stack[k].call, stack[k].calls \ {x}, stack[k].src, stack[k].routed)
      /\ UNCHANGED failure
  BY LeafStep DEF LeafUnplannedEvent, Progress, top
<1>2. failure = "none" /\ UNCHANGED outputs /\ owed' = owed \ {Delivery}
  BY <1>1 DEF Unwound, LeafUnplannedEvent, Delivery
<1>3. k \in DOMAIN stack /\ DOMAIN stack = 1 .. k /\ k \in Nat
  BY <1>1, StackDomain
<1>4. Router <= k /\ Router \in DOMAIN stack
  <2>1. k >= Router
    BY <1>1, <1>3, CallTyped DEF top
  <2>2. Router \in DOMAIN stack
    BY <1>1, <1>2, <2>1, RouterFound DEF RoutingOK, HasRouter, RouterIs, OneRouter
  <2>3. QED
    BY <1>3, <2>1, <2>2
<1>5. /\ RoutingOK' /\ Router' = Router
      /\ Routing'.routed = Routing.routed /\ Routing'.src = Routing.src
      /\ Current' = Current
  BY <1>1, <1>2, <1>3, <1>4, RoutingReturns
<1>6. ASSUME NEW d PROVE Owes(d)' <=> Owes(d) /\ d # Delivery
  <2>1. CallOwes(d)' <=>
           \E i \in 1 .. k : \E y \in Waiting(i) :
              ~(i = k /\ y = x) /\ y.event = "unplanned" /\ ByCall(i, y, d)
    BY <1>1, <1>3, <1>4, <1>5, CallsLeft
  <2>2. \A i \in 1 .. k : \A y \in Waiting(i) :
           ~(i = k /\ y = x) /\ y.event = "unplanned" /\ ByCall(i, y, d) => d[1] # RouteTaken
    BY <1>1, <1>3, OtherCalls
  <2>3. ByCall(k, x, d) <=> d = Delivery
    BY <1>1, LeafDelivers
  <2>4. Delivery[1] = RouteTaken /\ Delivery[2] = x.msg[1]
    BY DEF Delivery
  <2>5. CallOwes(d)' <=> CallOwes(d) /\ d # Delivery
    BY <1>3, <2>1, <2>2, <2>3, <2>4, Zenon DEF CallOwes
  <2>6. (ListOwes(d)' <=> ListOwes(d)) /\ (PassingOwes(d)' <=> PassingOwes(d))
    BY <1>1, <1>2, <1>5, RestOwed
  <2>7. ~PassingOwes(Delivery)
    BY <1>1, <2>4, PassingElsewhere
  <2>8. ~ListOwes(Delivery)
    <3>1. ASSUME ListOwes(Delivery) PROVE x.msg[1] < Delivery[2]
      BY <1>1, <1>2, <2>4, <3>1, ListsAreLater
    <3>2. x.msg[1] \in Nat
      BY <1>1, AheadTyped, CurrentTyped
    <3>3. QED
      BY <2>4, <3>1, <3>2
  <2>9. QED
    BY <2>5, <2>6, <2>7, <2>8 DEF Owes
<1>7. OwedKept'
  BY <1>1, <1>2, <1>6 DEF OwedKept
<1>8. QED
  BY <1>5, <1>7

-----------------------------------------------------------------------------
(* The messages a leaf sends                                               *)

\* The list that the planned event of a leaf leaves.
Listed(sent) == [j \in DOMAIN sent |-> [port |-> sent[j], msg |-> <<j, <<>>>>]]

LEMMA ListedInOrder ==
    ASSUME NEW sent \in Seq(Ports)
    PROVE  /\ DOMAIN Listed(sent) = DOMAIN sent
           /\ \A j \in DOMAIN Listed(sent) :
                 /\ j \in Nat /\ j > 0
                 /\ Listed(sent)[j].port = sent[j] /\ Listed(sent)[j].msg = <<j, <<>>>>
           /\ ListOK(Listed(sent))
           /\ Listed(sent) # <<>> => sent # <<>>
<1>1. DOMAIN sent = 1 .. Len(sent) /\ Len(sent) \in Nat
  BY LenProperties
<1>2. DOMAIN Listed(sent) = 1 .. Len(sent)
  BY <1>1 DEF Listed
<1>3. ASSUME NEW j \in 1 .. Len(sent)
      PROVE  /\ j \in Nat /\ j > 0 /\ sent[j] \in Ports
             /\ Listed(sent)[j].port = sent[j] /\ Listed(sent)[j].msg = <<j, <<>>>>
  BY <1>1, ElementOfSeq DEF Listed
<1>4. \A j \in 1 .. Len(sent) : MessageOK(Listed(sent)[j])
  <2>1. <<>> \in Seq(Hops)
    BY EmptySeq
  <2>2. QED
    BY <1>3, <2>1 DEF MessageOK
<1>5. ASSUME NEW j \in 1 .. Len(sent), NEW l \in 1 .. Len(sent), j < l
      PROVE  InOrder(Listed(sent)[j], Listed(sent)[l])
  <2>1. <<j, <<>>>> # <<l, <<>>>> /\ j <= l
    BY <1>3, <1>5
  <2>2. QED
    BY <1>3, <2>1 DEF InOrder
<1>6. Listed(sent) \in Seq({Listed(sent)[j] : j \in DOMAIN Listed(sent)})
  <2>1. Listed(sent) \in [1 .. Len(sent) -> {Listed(sent)[j] : j \in DOMAIN Listed(sent)}]
    BY <1>1, <1>2 DEF Listed
  <2>2. QED
    BY <1>1, <2>1, SeqDef
<1>7. sent = <<>> => Listed(sent) = <<>>
  <2>1. ASSUME sent = <<>> PROVE Listed(sent) = <<>>
    <3>1. DOMAIN Listed(sent) = {}
      BY <1>2, <2>1, EmptySeq
    <3>2. QED
      BY <1>6, <3>1, EmptySeq, LenProperties
  <2>2. QED
    BY <2>1
<1>8. ListOK(Listed(sent))
  BY <1>2, <1>4, <1>5, <1>6 DEF ListOK
<1>9. QED
  BY <1>1, <1>2, <1>3, <1>7, <1>8

\* A leaf sends messages: what is owed is their list, by the definition of Routes.
LEMMA OwedLeafPlanned ==
    ASSUME Progress, Unwound, Schedule, Drained, RoutingOK, OwedKept,
           NEW l \in Leaves, LeafPlannedEvent(l)
    PROVE  RoutingOK' /\ OwedKept'
<1> SUFFICES ASSUME NEW k, k = Len(stack)
             PROVE  RoutingOK' /\ OwedKept'
  OBVIOUS
<1>1. /\ Busy /\ NextCall \in top.calls /\ NextCall.node = l /\ NextCall.event = "planned"
      /\ Parent(l) = top.call.node
      /\ StackOK /\ StackOK' /\ Busy' /\ Len(stack') = k /\ DOMAIN stack' = 1 .. k
      /\ \A i \in 1 .. k - 1 : stack'[i] = stack[i]
      /\ stack'[k] = Frame(top.call, top.calls \ {NextCall}, top.src, top.routed)
      /\ UNCHANGED failure
  BY LeafStep DEF LeafPlannedEvent, Progress
<1>2. failure = "none" /\ l \in Nodes /\ l \notin Composites
  BY <1>1, TreeAssumption DEF Unwound, Nodes
<1>3. Quiet
  BY <1>1, <1>2, QuietTop
<1>4. k \in DOMAIN stack /\ DOMAIN stack = 1 .. k /\ k \in Nat
  BY <1>1, StackDomain
<1>5. PICK sent \in Emissions[l] :
         /\ outputs' = [outputs EXCEPT ![l] = Listed(sent)]
         /\ owed' = UNION {{<<r, i>> : r \in Routes[<<l, sent[i]>>]} : i \in DOMAIN sent}
  BY DEF LeafPlannedEvent, Listed
<1>6. sent \in Seq(Ports)
  BY PortAssumption
<1>7. /\ outputs'[l] = Listed(sent)
      /\ \A n \in Nodes : n # l => outputs'[n] = <<>>
  BY <1>2, <1>3, <1>5 DEF Drained, Quiet
<1>8. \A i \in DOMAIN stack' :
         /\ stack'[i].call = stack[i].call /\ stack'[i].call.event # "unplanned"
         /\ stack'[i].routed = 0
         /\ \A x \in stack'[i].calls : x.event # "unplanned"
  <2>1. ASSUME NEW i \in DOMAIN stack'
        PROVE  /\ i \in DOMAIN stack /\ stack'[i].call = stack[i].call
               /\ stack'[i].calls \subseteq stack[i].calls /\ stack'[i].routed = stack[i].routed
    <3>1. CASE i = k
      BY <1>1, <1>4, <3>1 DEF Frame, top
    <3>2. CASE i # k
      BY <1>1, <1>4, <3>2
    <3>3. QED
      BY <3>1, <3>2
  <2>2. QED
    BY <1>3, <2>1 DEF Quiet
<1>9. RouterIs(k)' /\ Router' = k
  <2>1. RouterIs(k)'
    BY <1>1, <1>4, <1>8 DEF RouterIs
  <2>2. QED
    BY <1>1, <2>1, RouterFoundNext DEF OneRouter
<1>10. /\ Routing'.call = top.call /\ Routing'.src = top.src /\ Routing'.routed = 0
       /\ Routing'.calls = {}
  <2>1. Routing' = Frame(top.call, top.calls \ {NextCall}, top.src, top.routed)
    BY <1>1, <1>9 DEF Routing
  <2>2. top.calls = {NextCall}
    BY <1>1, <1>4 DEF Schedule, PlannedDue, top
  <2>3. top.routed = 0
    BY <1>1, <1>3, <1>4 DEF Quiet, top
  <2>4. QED
    BY <2>1, <2>2, <2>3 DEF Frame
<1>11. top.call.event = "planned"
  <2>1. FrameOK(top)
    BY <1>1, <1>4 DEF StackOK, top
  <2>2. QED
    BY <1>1, <2>1 DEF FrameOK, Events, Call
<1>12. HasRouter' /\ RouterKept'
  <2>1. HasRouter'
    BY <1>9 DEF HasRouter, RouterIs
  <2>2. RoutesOne'
    BY <1>10 DEF RoutesOne
  <2>3. QED
    BY <1>8, <2>1, <2>2 DEF RouterKept
<1>13. Sending'
  <2>1. ASSUME NEW n \in Nodes, outputs'[n] # <<>>
        PROVE  n = Routing'.src /\ Routing'.call.node \in Composites
    <3>1. n = l /\ sent # <<>>
      BY <1>6, <1>7, <2>1, ListedInOrder
    <3>2. SourceOK(top)
      BY <1>1, <1>4 DEF Drained, top
    <3>3. top.call.node # Root
      <4>1. ASSUME top.call.node = Root PROVE FALSE
        <5>1. l = Top
          BY <1>1, <1>2, <4>1, OnlyTop
        <5>2. QED
          BY <3>1, <5>1, TopAssumption
      <4>2. QED
        BY <4>1
    <3>4. QED
      BY <1>1, <1>10, <3>1, <3>2, <3>3 DEF SourceOK
  <2>2. QED
    BY <1>1, <1>10, <1>11, <2>1 DEF Sending
<1>14. Labelled'
  <2>1. ListOK(<<>>)
    BY EmptySeq DEF ListOK
  <2>2. ListOK(Listed(sent))
    BY <1>6, ListedInOrder
  <2>3. QED
    BY <1>7, <2>1, <2>2, Zenon DEF Labelled, ListOK
<1>15. Passed'
  <2>1. \A n \in Composites : DOMAIN outputs'[n] = {}
    BY <1>2, <1>7, EmptySeq DEF Nodes
  <2>2. QED
    BY <2>1, Zenon DEF Passed
<1>16. ASSUME NEW d PROVE Owes(d)' <=> d \in owed'
  <2>1. ~CallOwes(d)'
    BY <1>8 DEF CallOwes, Waiting
  <2>2. ~PassingOwes(d)'
    BY <1>10 DEF PassingOwes
  <2>3. \A n : SentBy(n)' = 0
    BY <1>10 DEF SentBy
  <2>4. ListOwes(d)' <=> \E j \in DOMAIN Listed(sent) : ByMessage(l, Listed(sent)[j], d)
    <3>1. \A n \in Nodes : n # l => DOMAIN outputs'[n] = {}
      BY <1>7, EmptySeq
    <3>2. \A j \in DOMAIN Listed(sent) : j > 0
      BY <1>6, ListedInOrder
    <3>3. ListOwes(d)' <=> \E n \in Nodes : \E j \in DOMAIN outputs'[n] : j > 0 /\ ByMessage(n, outputs'[n][j], d)
      BY <2>3 DEF ListOwes, ByMessage
    <3>4. QED
      BY <1>2, <1>7, <3>1, <3>2, <3>3, Zenon
  <2>5. ASSUME NEW j \in DOMAIN sent
        PROVE  ByMessage(l, Listed(sent)[j], d) <=> d \in {<<r, j>> : r \in Routes[<<l, sent[j]>>]}
    <3>1. /\ Listed(sent)[j].port = sent[j]
          /\ Listed(sent)[j].msg[1] = j /\ Listed(sent)[j].msg[2] = <<>>
      <4>1. j \in DOMAIN Listed(sent)
        BY <1>6, ListedInOrder
      <4>2. Listed(sent)[j].port = sent[j] /\ Listed(sent)[j].msg = <<j, <<>>>>
        BY <1>6, <4>1, ListedInOrder
      <4>3. QED
        BY <4>2
    <3>2. <<l, sent[j]>> \in Hops
      BY <1>2, <1>6, LenProperties, ElementOfSeq DEF Hops
    <3>3. \A r \in Routes[<<l, sent[j]>>] : <<>> \o r = r
      BY <3>2, RoutesTyped, ConcatEmptySeq
    <3>4. QED
      BY <3>1, <3>3 DEF ByMessage
  <2>6. d \in owed' <=> \E j \in DOMAIN sent : d \in {<<r, j>> : r \in Routes[<<l, sent[j]>>]}
    BY <1>5, Zenon
  <2>7. DOMAIN Listed(sent) = DOMAIN sent
    BY <1>6, ListedInOrder
  <2>8. QED
    BY <2>1, <2>2, <2>4, <2>5, <2>6, <2>7, Zenon DEF Owes
<1>17. QED
  BY <1>12, <1>13, <1>14, <1>15, <1>16 DEF RoutingOK, OwedKept

-----------------------------------------------------------------------------
(* The messages a composite node passes on                                 *)

\* One list after another.
AllBefore(a, b) == \A i \in DOMAIN a : \A j \in DOMAIN b : InOrder(a[i], b[j])
Joined(a, b, s) ==
    /\ \A i \in DOMAIN a : i \in DOMAIN s /\ s[i] = a[i]
    /\ \A j \in DOMAIN b : \E i \in DOMAIN s : s[i] = b[j]
    /\ \A i \in DOMAIN s : (\E j \in DOMAIN a : s[i] = a[j]) \/ (\E j \in DOMAIN b : s[i] = b[j])

LEMMA ListsJoined ==
    ASSUME NEW a, NEW b, ListOK(a), ListOK(b), AllBefore(a, b)
    PROVE  ListOK(a \o b) /\ Joined(a, b, a \o b)
<1> USE DEF AllBefore
<1> DEFINE A == {a[j] : j \in DOMAIN a}
           B == {b[j] : j \in DOMAIN b}
           n == Len(a)
           l == Len(b)
<1>1. a \in Seq(A) /\ b \in Seq(B)
  BY DEF ListOK
<1>2. a \in Seq(A \cup B) /\ b \in Seq(A \cup B)
  <2>1. A \subseteq A \cup B /\ B \subseteq A \cup B
    OBVIOUS
  <2> HIDE DEF A, B
  <2>2. QED
    BY <1>1, <2>1, SeqMonotonic
<1>3. /\ n \in Nat /\ l \in Nat /\ DOMAIN a = 1 .. n /\ DOMAIN b = 1 .. l
  BY <1>2, LenProperties
<1>4. /\ a \o b \in Seq(A \cup B) /\ DOMAIN (a \o b) = 1 .. n + l
      /\ \A i \in 1 .. n + l : (a \o b)[i] = IF i <= n THEN a[i] ELSE b[i - n]
  <2> HIDE DEF A, B
  <2>1. QED
    BY <1>2, ConcatProperties, LenProperties
<1> HIDE DEF A, B
<1>5. ASSUME NEW i \in 1 .. n PROVE i \in 1 .. n + l /\ (a \o b)[i] = a[i]
  BY <1>3, <1>4
<1>6. ASSUME NEW i \in 1 .. n + l, ~(i <= n)
      PROVE  i - n \in 1 .. l /\ (a \o b)[i] = b[i - n]
  BY <1>3, <1>4, <1>6
<1>7. ASSUME NEW j \in 1 .. l PROVE j + n \in 1 .. n + l /\ (a \o b)[j + n] = b[j]
  <2>1. j + n \in 1 .. n + l /\ ~(j + n <= n) /\ (j + n) - n = j
    BY <1>3
  <2>2. QED
    BY <1>4, <2>1
<1>8. ListOK(a \o b)
  <2>1. a \o b \in Seq({(a \o b)[j] : j \in DOMAIN (a \o b)})
    <3> DEFINE s == a \o b
    <3>1. s \in Seq(A \cup B)
      BY <1>4
    <3>2. s \in [1 .. Len(s) -> A \cup B] /\ Len(s) \in Nat /\ DOMAIN s = 1 .. Len(s)
      BY <3>1, LenProperties
    <3> HIDE DEF s
    <3>3. s \in [1 .. Len(s) -> {s[j] : j \in DOMAIN s}]
      BY <3>2
    <3>4. s \in Seq({s[j] : j \in DOMAIN s})
      BY <3>2, <3>3, SeqDef
    <3>5. QED
      BY <3>4 DEF s
  <2>2. ASSUME NEW i \in 1 .. n + l PROVE MessageOK((a \o b)[i])
    <3>1. CASE i <= n
      <4>1. i \in 1 .. n
        BY <1>3, <3>1
      <4>2. QED
        BY <1>3, <1>5, <4>1 DEF ListOK
    <3>2. CASE ~(i <= n)
      BY <1>3, <1>6, <3>2 DEF ListOK
    <3>3. QED
      BY <3>1, <3>2
  <2>3. ASSUME NEW i \in 1 .. n + l, NEW j \in 1 .. n + l, i < j
        PROVE  InOrder((a \o b)[i], (a \o b)[j])
    <3>1. CASE j <= n
      <4>1. i \in 1 .. n /\ j \in 1 .. n
        BY <1>3, <2>3, <3>1
      <4>2. InOrder(a[i], a[j])
        BY <1>3, <2>3, <4>1 DEF ListOK
      <4>3. QED
        BY <1>5, <4>1, <4>2
    <3>2. CASE i <= n /\ ~(j <= n)
      <4>1. i \in 1 .. n
        BY <1>3, <3>2
      <4>2. QED
        BY <1>3, <1>5, <1>6, <3>2, <4>1
    <3>3. CASE ~(i <= n) /\ ~(j <= n)
      <4>1. i - n \in 1 .. l /\ j - n \in 1 .. l /\ i - n < j - n
        BY <1>3, <1>6, <2>3, <3>3
      <4>2. InOrder(b[i - n], b[j - n])
        BY <1>3, <4>1 DEF ListOK
      <4>3. QED
        BY <1>6, <3>3, <4>2
    <3>4. QED
      BY <1>3, <2>3, <3>1, <3>2, <3>3
  <2>4. QED
    BY <1>4, <2>1, <2>2, <2>3 DEF ListOK
<1>9. ASSUME NEW i \in 1 .. n + l
      PROVE  (\E j \in 1 .. n : (a \o b)[i] = a[j]) \/ (\E j \in 1 .. l : (a \o b)[i] = b[j])
  <2>1. CASE i <= n
    <3>1. i \in 1 .. n
      BY <1>3, <2>1
    <3>2. QED
      BY <1>5, <3>1
  <2>2. CASE ~(i <= n)
    BY <1>6, <2>2
  <2>3. QED
    BY <2>1, <2>2
<1>10. Joined(a, b, a \o b)
  BY <1>3, <1>4, <1>5, <1>7, <1>9 DEF Joined
<1>11. QED
  BY <1>8, <1>10

\* The messages a composite node passes on for message m of a component.
PassedList(ports, c, m) ==
    [i \in DOMAIN ports |->
        [port |-> ports[i], msg |-> <<m.msg[1], Append(m.msg[2], <<c, ports[i]>>)>>]]

\* A route is longer by the port a message is passed on to.
LEMMA LongerRoutes ==
    \A a, b \in Seq(Hops) : \A g, h \in Hops :
        /\ Append(a, g) \in Seq(Hops) /\ Len(Append(a, g)) = Len(a) + 1
        /\ Append(a, g) = Append(b, h) => a = b /\ g = h
<1> SUFFICES ASSUME NEW a \in Seq(Hops), NEW b \in Seq(Hops), NEW g \in Hops, NEW h \in Hops
             PROVE  /\ Append(a, g) \in Seq(Hops) /\ Len(Append(a, g)) = Len(a) + 1
                    /\ Append(a, g) = Append(b, h) => a = b /\ g = h
  OBVIOUS
<1>1. /\ Append(a, g) \in Seq(Hops) /\ Len(Append(a, g)) = Len(a) + 1
      /\ Append(b, h) \in Seq(Hops) /\ Len(Append(b, h)) = Len(b) + 1
      /\ Len(a) \in Nat /\ Len(b) \in Nat
  OBVIOUS
<1>2. ASSUME Append(a, g) = Append(b, h) PROVE a = b /\ g = h
  <2>1. Len(a) = Len(b)
    BY <1>1, <1>2
  <2>2. /\ <<g>> \in Seq(Hops) /\ <<h>> \in Seq(Hops) /\ <<g>>[1] = g /\ <<h>>[1] = h
        /\ a \o <<g>> = b \o <<h>>
    BY <1>2, OneHop
  <2>3. a = b
    BY <2>1, <2>2, SameStart
  <2>4. <<g>> = <<h>>
    BY <2>2, <2>3, SameRest
  <2>5. QED
    BY <2>2, <2>3, <2>4
<1>3. QED
  BY <1>1, <1>2

Rising(ports) == \A i, j \in DOMAIN ports : i < j => ports[i] < ports[j]
PassesAll(ports, c, m, list) ==
    /\ DOMAIN list = DOMAIN ports
    /\ \A i \in DOMAIN ports : list[i].port = ports[i] /\ Passes(c, list[i], m)

LEMMA PassedInOrder ==
    ASSUME NEW ports \in Seq(Ports), NEW c \in Nodes, NEW m, MessageOK(m), Rising(ports)
    PROVE  /\ PassesAll(ports, c, m, PassedList(ports, c, m))
           /\ ListOK(PassedList(ports, c, m))
<1> USE DEF Rising
<1> DEFINE new == PassedList(ports, c, m)
<1>1. DOMAIN ports = 1 .. Len(ports) /\ Len(ports) \in Nat
  BY LenProperties
<1>2. DOMAIN new = 1 .. Len(ports)
  BY <1>1 DEF PassedList
<1>3. m.msg[2] \in Seq(Hops) /\ m.msg[1] \in Nat
  BY DEF MessageOK
<1>4. ASSUME NEW i \in 1 .. Len(ports)
      PROVE  /\ new[i].port = ports[i] /\ ports[i] \in Ports /\ <<c, ports[i]>> \in Hops
             /\ new[i].msg = <<m.msg[1], Append(m.msg[2], <<c, ports[i]>>)>>
  <2>1. ports[i] \in Ports
    BY <1>1, ElementOfSeq
  <2>2. QED
    BY <1>1, <2>1 DEF PassedList, Hops
<1>5. ASSUME NEW i \in 1 .. Len(ports) PROVE MessageOK(new[i])
  <2>1. Append(m.msg[2], <<c, ports[i]>>) \in Seq(Hops)
    BY <1>3, <1>4, LongerRoutes
  <2> HIDE DEF new
  <2>2. QED
    BY <1>3, <1>4, <2>1 DEF MessageOK
<1>6. ASSUME NEW i \in 1 .. Len(ports), NEW j \in 1 .. Len(ports), i < j
      PROVE  InOrder(new[i], new[j])
  <2> DEFINE u == Append(m.msg[2], <<c, ports[i]>>)
             v == Append(m.msg[2], <<c, ports[j]>>)
  <2>1. ports[i] < ports[j] /\ ports[i] \in Nat /\ ports[j] \in Nat
    BY <1>1, <1>4, <1>6, LinkAssumption
  <2>2. <<c, ports[i]>> # <<c, ports[j]>>
    BY <2>1
  <2>3. Len(u) = Len(v) /\ u # v
    <3>1. <<c, ports[i]>> \in Hops /\ <<c, ports[j]>> \in Hops
      BY <1>4
    <3>2. QED
      BY <1>3, <2>2, <3>1, LongerRoutes
  <2>4. new[i].msg = <<m.msg[1], u>> /\ new[j].msg = <<m.msg[1], v>>
    BY <1>4
  <2> HIDE DEF u, v, new
  <2>5. QED
    BY <1>3, <2>3, <2>4 DEF InOrder
<1>7. new \in Seq({new[j] : j \in DOMAIN new})
  <2>1. new \in [1 .. Len(ports) -> {new[j] : j \in DOMAIN new}]
    BY <1>1, <1>2 DEF PassedList
  <2>2. QED
    BY <1>1, <2>1, SeqDef
<1>8. ListOK(new)
  <2> HIDE DEF new
  <2>1. QED
    BY <1>2, <1>5, <1>6, <1>7 DEF ListOK
<1>9. QED
  BY <1>1, <1>2, <1>4, <1>8 DEF Passes, PassesAll

\* Passing messages on keeps their order.
LEMMA PassingKeepsOrder ==
    ASSUME NEW c \in Nodes, NEW m, NEW l, MessageOK(m), MessageOK(l), InOrder(m, l),
           NEW x, NEW y, MessageOK(x), MessageOK(y), Passes(c, x, m), Passes(c, y, l)
    PROVE  InOrder(x, y)
<1> DEFINE g == <<c, x.port>>
           h == <<c, y.port>>
<1>1. g \in Hops /\ h \in Hops
  BY DEF MessageOK, Hops
<1>2. /\ m.msg[2] \in Seq(Hops) /\ l.msg[2] \in Seq(Hops)
      /\ m.msg = <<m.msg[1], m.msg[2]>> /\ l.msg = <<l.msg[1], l.msg[2]>>
  <2>1. m.msg[2] \in Seq(Hops) /\ m.msg = <<m.msg[1], m.msg[2]>>
    BY DEF MessageOK
  <2>2. l.msg[2] \in Seq(Hops) /\ l.msg = <<l.msg[1], l.msg[2]>>
    BY DEF MessageOK
  <2>3. QED
    BY <2>1, <2>2
<1>3. x.msg = <<m.msg[1], Append(m.msg[2], g)>> /\ y.msg = <<l.msg[1], Append(l.msg[2], h)>>
  BY DEF Passes
<1> HIDE DEF g, h
<1>4. m.msg[1] <= l.msg[1] /\ m.msg # l.msg /\ Len(m.msg[2]) = Len(l.msg[2])
  BY DEF InOrder
<1>5. Len(Append(m.msg[2], g)) = Len(m.msg[2]) + 1 /\ Len(Append(l.msg[2], h)) = Len(l.msg[2]) + 1
  BY <1>1, <1>2, LongerRoutes
<1>6. Append(m.msg[2], g) = Append(l.msg[2], h) => m.msg[2] = l.msg[2]
  BY <1>1, <1>2, LongerRoutes
<1>7. ASSUME x.msg = y.msg PROVE FALSE
  <2>6. \A p, q, r, s : <<p, q>> = <<r, s>> => p = r /\ q = s
    OBVIOUS
  <2>7. <<m.msg[1], Append(m.msg[2], g)>> = <<l.msg[1], Append(l.msg[2], h)>>
    BY <1>3, <1>7, Zenon
  <2>1. m.msg[1] = l.msg[1] /\ Append(m.msg[2], g) = Append(l.msg[2], h)
    BY <2>6, <2>7, Zenon
  <2>2. m.msg[2] = l.msg[2]
    BY <1>6, <2>1
  <2>3. <<m.msg[1], m.msg[2]>> = <<l.msg[1], l.msg[2]>>
    BY <2>1, <2>2
  <2>5. m.msg = l.msg
    BY <1>2, <2>3, Zenon
  <2>4. QED
    BY <1>4, <2>5
<1>8. QED
  BY <1>3, <1>4, <1>5, <1>7 DEF InOrder

\* What the list of a composite node is once the current message is passed on.
LEMMA PassingOn ==
    ASSUME StackOK, RoutingOK, Drained, failure = "none",
           NEW c \in Composites, Handling(c), top.call.event = "planned",
           NEW list, list = PassedOutward(c)[c]
    PROVE  /\ Router = Len(stack) /\ Routing = top
           /\ top.src \in Nodes /\ Parent(top.src) = c /\ c # top.src
           /\ ListOK(list)
           /\ \A e \in DOMAIN list : \E j \in DOMAIN outputs[top.src] :
                 j <= top.routed /\ Passes(c, list[e], outputs[top.src][j])
           /\ \A d : (\E e \in DOMAIN list : ByMessage(c, list[e], d))
                        <=> (\E e \in DOMAIN outputs[c] : ByMessage(c, outputs[c][e], d)) \/ PassingOwes(d)
<1>1. Busy /\ top.call.node = c /\ top.calls = {} /\ c \in Nodes
  BY DEF Handling, Nodes
<1>2. Router = Len(stack) /\ Routing = top /\ Len(stack) \in DOMAIN stack
  <2>1. Router = Len(stack) /\ Routing = top /\ RouterIs(Len(stack))
    BY <1>1, TopRouter DEF RoutingOK
  <2>2. QED
    BY <2>1 DEF RouterIs
<1>3. top.src \in Nodes /\ Parent(top.src) = c /\ c # top.src
  <2>1. FrameOK(top)
    BY <1>2 DEF StackOK, top
  <2>2. top.src \in Nodes /\ Parent(top.src) = c
    BY <1>1, <2>1 DEF FrameOK
  <2>3. QED
    BY <2>2, NotOwnParent
<1>4. top.routed \in Nat /\ ListOK(outputs[c]) /\ ListOK(outputs[top.src]) /\ DOMAIN outputs = Nodes
  BY <1>1, <1>2, <1>3 DEF RoutingOK, RouterKept, Labelled, Drained, top
<1>5. \A e \in DOMAIN outputs[c] : \E j \in DOMAIN outputs[top.src] :
          /\ j < top.routed
          /\ Passes(c, outputs[c][e], outputs[top.src][j])
  BY <1>1, <1>2 DEF RoutingOK, Passed
<1>11. DOMAIN outputs[top.src] = 1 .. Len(outputs[top.src]) /\ Len(outputs[top.src]) \in Nat
  BY <1>4, LenProperties DEF ListOK
<1>6. CASE top.routed = 0
  <2>1. list = outputs[c]
    BY <1>6 DEF PassedOutward
  <2>2. \A d : ~PassingOwes(d)
    BY <1>2, <1>6 DEF PassingOwes
  <2>3. \A e \in DOMAIN list : \E j \in DOMAIN outputs[top.src] :
           j <= top.routed /\ Passes(c, list[e], outputs[top.src][j])
    BY <1>4, <1>5, <1>11, <2>1
  <2>4. QED
    BY <1>2, <1>3, <1>4, <2>1, <2>2, <2>3
<1>7. CASE top.routed # 0
  <2> DEFINE m == Current
             outward == outward_ports(top.src, m.port)
             ports == Ascending(outward)
             old == outputs[c]
             new == PassedList(ports, c, m)
  <2>1. /\ top.routed > 0 /\ top.routed \in DOMAIN outputs[top.src]
        /\ MessageOK(m) /\ m = outputs[top.src][top.routed]
    BY <1>1, <1>2, <1>4, <1>7, CurrentTyped DEF Current
  <2>2. list = old \o new
    <3>1. PassedOutward(c) = [outputs EXCEPT ![c] = @ \o new]
      BY <1>2, <1>7 DEF PassedOutward, PassedList, Current
    <3>2. QED
      BY <1>1, <1>4, <3>1
  <2>3. outward \subseteq Ports /\ outward \in SUBSET Nat /\ IsFiniteSet(outward)
    BY <1>3, LinkedHops, LinkAssumption
  <2>4. /\ ports \in Seq(Ports) /\ DOMAIN ports = 1 .. Len(ports)
        /\ \A p \in outward : \E i \in DOMAIN ports : ports[i] = p
        /\ \A i \in DOMAIN ports : ports[i] \in outward
        /\ \A i, j \in DOMAIN ports : i < j => ports[i] < ports[j]
    <3>1. /\ ports \in Seq(outward) /\ DOMAIN ports = 1 .. Len(ports)
          /\ \A p \in outward : \E i \in DOMAIN ports : ports[i] = p
          /\ \A i, j \in DOMAIN ports : i < j => ports[i] < ports[j]
      BY <2>3, AscendingSorts
    <3> HIDE DEF ports, outward
    <3>2. ports \in Seq(Ports)
      BY <2>3, <3>1, SeqMonotonic
    <3>3. \A i \in DOMAIN ports : ports[i] \in outward
      BY <3>1, ElementOfSeq
    <3>4. QED
      BY <3>1, <3>2, <3>3
  <2> HIDE DEF m, outward, ports
  <2>5. /\ DOMAIN new = DOMAIN ports /\ ListOK(new)
        /\ \A i \in DOMAIN ports : new[i].port = ports[i] /\ Passes(c, new[i], m)
    <3>1. Rising(ports)
      BY <2>4 DEF Rising
    <3>2. PassesAll(ports, c, m, PassedList(ports, c, m)) /\ ListOK(PassedList(ports, c, m))
      BY <1>1, <2>1, <2>4, <3>1, PassedInOrder
    <3>3. QED
      BY <3>2, Zenon DEF PassesAll
  <2> HIDE DEF new, old
  <2>6. ASSUME NEW e \in DOMAIN old, NEW i \in DOMAIN new PROVE InOrder(old[e], new[i])
    <3>1. PICK j \in DOMAIN outputs[top.src] : j < top.routed /\ Passes(c, old[e], outputs[top.src][j])
      BY <1>5 DEF old
    <3>2. MessageOK(outputs[top.src][j]) /\ InOrder(outputs[top.src][j], m)
      BY <1>4, <2>1, <3>1 DEF ListOK
    <3>3. MessageOK(old[e]) /\ MessageOK(new[i])
      BY <1>4, <2>5 DEF ListOK, old
    <3>4. Passes(c, new[i], m)
      BY <2>5
    <3>5. QED
      BY <1>1, <2>1, <3>1, <3>2, <3>3, <3>4, PassingKeepsOrder
  <2>7. /\ ListOK(list)
        /\ \A e \in DOMAIN old : e \in DOMAIN list /\ list[e] = old[e]
        /\ \A i \in DOMAIN new : \E e \in DOMAIN list : list[e] = new[i]
        /\ \A e \in DOMAIN list :
              (\E j \in DOMAIN old : list[e] = old[j]) \/ (\E i \in DOMAIN new : list[e] = new[i])
    <3>1. ListOK(old)
      BY <1>4 DEF old
    <3>2. AllBefore(old, new)
      BY <2>6 DEF AllBefore
    <3>3. ListOK(old \o new) /\ Joined(old, new, old \o new)
      BY <2>5, <3>1, <3>2, ListsJoined
    <3>4. ListOK(list) /\ Joined(old, new, list)
      BY <2>2, <3>3
    <3>5. QED
      BY <3>4, Zenon DEF Joined
  <2>8. ASSUME NEW e \in DOMAIN list
        PROVE  \E j \in DOMAIN outputs[top.src] :
                  j <= top.routed /\ Passes(c, list[e], outputs[top.src][j])
    <3>1. CASE \E j \in DOMAIN old : list[e] = old[j]
      <4>1. PICK j \in DOMAIN outputs[top.src] : j < top.routed /\ Passes(c, list[e], outputs[top.src][j])
        BY <1>5, <3>1 DEF old
      <4>2. j <= top.routed
        BY <1>4, <1>11, <4>1
      <4>3. QED
        BY <4>1, <4>2
    <3>2. CASE \E i \in DOMAIN new : list[e] = new[i]
      <4>1. Passes(c, list[e], outputs[top.src][top.routed])
        BY <2>1, <2>5, <3>2
      <4>2. top.routed <= top.routed
        BY <1>4
      <4>3. QED
        BY <2>1, <4>1, <4>2
    <3>3. QED
      BY <2>7, <3>1, <3>2
  <2>9. ASSUME NEW d
        PROVE  (\E i \in DOMAIN new : ByMessage(c, new[i], d)) <=> PassingOwes(d)
    <3>1. PassingOwes(d) <=> ByPassing(top.src, m, d)
      BY <1>1, <1>2, <2>1 DEF PassingOwes, m
    <3>2. ByPassing(top.src, m, d) <=>
             \E p \in outward : \E r \in Routes[<<c, p>>] :
                d = <<Append(m.msg[2], <<c, p>>) \o r, m.msg[1]>>
      BY <1>3 DEF ByPassing, outward
    <3>3. ASSUME NEW i \in DOMAIN ports
          PROVE  ByMessage(c, new[i], d) <=>
                    \E r \in Routes[<<c, ports[i]>>] :
                       d = <<Append(m.msg[2], <<c, ports[i]>>) \o r, m.msg[1]>>
      <4>1. new[i].port = ports[i] /\ new[i].msg = <<m.msg[1], Append(m.msg[2], <<c, ports[i]>>)>>
        BY <2>5, Zenon DEF Passes
      <4>2. new[i].msg[1] = m.msg[1] /\ new[i].msg[2] = Append(m.msg[2], <<c, ports[i]>>)
        BY <4>1
      <4>3. ByMessage(c, new[i], d) <=>
               \E r \in Routes[<<c, new[i].port>>] : d = <<new[i].msg[2] \o r, new[i].msg[1]>>
        BY Zenon DEF ByMessage
      <4>4. QED
        BY <4>1, <4>2, <4>3, Zenon
    <3>4. (\E i \in DOMAIN new : ByMessage(c, new[i], d)) <=>
             \E p \in outward : \E r \in Routes[<<c, p>>] :
                d = <<Append(m.msg[2], <<c, p>>) \o r, m.msg[1]>>
      <4>1. ASSUME NEW i \in DOMAIN new, ByMessage(c, new[i], d)
            PROVE  \E p \in outward : \E r \in Routes[<<c, p>>] :
                      d = <<Append(m.msg[2], <<c, p>>) \o r, m.msg[1]>>
        <5>1. i \in DOMAIN ports /\ ports[i] \in outward
          BY <2>4, <2>5
        <5>2. \E r \in Routes[<<c, ports[i]>>] :
                       d = <<Append(m.msg[2], <<c, ports[i]>>) \o r, m.msg[1]>>
          BY <3>3, <4>1, <5>1, Zenon
        <5>3. QED
          BY <5>1, <5>2, Zenon
      <4>2. ASSUME NEW p \in outward,
                   \E r \in Routes[<<c, p>>] : d = <<Append(m.msg[2], <<c, p>>) \o r, m.msg[1]>>
            PROVE  \E i \in DOMAIN new : ByMessage(c, new[i], d)
        <5>1. PICK i \in DOMAIN ports : ports[i] = p
          BY <2>4
        <5>2. i \in DOMAIN new
          BY <2>5
        <5>3. ByMessage(c, new[i], d)
          BY <3>3, <4>2, <5>1, Zenon
        <5>4. QED
          BY <5>2, <5>3
      <4>3. QED
        BY <4>1, <4>2, Zenon
    <3>5. QED
      BY <3>1, <3>2, <3>4
  <2>10. ASSUME NEW d
         PROVE  (\E e \in DOMAIN list : ByMessage(c, list[e], d))
                   <=> (\E e \in DOMAIN old : ByMessage(c, old[e], d)) \/ PassingOwes(d)
    BY <2>7, <2>9, Zenon
  <2>11. QED
    BY <1>2, <1>3, <2>7, <2>8, <2>10 DEF old
<1>8. QED
  BY <1>6, <1>7

-----------------------------------------------------------------------------
(* The next message of a list                                              *)

\* The lists the messages in which are owed, while a composite node routes them.
ListsAt(s, c) ==
    /\ s \in Nodes /\ c \in Nodes /\ s # c /\ DOMAIN outputs = Nodes
    /\ Busy /\ failure = "none" /\ Sending /\ Labelled
    /\ Routing.src = s /\ Routing.call.node = c
LaterOwed(s, d) ==
    \E j \in DOMAIN outputs[s] : j > Routing.routed /\ ByMessage(s, outputs[s][j], d)
AllOwed(c, d) == \E j \in DOMAIN outputs[c] : ByMessage(c, outputs[c][j], d)
ListsOwed(s, c, d) == ListOwes(d) <=> LaterOwed(s, d) \/ AllOwed(c, d)

LEMMA ListsOwe == ASSUME NEW s, NEW c, NEW d PROVE ListsAt(s, c) => ListsOwed(s, c, d)
<1> SUFFICES ASSUME ListsAt(s, c) PROVE ListOwes(d) <=> LaterOwed(s, d) \/ AllOwed(c, d)
  BY DEF ListsOwed
<1>1. SentBy(s) = Routing.routed /\ \A n : n # s => SentBy(n) = 0
  BY DEF ListsAt, SentBy
<1>2. \A j \in DOMAIN outputs[c] : j > 0
  <2>1. DOMAIN outputs[c] = 1 .. Len(outputs[c]) /\ Len(outputs[c]) \in Nat
    BY LenProperties DEF ListsAt, Labelled, ListOK
  <2>2. QED
    BY <2>1
<1>3. \A n \in Nodes : n # s /\ n # c => DOMAIN outputs[n] = {}
  BY EmptySeq DEF ListsAt, Sending
<1>4. s \in Nodes /\ c \in Nodes /\ s # c
  BY DEF ListsAt
<1>5. QED
  BY <1>1, <1>2, <1>3, <1>4, Zenon DEF ListOwes, LaterOwed, AllOwed

LEMMA ListsOweNext ==
    ASSUME NEW s, NEW c, NEW d
    PROVE  ListsAt(s, c)' => ListsOwed(s, c, d)'
<1>1. ListsAt(s, c) => ListsOwed(s, c, d)
  BY ListsOwe
<1>2. QED
  BY <1>1, PTL

\* Nothing is owed by calls once the router has made all of them.
LEMMA CallsMade ==
    ASSUME StackOK, RoutingOK, Busy, Router = Len(stack), top.calls = {}, NEW d
    PROVE  ~CallOwes(d)
<1>1. DOMAIN stack = 1 .. Len(stack) /\ Len(stack) \in Nat
  BY StackDomain
<1>2. ASSUME NEW i \in DOMAIN stack, NEW x \in stack[i].calls PROVE x.event # "unplanned"
  <2>1. CASE i = Len(stack)
    BY <1>2, <2>1 DEF top
  <2>2. CASE i # Len(stack)
    BY <1>1, <2>2, <1>2 DEF RoutingOK, RouterKept
  <2>3. QED
    BY <2>1, <2>2
<1>3. QED
  BY <1>2 DEF CallOwes, Waiting

\* A message goes across to components and is passed on outward.
LEMMA RoutedOn ==
    ASSUME NEW src \in Nodes, NEW m, MessageOK(m), NEW d
    PROVE  ByMessage(src, m, d) <=>
              \/ \E r \in Across(<<src, m.port>>) : d = <<m.msg[2] \o r, m.msg[1]>>
              \/ ByPassing(src, m, d)
<1> SUFFICES ASSUME NEW hop, hop = <<src, m.port>>
             PROVE  ByMessage(src, m, d) <=>
                       \/ \E r \in Across(hop) : d = <<m.msg[2] \o r, m.msg[1]>>
                       \/ ByPassing(src, m, d)
  OBVIOUS
<1>1. hop \in Hops /\ hop[1] = src /\ hop[2] = m.port /\ m.msg[2] \in Seq(Hops)
  BY DEF Hops, MessageOK
<1> DEFINE At(p) == <<Parent(hop[1]), p>>
<1>2. \A u : u \in Routes[hop] <=>
         \/ u \in Across(hop)
         \/ \E p \in outward_ports(src, m.port) : \E r \in Routes[At(p)] : u = <<At(p)>> \o r
  <2>1. Routes[hop] = Across(hop)
              \cup UNION {{<<<<Parent(hop[1]), p>>>> \o r : r \in Routes[<<Parent(hop[1]), p>>]}
                            : p \in outward_ports(hop[1], hop[2])}
    BY <1>1, RoutesEquation
  <2> DEFINE P == outward_ports(hop[1], hop[2])
             S(p) == {<<At(p)>> \o r : r \in Routes[At(p)]}
             Q == {S(p) : p \in P}
  <2>2. Routes[hop] = Across(hop) \cup UNION Q
    BY <2>1
  <2>3. \A u : \A p : u \in S(p) <=> \E r \in Routes[At(p)] : u = <<At(p)>> \o r
    <3> HIDE DEF At
    <3> QED  BY Zenon
  <2>4. \A x : x \in Q <=> \E p \in P : x = S(p)
    <3> HIDE DEF S, P
    <3> QED  BY Zenon
  <2> HIDE DEF At, P, S, Q
  <2>5. ASSUME NEW u
        PROVE  u \in UNION Q <=> \E p \in P : \E r \in Routes[At(p)] : u = <<At(p)>> \o r
    <3>1. ASSUME u \in UNION Q
          PROVE  \E p \in P : \E r \in Routes[At(p)] : u = <<At(p)>> \o r
      <4>1. PICK x \in Q : u \in x
        BY <3>1, Zenon
      <4>2. PICK p \in P : x = S(p)
        BY <2>4, <4>1, Zenon
      <4>3. QED
        BY <2>3, <4>1, <4>2, Zenon
    <3>2. ASSUME NEW p \in P, NEW r \in Routes[At(p)], u = <<At(p)>> \o r
          PROVE  u \in UNION Q
      <4>1. u \in S(p) /\ S(p) \in Q
        BY <2>3, <2>4, <3>2, Zenon
      <4>2. QED
        BY <4>1, Zenon
    <3>3. QED
      BY <3>1, <3>2, Zenon
  <2>6. \A u : u \in Across(hop) \cup UNION Q <=> u \in Across(hop) \/ u \in UNION Q
    OBVIOUS
  <2>7. P = outward_ports(src, m.port)
    BY <1>1 DEF P
  <2>8. QED
    BY <2>2, <2>5, <2>6, <2>7, Zenon
<1>3. ASSUME NEW p \in outward_ports(src, m.port), NEW r \in Routes[At(p)]
      PROVE  Append(m.msg[2], At(p)) \o r = m.msg[2] \o (<<At(p)>> \o r)
  <2>1. At(p) \in Hops
    BY <1>1, OutwardHop
  <2>2. r \in Seq(Hops)
    BY <2>1, RoutesTyped
  <2> HIDE DEF At
  <2>3. <<At(p)>> \in Seq(Hops) /\ Append(m.msg[2], At(p)) = m.msg[2] \o <<At(p)>>
    BY <1>1, <2>1, OneHop
  <2>4. (m.msg[2] \o <<At(p)>>) \o r = m.msg[2] \o (<<At(p)>> \o r)
    BY <1>1, <2>2, <2>3, Associative
  <2>5. QED
    BY <2>3, <2>4
<1>4. ByPassing(src, m, d) <=>
         \E p \in outward_ports(src, m.port) : \E r \in Routes[At(p)] :
            d = <<m.msg[2] \o (<<At(p)>> \o r), m.msg[1]>>
  <2>1. ByPassing(src, m, d) <=>
           \E p \in outward_ports(src, m.port) : \E r \in Routes[At(p)] :
              d = <<Append(m.msg[2], At(p)) \o r, m.msg[1]>>
    BY <1>1 DEF ByPassing
  <2>2. ASSUME NEW p \in outward_ports(src, m.port), NEW r \in Routes[At(p)]
        PROVE  d = <<Append(m.msg[2], At(p)) \o r, m.msg[1]>>
                  <=> d = <<m.msg[2] \o (<<At(p)>> \o r), m.msg[1]>>
    BY <1>3
  <2> HIDE DEF At
  <2>3. QED
    BY <2>1, <2>2, Zenon
<1> HIDE DEF At
<1>5. ByMessage(src, m, d) <=> \E r \in Routes[hop] : d = <<m.msg[2] \o r, m.msg[1]>>
  BY DEF ByMessage
<1>6. ASSUME ByMessage(src, m, d)
      PROVE  (\E r \in Across(hop) : d = <<m.msg[2] \o r, m.msg[1]>>) \/ ByPassing(src, m, d)
  <2>1. PICK u \in Routes[hop] : d = <<m.msg[2] \o u, m.msg[1]>>
    BY <1>5, <1>6
  <2>2. CASE u \in Across(hop)
    BY <2>1, <2>2
  <2>3. CASE \E p \in outward_ports(src, m.port) : \E r \in Routes[At(p)] : u = <<At(p)>> \o r
    BY <1>4, <2>1, <2>3, Zenon
  <2>4. QED
    BY <1>2, <2>2, <2>3
<1>7. ASSUME NEW r \in Across(hop), d = <<m.msg[2] \o r, m.msg[1]>>
      PROVE  ByMessage(src, m, d)
  BY <1>2, <1>5, <1>7, Zenon
<1>8. ASSUME ByPassing(src, m, d) PROVE ByMessage(src, m, d)
  <2>1. PICK p \in outward_ports(src, m.port) : \E r \in Routes[At(p)] :
            d = <<m.msg[2] \o (<<At(p)>> \o r), m.msg[1]>>
    BY <1>4, <1>8
  <2>2. PICK r \in Routes[At(p)] : d = <<m.msg[2] \o (<<At(p)>> \o r), m.msg[1]>>
    BY <2>1
  <2>3. <<At(p)>> \o r \in Routes[hop]
    BY <1>2, Zenon
  <2>4. QED
    BY <1>5, <2>2, <2>3, Zenon
<1>9. QED
  BY <1>6, <1>7, <1>8, Zenon

\* The next message of the component is called for across and is then the one
\* to pass on; the one before has been passed on.
LEMMA OwedNextMessage ==
    ASSUME Progress, Unwound, Drained, RoutingOK, OwedKept, NEW c \in Composites, NextMessage(c)
    PROVE  RoutingOK' /\ OwedKept'
<1> SUFFICES ASSUME NEW k, k = Len(stack), NEW src, src = top.src, NEW j, j = top.routed + 1,
                    NEW m, m = outputs[src][j], NEW list, list = PassedOutward(c)[c]
             PROVE  RoutingOK' /\ OwedKept'
  OBVIOUS
<1>1. /\ Handling(c) /\ top.call.event = "planned" /\ top.call.node = c /\ top.calls = {}
      /\ top.routed < Len(outputs[src])
      /\ Busy /\ failure = "none" /\ StackOK /\ c \in Nodes
      /\ outputs' = PassedOutward(c)
      /\ UNCHANGED <<owed, failure>>
  BY DEF NextMessage, Handling, Progress, Unwound, Nodes
<1>2. /\ StackOK' /\ Busy' /\ Len(stack') = k /\ DOMAIN stack' = 1 .. k
      /\ \A i \in 1 .. k - 1 : stack'[i] = stack[i]
  BY <1>1, NextMessageStep
<1>3. DOMAIN stack = 1 .. k /\ k \in Nat /\ k \in DOMAIN stack
  BY <1>1, StackDomain
<1>4. stack'[k] = Frame(top.call, DstCalls(inner_dsts(src, m.port), m.msg), src, j)
  BY <1>3 DEF NextMessage, top
<1>5. /\ stack'[k].call = top.call /\ stack'[k].calls = DstCalls(inner_dsts(src, m.port), m.msg)
      /\ stack'[k].src = src /\ stack'[k].routed = j
  BY <1>4 DEF Frame
<1>6. /\ Router = k /\ Routing = top
      /\ src \in Nodes /\ Parent(src) = c /\ c # src
      /\ ListOK(list)
      /\ \A e \in DOMAIN list : \E i \in DOMAIN outputs[src] :
            i <= top.routed /\ Passes(c, list[e], outputs[src][i])
      /\ \A d : (\E e \in DOMAIN list : ByMessage(c, list[e], d))
                   <=> (\E e \in DOMAIN outputs[c] : ByMessage(c, outputs[c][e], d)) \/ PassingOwes(d)
  BY <1>1, PassingOn
<1>7. /\ DOMAIN outputs = Nodes /\ DOMAIN outputs' = Nodes
      /\ outputs'[c] = list /\ \A n \in Nodes : n # c => outputs'[n] = outputs[n]
  BY <1>1, PassedOn DEF Drained
<1>8. ListOK(outputs[src]) /\ top.routed \in Nat
  BY <1>1, <1>3, <1>6 DEF RoutingOK, Labelled, RouterKept, top
<1>9. j \in Nat /\ j > 0 /\ j \in DOMAIN outputs[src] /\ MessageOK(m)
  <2>1. DOMAIN outputs[src] = 1 .. Len(outputs[src]) /\ Len(outputs[src]) \in Nat
    BY <1>8, LenProperties DEF ListOK
  <2>2. j \in Nat /\ j > 0 /\ j \in DOMAIN outputs[src]
    BY <1>1, <1>8, <2>1
  <2>3. QED
    BY <1>8, <2>2 DEF ListOK
<1>10. \A i \in DOMAIN stack' : i \in DOMAIN stack /\ stack'[i].call = stack[i].call
  BY <1>2, <1>3, <1>5 DEF top
<1>11. RouterIs(k)' /\ Router' = k
  <2>1. RouterIs(k)
    BY <1>1, TopRouter DEF RoutingOK
  <2>2. RouterIs(k)'
    BY <1>2, <1>3, <1>10, <2>1 DEF RouterIs
  <2>3. QED
    BY <1>2, <2>2, RouterFoundNext DEF OneRouter
<1>12. /\ Routing'.call = top.call /\ Routing'.src = src /\ Routing'.routed = j
       /\ Routing'.calls = DstCalls(inner_dsts(src, m.port), m.msg)
       /\ Current' = m
  <2>1. Routing' = stack'[k]
    BY <1>11 DEF Routing
  <2>2. Current' = outputs'[src][j]
    BY <1>5, <2>1 DEF Current
  <2>3. QED
    BY <1>5, <1>6, <1>7, <2>1, <2>2
<1>13. ASSUME NEW x \in stack'[k].calls
       PROVE  \E dst \in inner_dsts(src, m.port) :
                 x = Call(dst[1], "unplanned", dst[2], m.msg) /\ dst \in Hops
  BY <1>5, <1>6, LinkedHops DEF DstCalls
<1>14. ASSUME NEW x \in stack'[k].calls
       PROVE  x = Call(x.node, "unplanned", x.port, m.msg) /\ x.port \in Ports
  BY <1>13 DEF Call, Hops
<1>15. \A i \in 1 .. k - 1 : stack[i].routed = 0 /\ \A x \in stack[i].calls : x.event # "unplanned"
  <2>1. \A i \in 1 .. k - 1 : i \in DOMAIN stack /\ i < Router /\ ~(i >= Router)
    BY <1>3, <1>6
  <2>2. QED
    BY <1>1, <2>1 DEF RoutingOK, RouterKept
<1>16. \A i \in DOMAIN stack' : i = k \/ (i \in 1 .. k - 1 /\ i < k)
  BY <1>2, <1>3
<1>17. HasRouter'
  BY <1>11 DEF HasRouter, RouterIs
<1>18. RouterKept'
  <2>1. RoutesOne'
    <3>1. \A x \in Routing'.calls : x.event = "unplanned"
      BY <1>5, <1>12, <1>14 DEF Call
    <3>2. QED
      BY <1>1, <1>6, <1>7, <1>9, <1>12, <3>1 DEF RoutesOne
  <2>2. \A i \in DOMAIN stack' : stack'[i].routed \in Nat /\ (i < Router' => stack'[i].routed = 0)
    BY <1>2, <1>3, <1>5, <1>9, <1>11, <1>15, <1>16
  <2>3. \A i \in DOMAIN stack' : \A x \in stack'[i].calls : x.event = "unplanned" =>
          /\ i >= Router' /\ Routing'.routed > 0
          /\ x = Call(x.node, "unplanned", x.port, Current'.msg) /\ x.port \in Ports
    <3>1. ASSUME NEW i \in DOMAIN stack', NEW x \in stack'[i].calls, x.event = "unplanned"
          PROVE  i = k
      BY <1>2, <1>15, <1>16, <3>1
    <3>2. k >= k
      BY <1>3
    <3>3. QED
      BY <1>9, <1>11, <1>12, <1>14, <3>1, <3>2
  <2>4. QED
    BY <2>1, <2>2, <2>3 DEF RouterKept
<1>19. Sending'
  <2>1. ASSUME NEW n \in Nodes, outputs'[n] # <<>> PROVE n \in {src, c}
    <3>1. CASE n = c
      BY <3>1
    <3>2. CASE n # c
      BY <1>1, <1>6, <1>7, <2>1, <3>2 DEF RoutingOK, Sending
    <3>3. QED
      BY <3>1, <3>2
  <2>2. \A x \in Routing'.calls : x.event = "unplanned"
    BY <1>5, <1>12, <1>14 DEF Call
  <2>3. QED
    BY <1>1, <1>2, <1>12, <2>1, <2>2 DEF Sending
<1>20. Labelled'
  <2>1. \A n \in Nodes : ListOK(outputs[n])
    BY DEF RoutingOK, Labelled
  <2>2. \A n \in Nodes : ListOK(outputs'[n])
    BY <1>6, <1>7, <2>1, Zenon
  <2>3. QED
    BY <2>2 DEF Labelled, ListOK
<1>21. Passed'
  <2>1. ASSUME NEW e \in DOMAIN outputs'[c]
        PROVE  \E i \in DOMAIN outputs'[src] : i < j /\ Passes(c, outputs'[c][e], outputs'[src][i])
    <3>1. PICK i \in DOMAIN outputs[src] : i <= top.routed /\ Passes(c, list[e], outputs[src][i])
      BY <1>6, <1>7, <2>1
    <3>2. i \in Nat
      <4>1. DOMAIN outputs[src] = 1 .. Len(outputs[src]) /\ Len(outputs[src]) \in Nat
        BY <1>8, LenProperties DEF ListOK
      <4>2. QED
        BY <4>1
    <3>3. i < j
      BY <1>8, <3>1, <3>2
    <3>4. QED
      BY <1>6, <1>7, <3>1, <3>3
  <2>2. QED
    BY <1>1, <1>12, <2>1 DEF Passed
<1>22. RoutingOK'
  BY <1>17, <1>18, <1>19, <1>20, <1>21 DEF RoutingOK
<1>23. ASSUME NEW d
       PROVE  CallOwes(d)' <=> \E r \in Across(<<src, m.port>>) : d = <<m.msg[2] \o r, m.msg[1]>>
  <2>1. Entered(k)' = <<>>
    <3>1. Entered(k)' = [i \in 1 .. k - k |-> <<stack'[k + i].call.node, stack'[k + i].call.port>>]
      BY <1>11 DEF Entered
    <3>2. 1 .. k - k = {}
      BY <1>3
    <3>3. QED
      BY <3>1, <3>2
  <2>2. Waiting(k)' = DstCalls(inner_dsts(src, m.port), m.msg)
    BY <1>2, <1>5 DEF Waiting
  <2>3. m.msg[2] \in Seq(Hops)
    BY <1>9 DEF MessageOK
  <2>4. m.msg[2] \o <<>> = m.msg[2]
    BY <2>3, ConcatEmptySeq
  <2>5. CallOwes(d)' <=> \E x \in DstCalls(inner_dsts(src, m.port), m.msg) : ByCall(k, x, d)'
    <3>1. ASSUME NEW i \in DOMAIN stack', NEW x \in Waiting(i)', x.event = "unplanned"
          PROVE  i = k
      <4>1. x \in stack'[i].calls
        BY DEF Waiting
      <4>2. QED
        BY <1>2, <1>15, <1>16, <3>1, <4>1
    <3>2. \A x \in DstCalls(inner_dsts(src, m.port), m.msg) : x.event = "unplanned"
      BY <1>5, <1>14 DEF Call
    <3>3. k \in DOMAIN stack'
      BY <1>2, <1>3
    <3>4. CallOwes(d)' <=> \E i \in DOMAIN stack' : \E x \in Waiting(i)' : x.event = "unplanned" /\ ByCall(i, x, d)'
      BY DEF CallOwes
    <3>5. QED
      BY <2>2, <3>1, <3>2, <3>3, <3>4, Zenon
  <2>6. \A x : ByCall(k, x, d)' <=> \E r \in IntoRoutes[<<x.node, x.port>>] : d = <<x.msg[2] \o <<>> \o r, x.msg[1]>>
    BY <2>1 DEF ByCall
  <2>7. \A dst \in inner_dsts(src, m.port) : <<dst[1], dst[2]>> = dst
    BY <1>6, LinkedHops DEF Hops
  <2>8. ASSUME NEW dst \in inner_dsts(src, m.port), NEW x, x = Call(dst[1], "unplanned", dst[2], m.msg)
        PROVE  ByCall(k, x, d)' <=> \E r \in IntoRoutes[dst] : d = <<m.msg[2] \o r, m.msg[1]>>
    <3>1. <<x.node, x.port>> = dst /\ x.msg = m.msg
      BY <2>7, <2>8 DEF Call
    <3>2. x.msg[2] \o <<>> = m.msg[2] /\ x.msg[1] = m.msg[1]
      BY <2>4, <3>1
    <3>3. ByCall(k, x, d)' <=> \E r \in IntoRoutes[dst] : d = <<x.msg[2] \o <<>> \o r, x.msg[1]>>
      BY <2>6, <3>1
    <3>4. QED
      BY <3>2, <3>3
  <2>9. \A r : r \in Across(<<src, m.port>>) <=> \E dst \in inner_dsts(src, m.port) : r \in IntoRoutes[dst]
    BY DEF Across
  <2>10. \A x : x \in DstCalls(inner_dsts(src, m.port), m.msg) <=>
            \E dst \in inner_dsts(src, m.port) : x = Call(dst[1], "unplanned", dst[2], m.msg)
    BY DEF DstCalls
  <2>11. ASSUME CallOwes(d)'
         PROVE  \E r \in Across(<<src, m.port>>) : d = <<m.msg[2] \o r, m.msg[1]>>
    <3>1. PICK x \in DstCalls(inner_dsts(src, m.port), m.msg) : ByCall(k, x, d)'
      BY <2>5, <2>11
    <3>2. PICK dst \in inner_dsts(src, m.port) : x = Call(dst[1], "unplanned", dst[2], m.msg)
      BY <2>10, <3>1
    <3>3. QED
      BY <2>8, <2>9, <3>1, <3>2, ZenonT(60)
  <2>12. ASSUME NEW r \in Across(<<src, m.port>>), d = <<m.msg[2] \o r, m.msg[1]>>
         PROVE  CallOwes(d)'
    <3>1. PICK dst \in inner_dsts(src, m.port) : r \in IntoRoutes[dst]
      BY <2>9
    <3>2. PICK x : x = Call(dst[1], "unplanned", dst[2], m.msg)
      OBVIOUS
    <3>3. ByCall(k, x, d)'
      BY <2>8, <2>12, <3>1, <3>2
    <3>4. QED
      BY <2>5, <2>10, <3>2, <3>3
  <2>13. QED
    BY <2>11, <2>12
<1>24. ASSUME NEW d PROVE PassingOwes(d)' <=> ByPassing(src, m, d)
  BY <1>2, <1>9, <1>12, ZenonT(60) DEF PassingOwes, ByPassing
<1>25. ASSUME NEW d PROVE ByMessage(src, m, d) <=> CallOwes(d)' \/ PassingOwes(d)'
  BY <1>6, <1>9, <1>23, <1>24, RoutedOn
<1>26. ASSUME NEW d PROVE Owes(d)' <=> Owes(d)
  <2>1. ListsAt(src, c) /\ ListsAt(src, c)'
    <3>1. ListsAt(src, c)
      BY <1>1, <1>6, <1>7 DEF ListsAt, RoutingOK
    <3>2. ListsAt(src, c)'
      BY <1>1, <1>2, <1>6, <1>7, <1>12, <1>22 DEF ListsAt, RoutingOK
    <3>3. QED
      BY <3>1, <3>2
  <2>2. ListOwes(d) <=> LaterOwed(src, d) \/ AllOwed(c, d)
    BY <2>1, ListsOwe DEF ListsOwed
  <2>3. ListOwes(d)' <=> LaterOwed(src, d)' \/ AllOwed(c, d)'
    <3>1. ListsOwed(src, c, d)'
      BY <2>1, ListsOweNext
    <3>2. QED
      BY <3>1 DEF ListsOwed
  <2>4. LaterOwed(src, d) <=> ByMessage(src, m, d) \/ LaterOwed(src, d)'
    <3>1. LaterOwed(src, d)' <=> \E i \in DOMAIN outputs[src] : i > j /\ ByMessage(src, outputs[src][i], d)
      BY <1>6, <1>7, <1>12 DEF LaterOwed, ByMessage
    <3>2. LaterOwed(src, d) <=> \E i \in DOMAIN outputs[src] : i > top.routed /\ ByMessage(src, outputs[src][i], d)
      BY <1>6 DEF LaterOwed
    <3>3. \A i \in DOMAIN outputs[src] : i > top.routed <=> i = j \/ i > j
      <4>1. DOMAIN outputs[src] = 1 .. Len(outputs[src]) /\ Len(outputs[src]) \in Nat
        BY <1>8, LenProperties DEF ListOK
      <4>2. QED
        BY <1>8, <4>1
    <3>4. QED
      BY <1>9, <3>1, <3>2, <3>3, Zenon
  <2>5. AllOwed(c, d)' <=> AllOwed(c, d) \/ PassingOwes(d)
    <3>1. AllOwed(c, d)' <=> \E e \in DOMAIN list : ByMessage(c, list[e], d)
      BY <1>7 DEF AllOwed, ByMessage
    <3>2. QED
      BY <1>6, <3>1 DEF AllOwed
  <2>6. ~CallOwes(d)
    BY <1>1, <1>6, CallsMade
  <2>7. QED
    BY <1>25, <2>2, <2>3, <2>4, <2>5, <2>6, Zenon DEF Owes
<1>27. OwedKept'
  BY <1>1, <1>26 DEF OwedKept
<1>28. QED
  BY <1>22, <1>27

-----------------------------------------------------------------------------
(* The end of a list, and all steps                                        *)

\* A composite node that has routed all messages leaves those it has collected
\* to the node it is in.
LEMMA OwedLeavePlanned ==
    ASSUME Progress, Unwound, Schedule, Drained, RoutingOK, OwedKept,
           NEW c \in Composites, Leave(c), top.call.event = "planned"
    PROVE  RoutingOK' /\ OwedKept'
<1> SUFFICES ASSUME NEW n, n = Len(stack), NEW k, k = n - 1, NEW src, src = top.src,
                    NEW list, list = PassedOutward(c)[c]
             PROVE  RoutingOK' /\ OwedKept'
  OBVIOUS
<1>1. /\ Handling(c) /\ top.call.node = c /\ top.calls = {} /\ Busy
      /\ top.routed = Len(outputs[src])
      /\ Resumed(SubSeq(stack, 1, Len(stack) - 1), top.call)
      /\ outputs' = [PassedOutward(c) EXCEPT ![src] = <<>>]
      /\ failure = "none" /\ StackOK /\ c \in Nodes
      /\ UNCHANGED <<owed, failure>>
  BY DEF Leave, Handling, Progress, Unwound, Nodes
<1>2. /\ k \in DOMAIN stack /\ StackOK' /\ Busy' /\ DOMAIN stack' = 1 .. k /\ Len(stack') = k
      /\ \A i \in 1 .. n - 2 : stack'[i] = stack[i]
      /\ stack'[k] = Frame(stack[k].call, stack[k].calls \ {top.call}, stack[k].src, stack[k].routed)
      /\ top.call \in stack[k].calls
      /\ Parent(c) = stack[k].call.node
  BY <1>1, LeaveStep
<1>3. DOMAIN stack = 1 .. n /\ n \in Nat /\ n \in DOMAIN stack /\ k \in Nat
      /\ k - 1 = n - 2 /\ k + 1 = n
  BY <1>1, <1>2, StackDomain
<1>4. stack[k].calls = {top.call}
  BY <1>2 DEF Schedule, PlannedDue
<1>5. /\ stack'[k].call = stack[k].call /\ stack'[k].calls = {}
      /\ stack'[k].src = stack[k].src /\ stack'[k].routed = stack[k].routed
  BY <1>2, <1>4 DEF Frame
<1>6. /\ Router = n /\ Routing = top
      /\ src \in Nodes /\ Parent(src) = c /\ c # src
      /\ ListOK(list)
      /\ \A d : (\E e \in DOMAIN list : ByMessage(c, list[e], d))
                   <=> (\E e \in DOMAIN outputs[c] : ByMessage(c, outputs[c][e], d)) \/ PassingOwes(d)
  BY <1>1, PassingOn
<1>7. /\ DOMAIN outputs = Nodes /\ DOMAIN outputs' = Nodes
      /\ outputs'[c] = list /\ outputs'[src] = <<>> /\ outputs'[Top] = <<>>
      /\ \A m \in Nodes : m # c /\ m # src => outputs'[m] = outputs[m] /\ outputs[m] = <<>>
  <2>1. /\ DOMAIN PassedOutward(c) = Nodes
        /\ \A m \in Nodes : m # c => PassedOutward(c)[m] = outputs[m]
        /\ PassedOutward(c)[Top] = <<>>
    BY <1>1, PassedOn
  <2>2. \A m \in Nodes : m # c /\ m # src => outputs[m] = <<>>
    BY <1>1, <1>6 DEF RoutingOK, Sending
  <2>3. QED
    BY <1>1, <1>6, <2>1, <2>2, TopIsNode DEF Drained
<1>8. ListOK(outputs[src]) /\ top.routed \in Nat
  BY <1>1, <1>3, <1>6 DEF RoutingOK, Labelled, RouterKept, top
<1>9. \A i \in DOMAIN stack' :
         /\ i \in DOMAIN stack /\ i < n
         /\ stack'[i].call = stack[i].call /\ stack'[i].routed = 0
         /\ stack[i].call.event # "unplanned"
         /\ \A x \in stack'[i].calls : x.event # "unplanned"
  <2>1. ASSUME NEW i \in DOMAIN stack'
        PROVE  /\ i \in DOMAIN stack /\ i < n
               /\ stack'[i].call = stack[i].call /\ stack'[i].routed = stack[i].routed
               /\ stack'[i].calls \subseteq stack[i].calls
    <3>1. CASE i = k
      <4>1. k \in DOMAIN stack /\ k < n
        BY <1>2, <1>3
      <4>2. QED
        BY <1>5, <3>1, <4>1
    <3>2. CASE i # k
      <4>1. i \in 1 .. n - 2 /\ i \in DOMAIN stack /\ i < n
        BY <1>2, <1>3, <3>2
      <4>2. QED
        BY <1>2, <4>1
    <3>3. QED
      BY <3>1, <3>2
  <2>2. RouterIs(n)
    BY <1>1, TopRouter DEF RoutingOK
  <2>3. \A i \in DOMAIN stack : i < n =>
           /\ ~(i > n) /\ ~(i >= n)
    BY <1>3
  <2>4. \A i \in DOMAIN stack : i < n =>
           stack[i].routed = 0 /\ stack[i].call.event # "unplanned"
           /\ \A x \in stack[i].calls : x.event # "unplanned"
    BY <1>1, <1>6, <2>2, <2>3 DEF RoutingOK, RouterKept, RouterIs
  <2>5. QED
    BY <2>1, <2>4
<1>10. RouterIs(k)' /\ Router' = k
  <2>1. \A i \in DOMAIN stack' : ~(i > k)
    BY <1>2, <1>3
  <2>2. k \in DOMAIN stack'
    BY <1>2, <1>3
  <2>3. RouterIs(k)'
    BY <1>9, <2>1, <2>2 DEF RouterIs
  <2>4. QED
    BY <1>2, <2>3, RouterFoundNext DEF OneRouter
<1>11. /\ Routing'.call = stack[k].call /\ Routing'.src = stack[k].src /\ Routing'.routed = 0
       /\ Routing'.calls = {}
  <2>1. Routing' = stack'[k] /\ k \in DOMAIN stack'
    BY <1>10 DEF Routing, RouterIs
  <2>2. QED
    BY <1>5, <1>9, <2>1
<1>12. HasRouter'
  BY <1>10 DEF HasRouter, RouterIs
<1>13. RouterKept'
  <2>1. RoutesOne'
    BY <1>11 DEF RoutesOne
  <2>2. QED
    BY <1>9, <2>1 DEF RouterKept
<1>14. Sending'
  <2>1. ASSUME NEW m \in Nodes, outputs'[m] # <<>>
        PROVE  /\ Routing'.call.event = "planned" /\ Routing'.call.node \in Composites
               /\ m = Routing'.src
    <3>1. m = c /\ c # Top
      BY <1>7, <2>1
    <3>2. stack[k].call.event = "planned" /\ stack[k].src = c
      <4>1. /\ stack[Len(stack) - 1].call.event = "planned"
            /\ stack[Len(stack) - 1].src = c
        BY <1>1, <3>1, SenderRouted
      <4>2. QED
        BY <4>1
    <3>3. Parent(c) \in Composites
      BY <1>1, <3>1, OnlyTop, ParentAndIndex DEF Parents
    <3>4. QED
      BY <1>2, <1>11, <3>1, <3>2, <3>3
  <2>2. QED
    BY <1>2, <1>11, <2>1 DEF Sending
<1>15. Labelled'
  <2>1. ListOK(<<>>)
    BY EmptySeq DEF ListOK
  <2>2. \A m \in Nodes : ListOK(outputs'[m])
    BY <1>6, <1>7, <2>1, Zenon
  <2>3. QED
    BY <2>2 DEF Labelled, ListOK
<1>16. Passed'
  <2>1. Parent(c) # c
    BY <1>1, NotOwnParent
  <2>2. \A m \in Nodes : m # c => outputs'[m] = <<>>
    BY <1>7
  <2>3. \A m \in Nodes : m # c => DOMAIN outputs'[m] = {}
    BY <2>2, EmptySeq
  <2>4. Routing'.call.node = Parent(c)
    BY <1>2, <1>11
  <2>5. QED
    BY <2>1, <2>3, <2>4 DEF Passed, Nodes
<1>17. RoutingOK'
  BY <1>12, <1>13, <1>14, <1>15, <1>16 DEF RoutingOK
<1>18. ASSUME NEW d PROVE Owes(d)' <=> Owes(d)
  <2>1. ~CallOwes(d)
    BY <1>1, <1>6, CallsMade
  <2>2. ~CallOwes(d)'
    BY <1>9 DEF CallOwes, Waiting
  <2>3. ~PassingOwes(d)'
    BY <1>11 DEF PassingOwes
  <2>4. ListOwes(d) <=> AllOwed(c, d)
    <3>1. ListsAt(src, c)
      BY <1>1, <1>6, <1>7 DEF ListsAt, RoutingOK
    <3>2. ~LaterOwed(src, d)
      <4>1. DOMAIN outputs[src] = 1 .. Len(outputs[src]) /\ Len(outputs[src]) \in Nat
        BY <1>8, LenProperties DEF ListOK
      <4>2. \A i \in DOMAIN outputs[src] : ~(i > Len(outputs[src]))
        BY <4>1
      <4>3. QED
        BY <1>1, <1>6, <4>2 DEF LaterOwed
    <3>3. QED
      BY <3>1, <3>2, ListsOwe DEF ListsOwed
  <2>5. ListOwes(d)' <=> \E e \in DOMAIN list : ByMessage(c, list[e], d)
    <3>1. \A m : SentBy(m)' = 0
      BY <1>11 DEF SentBy
    <3>2. ListOwes(d)' <=> \E m \in Nodes : \E e \in DOMAIN outputs'[m] : e > 0 /\ ByMessage(m, outputs'[m][e], d)
      BY <3>1 DEF ListOwes, ByMessage
    <3>3. \A m \in Nodes : m # c => DOMAIN outputs'[m] = {}
      BY <1>7, EmptySeq
    <3>4. \A e \in DOMAIN list : e > 0
      <4>1. DOMAIN list = 1 .. Len(list) /\ Len(list) \in Nat
        BY <1>6, LenProperties DEF ListOK
      <4>2. QED
        BY <4>1
    <3>5. ASSUME ListOwes(d)' PROVE \E e \in DOMAIN list : ByMessage(c, list[e], d)
      <4>1. PICK m \in Nodes : \E e \in DOMAIN outputs'[m] : ByMessage(m, outputs'[m][e], d)
        BY <3>2, <3>5
      <4>2. m = c
        BY <3>3, <4>1
      <4>3. QED
        BY <1>7, <4>1, <4>2
    <3>6. ASSUME NEW e \in DOMAIN list, ByMessage(c, list[e], d) PROVE ListOwes(d)'
      BY <1>1, <1>7, <3>2, <3>4, <3>6
    <3>7. QED
      BY <3>5, <3>6
  <2>6. QED
    BY <1>6, <2>1, <2>2, <2>3, <2>4, <2>5, Zenon DEF Owes, AllOwed
<1>19. OwedKept'
  BY <1>1, <1>18 DEF OwedKept
<1>20. QED
  BY <1>17, <1>19

\* An exception leaves the lists as they are.
LEMMA OwedAbort ==
    ASSUME RoutingOK, NEW reason \in {"node", "internal"}, Abort(reason)
    PROVE  RoutingOK' /\ OwedKept'
<1>1. stack' = <<>> /\ failure' # "none" /\ UNCHANGED outputs
  BY DEF Abort, nodeVars
<1>2. ~Busy'
  BY <1>1 DEF Busy
<1>3. HasRouter' /\ RouterKept' /\ Sending' /\ Passed' /\ OwedKept'
  BY <1>1, <1>2 DEF HasRouter, RouterKept, Sending, Passed, OwedKept
<1>4. Labelled'
  BY <1>1 DEF RoutingOK, Labelled, ListOK
<1>5. QED
  BY <1>3, <1>4 DEF RoutingOK

\* At the start nothing is owed, and every step keeps account of what is.
LEMMA OwedInit == Init => RoutingOK /\ OwedKept
<1> SUFFICES ASSUME Init PROVE RoutingOK /\ OwedKept
  OBVIOUS
<1>1. stack = <<>> /\ owed = {} /\ \A n \in Nodes : outputs[n] = <<>>
  BY DEF Init
<1>2. StackOK
  BY ProgressInit DEF Progress
<1>3. DOMAIN stack = {}
  BY <1>1, EmptySeq
<1>4. Quiet
  BY <1>1, <1>3 DEF Quiet
<1>5. QED
  BY <1>1, <1>2, <1>4, QuietRouting DEF NothingOwed, OwedKept

LEMMA OwedStep ==
    Progress /\ Unwound /\ Schedule /\ Lives /\ Drained /\ RoutingOK /\ OwedKept /\ [Next]_vars
        => RoutingOK' /\ OwedKept'
<1> SUFFICES ASSUME Progress, Unwound, Schedule, Lives, Drained, RoutingOK, OwedKept, [Next]_vars
             PROVE  RoutingOK' /\ OwedKept'
  OBVIOUS
<1>1. CASE process_initialization_event \/ process_planned_event \/ process_finalization_event
  BY <1>1, OwedBegin
     DEF process_initialization_event, process_planned_event, process_finalization_event
<1>2. CASE End
  BY <1>2, OwedEnd
<1>3. ASSUME NEW n \in Leaves, LeafInitialization(n) \/ LeafPlannedEvent(n)
                \/ LeafUnplannedEvent(n) \/ LeafFinalization(n)
      PROVE  RoutingOK' /\ OwedKept'
  BY <1>3, OwedLeafQuiet, OwedLeafPlanned, OwedLeafUnplanned
<1>4. ASSUME NEW n \in Leaves, LeafThrows(n) PROVE RoutingOK' /\ OwedKept'
  <2>1. \E reason \in {"node", "internal"} : Abort(reason)
    BY <1>4 DEF LeafThrows
  <2>2. QED
    BY <2>1, OwedAbort
<1>5. ASSUME NEW c \in Composites, Enter(c) PROVE RoutingOK' /\ OwedKept'
  <2>1. CASE NextCall.event = "unplanned"
    BY <1>5, <2>1, OwedEnter
  <2>2. CASE NextCall.event # "unplanned"
    BY <1>5, <2>2, OwedEnterQuiet
  <2>3. QED
    BY <2>1, <2>2
<1>6. ASSUME NEW c \in Composites, NextMessage(c) PROVE RoutingOK' /\ OwedKept'
  BY <1>6, OwedNextMessage
<1>7. ASSUME NEW c \in Composites, Leave(c) PROVE RoutingOK' /\ OwedKept'
  <2>1. CASE top.call.event = "unplanned"
    BY <1>7, <2>1, OwedLeave
  <2>2. CASE top.call.event = "planned"
    BY <1>7, <2>2, OwedLeavePlanned
  <2>3. CASE top.call.event \notin {"planned", "unplanned"}
    BY <1>7, <2>3, OwedLeaveQuiet
  <2>4. QED
    BY <2>1, <2>2, <2>3
<1>8. CASE UNCHANGED vars
  <2>1. UNCHANGED <<stack, outputs, owed, failure>>
    BY <1>8 DEF vars, nodeVars
  <2>2. /\ Router' = Router /\ (Busy' <=> Busy)
        /\ \A q : RouterIs(q)' <=> RouterIs(q)
    BY <2>1 DEF RouterIs, Busy, Router
  <2>3. Routing' = Routing /\ Current' = Current
    BY <2>1, <2>2 DEF Routing, Current
  <2>4. RoutingOK'
    <3>1. HasRouter'
      BY <2>1, <2>2 DEF RoutingOK, HasRouter
    <3>2. RouterKept'
      BY <2>1, <2>2, <2>3 DEF RoutingOK, RouterKept, RoutesOne
    <3>3. Sending' /\ Passed'
      BY <2>1, <2>2, <2>3 DEF RoutingOK, Sending, Passed
    <3>4. Labelled'
      BY <2>1 DEF RoutingOK, Labelled, ListOK
    <3>5. QED
      BY <3>1, <3>2, <3>3, <3>4 DEF RoutingOK
  <2>5. ASSUME NEW d PROVE Owes(d)' <=> Owes(d)
    <3>1. \A i : Waiting(i)' = Waiting(i) /\ Entered(i)' = Entered(i)
      BY <2>1, <2>2 DEF Waiting, Entered
    <3>2. CallOwes(d)' <=> CallOwes(d)
      BY <2>1, <3>1 DEF CallOwes, ByCall
    <3>3. QED
      <4>1. CASE Busy
        BY <2>1, <2>2, <2>3, <3>2, <4>1, RestOwed DEF Owes
      <4>2. CASE ~Busy
        <5>1. \A n : SentBy(n)' = SentBy(n)
          BY <2>2, <4>2 DEF SentBy
        <5>2. ListOwes(d)' <=> ListOwes(d)
          BY <2>1, <5>1 DEF ListOwes, ByMessage
        <5>3. QED
          BY <2>2, <3>2, <4>2, <5>2 DEF Owes, PassingOwes
      <4>3. QED
        BY <4>1, <4>2
  <2>6. QED
    BY <2>1, <2>4, <2>5 DEF OwedKept
<1>9. QED
  BY <1>1, <1>2, <1>3, <1>4, <1>5, <1>6, <1>7, <1>8, StepCases, Zenon

-----------------------------------------------------------------------------
(* How far the initialization of the nodes has come                        *)

\* The components of an initialized node are initialized; while a node is being
\* initialized, the components that are not yet are still to be called.
InitializedBelow ==
    \A c \in Composites : life[c] # "new" => \A n \in Nodes : Parent(n) = c => life[n] # "new"
InitializedSoFar ==
    \A i \in DOMAIN stack : stack[i].call.event = "initialization" =>
        \A n \in Nodes : Parent(n) = stack[i].call.node =>
            life[n] # "new" \/ Call(n, "initialization", 0, <<>>) \in stack[i].calls

\* Initialization takes place all at once, and before anything else.
OneKind ==
    \A i \in DOMAIN stack :
        stack[i].call.event = "initialization" <=> stack[1].call.event = "initialization"
TopBegun ==
    failure = "none" /\ started /\ life[Top] = "new" =>
        Busy /\ stack[1].call.event = "initialization"

Begun == InitializedBelow /\ InitializedSoFar /\ OneKind /\ TopBegun

\* Nothing is initialized at the start.
LEMMA BegunInit == Init => Begun
<1> SUFFICES ASSUME Init PROVE Begun
  OBVIOUS
<1>1. DOMAIN stack = {} /\ ~started /\ \A n \in Nodes : life[n] = "new"
  BY DEF Init
<1>2. QED
  BY <1>1 DEF Begun, InitializedBelow, InitializedSoFar, OneKind, TopBegun, Nodes

\* A handler returns: its node, and all below it, are initialized if it was for that.
LEMMA BegunReturn ==
    ASSUME Progress, Lives, Begun, UNCHANGED <<failure, flags>>,
           NEW n \in Nodes, NEW k, NEW x, Returns(n, k, x),
           n \in Composites /\ x.event = "initialization" =>
              \A m \in Nodes : Parent(m) = n => life[m] # "new"
    PROVE  Begun'
<1>1. /\ x.event \in Events /\ LifeAllows(x) /\ x.node = n
      /\ \A m \in Nodes : m # n => life'[m] = life[m]
      /\ life'[n] = Stage(n, x.event)
  <2>1. x.node = n
    BY DEF Returns
  <2>2. QED
    BY <2>1, ReturnChanges
<1>2. /\ x.event = "initialization" => life[n] = "new" /\ life'[n] = "initialized"
      /\ x.event = "finalization" => life'[n] = "finalized"
      /\ x.event \in {"planned", "unplanned"} => life'[n] = life[n]
  BY <1>1 DEF LifeAllows, Stage
<1>3. \A m \in Nodes : life[m] # "new" => life'[m] # "new"
  BY <1>1, <1>2 DEF Events
<1>4. \A i \in DOMAIN stack' :
         /\ i \in DOMAIN stack /\ stack'[i].call = stack[i].call
         /\ \A y \in stack[i].calls : y = x \/ y \in stack'[i].calls
  BY ReturnChanges
<1>5. 1 \in DOMAIN stack' /\ Busy'
  <2>1. k \in Nat /\ k >= 1 /\ DOMAIN stack' = 1 .. k
    BY StackDomain DEF Progress, Returns
  <2>2. DOMAIN stack' # {}
    BY <2>1
  <2>3. stack' # <<>>
    BY <2>2
  <2>4. QED
    BY <2>1, <2>3 DEF Busy
<1>6. InitializedBelow'
  <2>1. ASSUME NEW c \in Composites, life'[c] # "new", NEW m \in Nodes, Parent(m) = c
        PROVE  life'[m] # "new"
    <3>1. CASE life[c] # "new"
      BY <1>3, <2>1, <3>1 DEF Begun, InitializedBelow
    <3>2. CASE life[c] = "new"
      <4>1. c = n /\ x.event \in {"initialization", "finalization"}
        BY <1>1, <1>2, <2>1, <3>2 DEF Nodes, Events
      <4>2. life[m] # "new"
        BY <2>1, <4>1 DEF Returns
      <4>3. QED
        BY <1>3, <4>2
    <3>3. QED
      BY <3>1, <3>2
  <2>2. QED
    BY <2>1 DEF InitializedBelow
<1>7. InitializedSoFar'
  <2>1. ASSUME NEW i \in DOMAIN stack', stack'[i].call.event = "initialization",
               NEW m \in Nodes, Parent(m) = stack'[i].call.node
        PROVE  life'[m] # "new" \/ Call(m, "initialization", 0, <<>>) \in stack'[i].calls
    <3>1. life[m] # "new" \/ Call(m, "initialization", 0, <<>>) \in stack[i].calls
      BY <1>4, <2>1 DEF Begun, InitializedSoFar
    <3>2. CASE life[m] # "new"
      BY <1>3, <3>2
    <3>3. CASE Call(m, "initialization", 0, <<>>) = x
      BY <1>1, <1>2, <3>3 DEF Call
    <3>4. CASE Call(m, "initialization", 0, <<>>) \in stack[i].calls /\ Call(m, "initialization", 0, <<>>) # x
      BY <1>4, <2>1, <3>4
    <3>5. QED
      BY <3>1, <3>2, <3>3, <3>4
  <2>2. QED
    BY <2>1 DEF InitializedSoFar
<1>8. OneKind'
  BY <1>4, <1>5 DEF Begun, OneKind
<1>9. TopBegun'
  <2>1. UNCHANGED <<failure, started>> /\ Top \in Nodes
    BY TopAssumption DEF flags
  <2>2. stack'[1].call = stack[1].call
    BY <1>4, <1>5
  <2>3. QED
    BY <1>3, <1>5, <2>1, <2>2 DEF Begun, TopBegun
<1>10. QED
  BY <1>6, <1>7, <1>8, <1>9 DEF Begun

LEMMA BegunLeave ==
    ASSUME Progress, Lives, Begun, UNCHANGED flags, NEW c \in Composites, Leave(c)
    PROVE  Begun'
<1>1. Returns(c, Len(stack) - 1, top.call) /\ c \in Nodes /\ UNCHANGED failure
  BY CompositeReturns DEF Nodes, Leave
<1>2. top.call.node = c /\ top.calls = {} /\ Len(stack) \in DOMAIN stack
  BY StackDomain DEF Leave, Handling, Progress
<1>3. top.call.event = "initialization" => \A m \in Nodes : Parent(m) = c => life[m] # "new"
  BY <1>2 DEF Begun, InitializedSoFar, top
<1>4. QED
  BY <1>1, <1>3, BegunReturn

\* A composite node starts by calling all its components.
LEMMA BegunEnter ==
    ASSUME Progress, Unwound, Schedule, Lives, Begun, UNCHANGED flags,
           NEW c \in Composites, Enter(c)
    PROVE  Begun'
<1> DEFINE x0 == NextCall
           frame == EventFrame(x0)
           n == Len(stack)
<1>1. QueueAllows(x0) /\ LifeAllows(x0)
  BY EntryAllowed
<1>2. /\ Busy /\ x0 \in top.calls /\ x0.node = c
      /\ Parent(c) = top.call.node
      /\ FrameOK(frame) /\ frame.call = x0
      /\ Busy' /\ DOMAIN stack' = 1 .. n + 1
      /\ \A i \in 1 .. n : stack'[i] = stack[i]
      /\ stack'[n + 1] = frame
      /\ UNCHANGED <<t, nodeVars, failure>>
  BY <1>1, EnterStep DEF Progress
<1>3. DOMAIN stack = 1 .. n /\ n \in Nat /\ n > 0 /\ n \in DOMAIN stack /\ 1 \in DOMAIN stack
  BY <1>2, StackDomain DEF Progress
<1>4. UNCHANGED <<life, failure, started>>
  BY <1>2 DEF nodeVars, flags
<1>5. \A i \in DOMAIN stack' : i = n + 1 \/ (i \in DOMAIN stack /\ stack'[i] = stack[i])
  BY <1>2, <1>3
<1>6. stack'[1] = stack[1]
  BY <1>2, <1>3
<1>7. ASSUME x0.event = "initialization", NEW m \in Nodes, Parent(m) = c
      PROVE  Call(m, "initialization", 0, <<>>) \in frame.calls
  <2>1. Index(m) \in DOMAIN Children[c] /\ Children[c][Index(m)] = m
    BY <1>7, ParentAndIndex
  <2>2. frame.calls = EventForAll(c, "initialization")
    BY <1>2, <1>7 DEF EventFrame, Frame
  <2>3. QED
    BY <2>1, <2>2 DEF EventForAll
<1>8. InitializedSoFar'
  <2>1. ASSUME NEW i \in DOMAIN stack', stack'[i].call.event = "initialization",
               NEW m \in Nodes, Parent(m) = stack'[i].call.node
        PROVE  life[m] # "new" \/ Call(m, "initialization", 0, <<>>) \in stack'[i].calls
    <3>1. CASE i = n + 1
      BY <1>2, <1>7, <2>1, <3>1
    <3>2. CASE i \in DOMAIN stack /\ stack'[i] = stack[i]
      BY <2>1, <3>2 DEF Begun, InitializedSoFar
    <3>3. QED
      BY <1>5, <3>1, <3>2
  <2>2. QED
    BY <1>4, <2>1 DEF InitializedSoFar
<1>9. x0.event = "initialization" <=> stack[1].call.event = "initialization"
  <2>1. FrameOK(top) /\ (top.call.event = "initialization" <=> stack[1].call.event = "initialization")
    BY <1>3 DEF Progress, StackOK, Begun, OneKind, top
  <2>2. x0.event = "initialization" <=> top.call.event = "initialization"
    BY <1>2, <2>1 DEF FrameOK, Events, Call
  <2>3. QED
    BY <2>1, <2>2
<1>10. OneKind'
  <2>1. ASSUME NEW i \in DOMAIN stack'
        PROVE  stack'[i].call.event = "initialization" <=> stack[1].call.event = "initialization"
    BY <1>2, <1>5, <1>9 DEF Begun, OneKind
  <2>2. QED
    BY <1>6, <2>1 DEF OneKind
<1>11. InitializedBelow' /\ TopBegun'
  BY <1>2, <1>4, <1>6 DEF Begun, InitializedBelow, TopBegun
<1>12. QED
  BY <1>8, <1>10, <1>11 DEF Begun

\* The other steps initialize nothing.
LEMMA BegunNextMessage ==
    ASSUME Progress, Begun, UNCHANGED flags, NEW c \in Composites, NextMessage(c)
    PROVE  Begun'
<1> DEFINE n == Len(stack)
<1>1. /\ Busy /\ Busy' /\ top.call.event = "planned"
      /\ DOMAIN stack' = 1 .. n
      /\ \A i \in 1 .. n - 1 : stack'[i] = stack[i]
      /\ stack'[n].call = top.call
  BY NextMessageStep DEF Progress
<1>2. DOMAIN stack = 1 .. n /\ n \in Nat /\ n > 0 /\ 1 \in DOMAIN stack
  BY <1>1, StackDomain DEF Progress
<1>3. UNCHANGED <<life, failure, started>>
  BY DEF NextMessage, flags
<1>4. \A i \in DOMAIN stack' :
         i \in DOMAIN stack /\ stack'[i].call = stack[i].call /\ (i = n \/ stack'[i] = stack[i])
  BY <1>1, <1>2 DEF top
<1>5. InitializedSoFar'
  <2>1. \A i \in DOMAIN stack' : stack'[i].call.event = "initialization" => stack'[i] = stack[i]
    BY <1>1, <1>4
  <2>2. QED
    BY <1>3, <1>4, <2>1 DEF Begun, InitializedSoFar
<1>6. stack'[1].call = stack[1].call
  BY <1>1, <1>2, <1>4
<1>7. OneKind'
  BY <1>4, <1>6 DEF Begun, OneKind
<1>8. InitializedBelow' /\ TopBegun'
  BY <1>1, <1>3, <1>6 DEF Begun, InitializedBelow, TopBegun
<1>9. QED
  BY <1>5, <1>7, <1>8 DEF Begun

LEMMA BegunBegin ==
    ASSUME Progress, Lives, Begun, NEW event \in {"initialization", "planned", "finalization"},
           Begin(event), event # "initialization" => UNCHANGED started
    PROVE  Begun'
<1>1. /\ Busy' /\ DOMAIN stack' = {1}
      /\ stack'[1] = Frame(Call(Root, event, 0, <<>>), {Call(Top, event, 0, <<>>)}, Root, 0)
  BY BeginStep DEF Events
<1>2. /\ UNCHANGED <<life, failure>> /\ ~Busy /\ failure = "none"
  BY DEF Begin, nodeVars
<1>3. /\ stack'[1].call.node = Root /\ stack'[1].call.event = event
      /\ stack'[1].calls = {Call(Top, event, 0, <<>>)}
  BY <1>1 DEF Frame, Call
<1>4. InitializedSoFar'
  <2>1. ASSUME NEW i \in DOMAIN stack', stack'[i].call.event = "initialization",
               NEW m \in Nodes, Parent(m) = stack'[i].call.node
        PROVE  Call(m, "initialization", 0, <<>>) \in stack'[i].calls
    <3>1. i = 1 /\ event = "initialization" /\ Parent(m) = Root
      BY <1>1, <1>3, <2>1
    <3>2. m = Top
      BY <3>1, OnlyTop
    <3>3. QED
      BY <1>3, <3>1, <3>2
  <2>2. QED
    BY <2>1 DEF InitializedSoFar
<1>5. OneKind' /\ InitializedBelow'
  BY <1>1, <1>2 DEF OneKind, Begun, InitializedBelow
<1>6. TopBegun'
  <2>1. CASE event = "initialization"
    BY <1>1, <1>3, <2>1 DEF TopBegun
  <2>2. CASE event # "initialization"
    BY <1>1, <1>2, <2>2 DEF TopBegun, Begun
  <2>3. QED
    BY <2>1, <2>2
<1>7. QED
  BY <1>4, <1>5, <1>6 DEF Begun

\* The frame of the simulation itself is the only one when its handler is done.
LEMMA RootAlone ==
    ASSUME StackOK, Handling(Root)
    PROVE  Len(stack) = 1 /\ DOMAIN stack = {1} /\ stack[1] = top
<1>1. DOMAIN stack = 1 .. Len(stack) /\ Len(stack) \in Nat /\ Len(stack) > 0
  BY StackDomain DEF Handling
<1>2. Root \notin Composites
  BY TreeAssumption DEF Nodes
<1>3. ~(Len(stack) > 1)
  BY <1>1, <1>2 DEF StackOK, Handling, top
<1>4. QED
  BY <1>1, <1>3 DEF top

LEMMA BegunEnd ==
    ASSUME Progress, Begun, Unwound, End
    PROVE  Begun'
<1>1. /\ stack' = <<>> /\ UNCHANGED <<life, failure, started>> /\ Handling(Root)
      /\ failure = "none"
  BY DEF End, nodeVars, Unwound, Handling
<1>2. DOMAIN stack' = {} /\ ~Busy'
  BY <1>1, EmptyStack
<1>3. 1 \in DOMAIN stack /\ stack[1] = top /\ top.call.node = Root /\ top.calls = {}
  BY <1>1, RootAlone DEF Progress, Handling
<1>4. Top \in Nodes /\ Parent(Top) = Root
  BY TopIsNode
<1>5. started => life[Top] # "new"
  BY <1>1, <1>3, <1>4 DEF Begun, TopBegun, InitializedSoFar
<1>6. QED
  BY <1>1, <1>2, <1>5
  DEF Begun, InitializedBelow, InitializedSoFar, OneKind, TopBegun

LEMMA BegunStep ==
    Progress /\ Unwound /\ Schedule /\ Lives /\ Begun /\ [Next]_vars => Begun'
<1> SUFFICES ASSUME Progress, Unwound, Schedule, Lives, Begun, [Next]_vars PROVE Begun'
  OBVIOUS
<1>1. CASE process_initialization_event
  BY <1>1, BegunBegin DEF process_initialization_event
<1>2. CASE process_planned_event
  BY <1>2, BegunBegin DEF process_planned_event
<1>3. CASE process_finalization_event
  BY <1>3, BegunBegin DEF process_finalization_event
<1>4. CASE End
  BY <1>4, BegunEnd
<1>5. ASSUME NEW n \in Leaves, UNCHANGED flags,
             \/ LeafInitialization(n) \/ LeafPlannedEvent(n)
             \/ LeafUnplannedEvent(n) \/ LeafFinalization(n)
      PROVE  Begun'
  <2>1. n \in Nodes /\ n \notin Composites /\ UNCHANGED failure
    BY <1>5, TreeAssumption DEF Nodes, LeafEvent,
       LeafInitialization, LeafPlannedEvent, LeafUnplannedEvent, LeafFinalization
  <2>2. Returns(n, Len(stack), NextCall)
    BY <1>5, LeafReturns
  <2>3. QED
    BY <1>5, <2>1, <2>2, BegunReturn
<1>6. ASSUME NEW n \in Leaves, UNCHANGED flags, LeafThrows(n) PROVE Begun'
  <2>1. UNCHANGED life /\ failure' # "none" /\ stack' = <<>>
    BY <1>6 DEF LeafThrows, Abort, nodeVars
  <2>2. DOMAIN stack' = {}
    BY <2>1, EmptyStack
  <2>3. QED
    BY <2>1, <2>2 DEF Begun, InitializedBelow, InitializedSoFar, OneKind, TopBegun
<1>7. ASSUME NEW c \in Composites, UNCHANGED flags, Enter(c) PROVE Begun'
  BY <1>7, BegunEnter
<1>8. ASSUME NEW c \in Composites, UNCHANGED flags, NextMessage(c) PROVE Begun'
  BY <1>8, BegunNextMessage
<1>9. ASSUME NEW c \in Composites, UNCHANGED flags, Leave(c) PROVE Begun'
  BY <1>9, BegunLeave
<1>10. CASE UNCHANGED vars
  BY <1>10 DEF vars, nodeVars, Begun, InitializedBelow, InitializedSoFar, OneKind, TopBegun, Busy
<1>11. CASE Next
  BY <1>1, <1>2, <1>3, <1>4, <1>5, <1>6, <1>7, <1>8, <1>9, <1>10, <1>11, StepCases
<1>12. QED
  BY <1>10, <1>11

\* If the topmost node is initialized, all nodes of the tree are.
LEMMA AllStarted ==
    ASSUME InitializedBelow, life[Top] # "new", NEW n \in Nodes
    PROVE  life[n] # "new"
<1> DEFINE Good == {m \in Nodes : life[m] # "new"}
<1>1. ASSUME NEW m \in Nodes, Parent(m) = Root \/ Parent(m) \in Good PROVE m \in Good
  <2>1. Parent(m) \in Parents
    BY ParentAndIndex
  <2>2. CASE Parent(m) = Root
    BY <2>2, OnlyTop
  <2>3. CASE Parent(m) # Root
    BY <1>1, <2>1, <2>3 DEF InitializedBelow, Parents
  <2>4. QED
    BY <2>2, <2>3
<1>2. Nodes \subseteq Good
  <2> HIDE DEF Good
  <2> QED  BY <1>1, TreeInduction
<1>3. QED
  BY <1>2

\* Once the simulation has started and is not just initializing its nodes, all of
\* them are initialized.
LEMMA AllBegun ==
    ASSUME Begun, failure = "none", started,
           ~Busy \/ \E i \in DOMAIN stack : stack[i].call.event # "initialization",
           NEW n \in Nodes
    PROVE  life[n] # "new"
<1>1. life[Top] # "new"
  BY DEF Begun, TopBegun, OneKind
<1>2. QED
  BY <1>1, AllStarted DEF Begun

-----------------------------------------------------------------------------
(* The end of the simulated period                                         *)

\* What the queues of the tree hold for the leaves.
LEMMA LeafPlanned ==
    /\ DOMAIN LeafTimes = {n \in Leaves : n \in DOMAIN due[Parent(n)]}
    /\ \A n \in DOMAIN LeafTimes : LeafTimes[n] = due[Parent(n)][n]
  BY DEF LeafTimes

\* At the end of an event of the simulation, all composite nodes are in sync.
LEMMA AllInSync ==
    ASSUME Progress, Schedule, Handling(Root), failure = "none", NEW c \in Composites
    PROVE  InSync(c)
<1>1. DOMAIN stack = {1} /\ stack[1].call.node = Root
  BY RootAlone DEF Progress, Handling
<1>2. ~Replans(c)
  BY <1>1, TreeAssumption DEF Replans, Nodes
<1>3. QED
  BY <1>2 DEF Schedule, OthersInSync

\* If no event is planned for the topmost node, none is for any leaf.
LEMMA NothingPlanned ==
    ASSUME TypeOK, NothingMissed, \A c \in Composites : InSync(c), Earliest(due[Root]) = {}
    PROVE  LeafTimes = EmptyTimetable
<1> DEFINE Good == {n \in Nodes : /\ n \notin DOMAIN due[Parent(n)]
                                  /\ n \in Composites => DOMAIN due[n] = {}}
<1>1. \A c \in Parents : Earliest(due[c]) = {} <=> DOMAIN due[c] = {}
  <2>1. ASSUME NEW c \in Parents PROVE Timed(due[c]) /\ NoneBefore(due[c], t) /\ t \in Int
    BY <2>1 DEF TypeOK, Timed, NothingMissed
  <2>2. QED
    BY <2>1, EarliestExists
<1>2. DOMAIN due[Root] = {}
  BY <1>1 DEF Parents
<1>3. ASSUME NEW n \in Nodes, Parent(n) = Root \/ Parent(n) \in Good
      PROVE  n \in Good
  <2>1. Parent(n) \in Parents
    BY ParentAndIndex
  <2>2. DOMAIN due[Parent(n)] = {}
    BY <1>2, <1>3, <2>1 DEF Parents
  <2>3. ASSUME n \in Composites PROVE DOMAIN due[n] = {}
    <3>1. TimesOf(due[Parent(n)], {n}) = {}
      BY <2>2 DEF TimesOf
    <3>2. Earliest(due[n]) = {}
      BY <2>3, <3>1 DEF InSync
    <3>3. QED
      BY <1>1, <2>3, <3>2 DEF Parents
  <2>4. QED
    BY <2>2, <2>3
<1>4. Nodes \subseteq Good
  <2> HIDE DEF Good
  <2> QED  BY <1>3, TreeInduction
<1>5. {n \in Leaves : n \in DOMAIN due[Parent(n)]} = {}
  BY <1>4 DEF Nodes
<1>6. QED
  BY <1>5 DEF LeafTimes, EmptyTimetable

\* Finalization begins at the end time, or when it may because nothing is planned.
AtEnd == t >= EndT \/ (LeafTimes = EmptyTimetable /\ CanEndEarly)
FinishingOver == finishing => AtEnd

\* The simulation is not finishing at the start, and finalization moves no time and
\* plans no event.
LEMMA FinishingInit == Init => FinishingOver
  BY DEF Init, FinishingOver

\* The leaves' plans are part of the queues.
LEMMA SameTimes == UNCHANGED due => UNCHANGED LeafTimes
  BY DEF LeafTimes

LEMMA FinishingStep ==
    Progress /\ Unwound /\ Schedule /\ FinishingOver /\ [Next]_vars => FinishingOver'
<1> SUFFICES ASSUME Progress, Unwound, Schedule, FinishingOver, [Next]_vars PROVE FinishingOver'
  OBVIOUS
<1>1. ASSUME UNCHANGED <<t, due, finishing>> PROVE FinishingOver'
  BY <1>1, SameTimes DEF FinishingOver, AtEnd
<1>2. ASSUME ~finishing, UNCHANGED finishing PROVE FinishingOver'
  BY <1>2 DEF FinishingOver
<1>3. ASSUME NEW event, Begin(event) PROVE FinishingOver'
  BY <1>1, <1>3 DEF Begin, nodeVars
<1>4. CASE End
  <2>1. Handling(Root) /\ failure = "none" /\ UNCHANGED due
    BY <1>4 DEF End, nodeVars, Unwound, Handling
  <2>2. CASE finishing
    BY <1>1, <1>4, <2>1, <2>2 DEF End
  <2>3. CASE ~finishing
    <3>1. advance_time
      BY <1>4, <2>3 DEF End
    <3>2. CASE Earliest(due[Root]) = {} /\ CanEndEarly
      <4>1. LeafTimes = EmptyTimetable
        BY <2>1, <3>2, AllInSync, NothingPlanned DEF Progress, Schedule
      <4>2. LeafTimes' = LeafTimes /\ EmptyTimetable' = EmptyTimetable
        BY <2>1, SameTimes DEF EmptyTimetable
      <4>3. QED
        BY <3>2, <4>1, <4>2 DEF FinishingOver, AtEnd
    <3>3. CASE ~(Earliest(due[Root]) = {} /\ CanEndEarly)
      <4>1. finishing' = (t' >= EndT)
        BY <3>1, <3>3, Zenon DEF advance_time
      <4>2. QED
        BY <4>1, Zenon DEF FinishingOver, AtEnd
    <3>4. QED
      BY <3>2, <3>3
  <2>4. QED
    BY <2>2, <2>3
<1>5. ASSUME NEW n \in Leaves, UNCHANGED flags,
             \/ LeafInitialization(n) \/ LeafPlannedEvent(n)
             \/ LeafUnplannedEvent(n) \/ LeafFinalization(n)
      PROVE  FinishingOver'
  <2>1. UNCHANGED <<t, finishing>>
    BY <1>5 DEF flags, LeafEvent,
       LeafInitialization, LeafPlannedEvent, LeafUnplannedEvent, LeafFinalization
  <2>2. CASE LeafFinalization(n)
    BY <1>1, <2>1, <2>2 DEF LeafFinalization
  <2>3. CASE ~LeafFinalization(n)
    <3>1. PICK event \in {"initialization", "planned", "unplanned"} : LeafEvent(n, event)
      BY <1>5, <2>3 DEF LeafInitialization, LeafPlannedEvent, LeafUnplannedEvent
    <3>2. NextCall \in top.calls /\ NextCall.event = event /\ Len(stack) \in DOMAIN stack
      BY <3>1, LeafStep, StackDomain DEF Progress
    <3>3. ~finishing
      BY <3>2 DEF Progress, EventsInPeriod, InPeriod, top
    <3>4. QED
      BY <1>2, <2>1, <3>3
  <2>4. QED
    BY <2>2, <2>3
<1>6. ASSUME NEW n \in Leaves, UNCHANGED flags, LeafThrows(n) PROVE FinishingOver'
  BY <1>1, <1>6 DEF LeafThrows, Abort, nodeVars, flags
<1>7. ASSUME NEW c \in Composites, UNCHANGED flags, Enter(c) PROVE FinishingOver'
  BY <1>1, <1>7 DEF Enter, Abort, nodeVars, flags
<1>8. ASSUME NEW c \in Composites, UNCHANGED flags, NextMessage(c) PROVE FinishingOver'
  BY <1>1, <1>8 DEF NextMessage, flags
<1>9. ASSUME NEW c \in Composites, UNCHANGED flags, Leave(c) PROVE FinishingOver'
  <2>1. UNCHANGED <<t, finishing>> /\ Len(stack) \in DOMAIN stack
    BY <1>9, StackDomain DEF Leave, Handling, flags, Progress
  <2>2. CASE top.call.event = "finalization"
    BY <1>1, <1>9, <2>1, <2>2 DEF Leave
  <2>3. CASE top.call.event # "finalization"
    <3>1. ~finishing
      BY <2>1, <2>3 DEF Progress, EventsInPeriod, InPeriod, top
    <3>2. QED
      BY <1>2, <2>1, <3>1
  <2>4. QED
    BY <2>2, <2>3
<1>10. CASE UNCHANGED vars
  BY <1>1, <1>10 DEF vars, nodeVars
<1>11. CASE Next
  BY <1>3, <1>4, <1>5, <1>6, <1>7, <1>8, <1>9, <1>10, <1>11, StepCases
  DEF process_initialization_event, process_planned_event, process_finalization_event
<1>12. QED
  BY <1>10, <1>11

-----------------------------------------------------------------------------
(* The simulation seen as one flat node                                    *)

\* The flat node counts durations as the simulation does.
LEMMA SameDurations ==
    ASSUME NEW dt
    PROVE  /\ Flat!finite(dt) <=> finite(dt)
           /\ Flat!advance(t, dt) = advance(t, dt)
<1>1. Flat!finite(dt) <=> finite(dt)
  BY Zenon DEF Flat!finite, finite, Flat!quantity_limit, quantity_limit, Flat!power, power
<1>2. \A s : Flat!Tick(s) = Tick(s)
  BY Zenon DEF Flat!Tick, Tick, Flat!power, power
<1>3. Flat!advance(t, dt) = advance(t, dt)
  BY <1>2, Zenon DEF Flat!advance, advance, Flat!Floor, Floor
<1>4. QED
  BY <1>1, <1>3

\* How the queue above a leaf looks to the flat node once the leaf has replanned.
LEMMA LeafReplanned ==
    ASSUME TypeOK, NEW n \in Leaves, NEW times, Replanned(n, times)
    PROVE  /\ times = {} => LeafTimes' = WithoutEvents(LeafTimes, {n})
           /\ \A u : times = {u} => LeafTimes' = WithEvent(LeafTimes, n, u)
<1> DEFINE p == Parent(n)
<1>1. /\ DOMAIN due' = Parents /\ n \in Nodes
      /\ \A c \in Parents : c # p => due'[c] = due[c]
      /\ \A m : m # n =>
            /\ m \in DOMAIN due'[p] <=> m \in DOMAIN due[p]
            /\ m \in DOMAIN due[p] => due'[p][m] = due[p][m]
      /\ times = {} => n \notin DOMAIN due'[p]
      /\ \A u : times = {u} => n \in DOMAIN due'[p] /\ due'[p][n] = u
  <2>1. DOMAIN due = Parents /\ n \in Nodes /\ p = Parent(n)
    BY DEF TypeOK, Nodes
  <2> HIDE DEF p
  <2>2. QED
    BY <2>1, Replanning
<1>2. ASSUME NEW m \in Leaves, m # n
      PROVE  /\ m \in DOMAIN due'[Parent(m)] <=> m \in DOMAIN due[Parent(m)]
             /\ m \in DOMAIN due[Parent(m)] => due'[Parent(m)][m] = due[Parent(m)][m]
  <2>1. Parent(m) \in Parents
    BY ParentAndIndex DEF Nodes
  <2>2. QED
    BY <1>1, <1>2, <2>1
<1>3. LeafTimes' = [m \in {l \in Leaves : l \in DOMAIN due'[Parent(l)]} |-> due'[Parent(m)][m]]
  BY DEF LeafTimes
<1>4. CASE times = {}
  <2>1. {l \in Leaves : l \in DOMAIN due'[Parent(l)]} = DOMAIN LeafTimes \ {n}
    BY <1>1, <1>2, <1>4, LeafPlanned
  <2>2. \A m \in DOMAIN LeafTimes \ {n} : due'[Parent(m)][m] = LeafTimes[m]
    BY <1>2, LeafPlanned
  <2>3. LeafTimes' = [m \in DOMAIN LeafTimes \ {n} |-> LeafTimes[m]]
    BY <1>3, <2>1, <2>2
  <2>4. QED
    BY <1>4, <2>3 DEF WithoutEvents
<1>5. ASSUME NEW u, times = {u} PROVE LeafTimes' = WithEvent(LeafTimes, n, u)
  <2>1. {l \in Leaves : l \in DOMAIN due'[Parent(l)]} = DOMAIN LeafTimes \cup {n}
    BY <1>1, <1>2, <1>5, LeafPlanned
  <2>2. \A m \in DOMAIN LeafTimes \cup {n} :
           due'[Parent(m)][m] = IF m = n THEN u ELSE LeafTimes[m]
    BY <1>1, <1>2, <1>5, LeafPlanned
  <2>3. LeafTimes' = [m \in DOMAIN LeafTimes \cup {n} |-> IF m = n THEN u ELSE LeafTimes[m]]
    BY <1>3, <2>1, <2>2
  <2>4. QED
    BY <2>3 DEF WithEvent
<1>6. QED
  BY <1>4, <1>5

\* What a composite node plans is not seen.
LEMMA CompositeReplanned ==
    ASSUME TypeOK, NEW c \in Composites, NEW times, Replanned(c, times)
    PROVE  UNCHANGED LeafTimes
<1>1. /\ c \in Nodes
      /\ \A d \in Parents : d # Parent(c) => due'[d] = due[d]
      /\ \A m : m # c =>
            /\ m \in DOMAIN due'[Parent(c)] <=> m \in DOMAIN due[Parent(c)]
            /\ m \in DOMAIN due[Parent(c)] => due'[Parent(c)][m] = due[Parent(c)][m]
  BY Replanning DEF TypeOK, Nodes
<1>2. ASSUME NEW m \in Leaves
      PROVE  /\ m \in DOMAIN due'[Parent(m)] <=> m \in DOMAIN due[Parent(m)]
             /\ m \in DOMAIN due[Parent(m)] => due'[Parent(m)][m] = due[Parent(m)][m]
  <2>1. Parent(m) \in Parents /\ m # c
    BY ParentAndIndex, TreeAssumption DEF Nodes
  <2>2. QED
    BY <1>1, <2>1
<1>3. LeafTimes' = [m \in {l \in Leaves : l \in DOMAIN due'[Parent(l)]} |-> due'[Parent(m)][m]]
  BY DEF LeafTimes
<1>4. {l \in Leaves : l \in DOMAIN due'[Parent(l)]} = DOMAIN LeafTimes
  BY <1>2, LeafPlanned
<1>5. \A m \in DOMAIN LeafTimes : due'[Parent(m)][m] = LeafTimes[m]
  BY <1>2, LeafPlanned
<1>6. LeafTimes = [m \in DOMAIN LeafTimes |-> LeafTimes[m]]
  BY DEF LeafTimes
<1>7. QED
  BY <1>3, <1>4, <1>5, <1>6

\* The plan a leaf's handler returns is the one the flat node makes for it.
LEMMA FlatPlans ==
    ASSUME TypeOK, NEW n \in Leaves, PlanNext(n)
    PROVE  \E planned_dt \in Durations[n] : LeafTimes' = Flat!Replanned(n, planned_dt)
<1>1. PICK dt \in Durations[n] : Replanned(n, IF finite(dt) THEN {advance(t, dt)} ELSE {})
  BY DEF PlanNext
<1>2. LeafTimes' = IF finite(dt) THEN WithEvent(LeafTimes, n, advance(t, dt))
                   ELSE WithoutEvents(LeafTimes, {n})
  <2>1. CASE finite(dt)
    BY <1>1, <2>1, LeafReplanned
  <2>2. CASE ~finite(dt)
    BY <1>1, <2>2, LeafReplanned
  <2>3. QED
    BY <2>1, <2>2
<1>3. Flat!Replanned(n, dt) = IF finite(dt) THEN WithEvent(LeafTimes, n, advance(t, dt))
                              ELSE WithoutEvents(LeafTimes, {n})
  BY SameDurations, Zenon
  DEF Flat!Replanned, Flat!WithEvent, Flat!WithoutEvents, WithEvent, WithoutEvents
<1>4. QED
  BY <1>2, <1>3

\* The life of a leaf as the flat node has it.
LEMMA FlatLife ==
    ASSUME TypeOK, NEW n \in Leaves, NEW stage, life' = [life EXCEPT ![n] = stage]
    PROVE  LeafLife' = [LeafLife EXCEPT ![n] = stage]
  BY DEF LeafLife, TypeOK, Nodes

LEMMA LeafLives == \A n \in Leaves : LeafLife[n] = life[n]
  BY DEF LeafLife

\* A step that changes nothing of the leaves is not seen.
LEMMA FlatStutters ==
    ASSUME UNCHANGED <<t, owed>>, UNCHANGED LeafTimes, \A n \in Leaves : life'[n] = life[n]
    PROVE  UNCHANGED Flat!devsVars
<1>1. UNCHANGED LeafLife
  BY DEF LeafLife
<1>2. QED
  BY <1>1 DEF Flat!devsVars

LEMMA FlatUnchanged ==
    ASSUME UNCHANGED <<t, owed, due, life>>
    PROVE  UNCHANGED Flat!devsVars
  BY SameTimes, FlatStutters

\* A leaf is initialized.
LEMMA FlatInitializes ==
    ASSUME TypeOK, NEW n \in Leaves, LeafInitialization(n)
    PROVE  Flat!Initialize(n)
<1>1. life[n] = "new" /\ life' = [life EXCEPT ![n] = "initialized"] /\ PlanNext(n)
  BY DEF LeafInitialization
<1>2. UNCHANGED <<t, owed>>
  BY DEF LeafInitialization, LeafEvent
<1>3. QED
  BY <1>1, <1>2, FlatLife, LeafLives, FlatPlans DEF Flat!Initialize

\* Between initialization and finalization all nodes are initialized.
LEMMA AllInitialized ==
    ASSUME TypeOK, Begun, Lives, Counted, failure = "none", ~finishing,
           NEW i \in DOMAIN stack, stack[i].call.event # "initialization"
    PROVE  Flat!AllAre("initialized")
<1>1. started
  BY DEF Lives, TopFollows, Busy
<1>2. ASSUME NEW n \in Leaves PROVE life[n] # "new" /\ life[n] # "finalized"
  BY <1>1, AllBegun DEF Counted, Nodes
<1>3. QED
  BY <1>2, LeafLives DEF Flat!AllAre, TypeOK, Nodes

\* A planned event occurs at its time, when no message is about.
LEMMA FlatPlannedEvent ==
    ASSUME Progress, Unwound, Schedule, Lives, Counted, Begun, RoutingOK, OwedKept,
           NEW n \in Leaves, LeafPlannedEvent(n)
    PROVE  Flat!PlannedEvent(n)
<1>1. /\ Busy /\ NextCall \in top.calls /\ NextCall.node = n /\ NextCall.event = "planned"
      /\ Parent(n) = top.call.node /\ UNCHANGED t
  BY LeafStep DEF LeafPlannedEvent, Progress
<1>2. failure = "none" /\ StackOK /\ TypeOK /\ Len(stack) \in DOMAIN stack
  BY <1>1, StackDomain DEF Unwound, Progress
<1>3. FrameOK(top) /\ InPeriod(NextCall)
  BY <1>1, <1>2 DEF StackOK, Progress, EventsInPeriod, top
<1>4. ~finishing /\ t < EndT /\ t \in Int /\ EndT \in Int
  BY <1>1, <1>2, <1>3, TimeAssumption DEF InPeriod, TypeOK
<1>5. top.call.event # "initialization"
  BY <1>1, <1>3 DEF FrameOK, Call
<1>6. Flat!AllAre("initialized")
  BY <1>2, <1>4, <1>5, AllInitialized DEF top
<1>7. n \in DOMAIN LeafTimes /\ LeafTimes[n] = t
  BY <1>1, <1>2, LeafPlanned DEF Schedule, PlannedDue, top
<1>8. ~Flat!Over
  <2>1. LeafTimes # Flat!EmptyTimetable
    BY <1>7 DEF Flat!EmptyTimetable
  <2>2. ~(t >= EndT)
    BY <1>4
  <2>3. QED
    BY <2>1, <2>2, Zenon DEF Flat!Over
<1>9. owed = {}
  BY <1>1, <1>2, QuietTop, QuietOwed
<1>10. \E sent \in Emissions[n] :
          owed' = UNION {{<<r, k>> : r \in Routes[<<n, sent[k]>>]} : k \in DOMAIN sent}
  BY DEF LeafPlannedEvent
<1>11. \E planned_dt \in Durations[n] : LeafTimes' = Flat!Replanned(n, planned_dt)
  BY <1>2, FlatPlans DEF LeafPlannedEvent
<1>12. UNCHANGED LeafLife
  BY DEF LeafPlannedEvent, LeafLife
<1>13. QED
  BY <1>1, <1>6, <1>7, <1>8, <1>9, <1>10, <1>11, <1>12 DEF Flat!PlannedEvent

\* A message is delivered to a leaf: the next one on its route.
LEMMA FlatUnplannedEvent ==
    ASSUME Progress, Unwound, RoutingOK, OwedKept, NEW n \in Leaves, LeafUnplannedEvent(n)
    PROVE  Flat!UnplannedEvent(n)
<1>1. /\ Busy /\ NextCall \in top.calls /\ NextCall.node = n /\ NextCall.event = "unplanned"
      /\ UNCHANGED t
  BY LeafStep DEF LeafUnplannedEvent, Progress
<1>2. failure = "none" /\ StackOK /\ TypeOK
  BY <1>1 DEF Unwound, Progress
<1>3. /\ Owes(Delivery)
      /\ \A e : Owes(e) /\ e[1] = Delivery[1] => Delivery[2] <= e[2]
      /\ Delivery[1][Len(Delivery[1])][1] = n
  BY <1>1, <1>2, DeliveryNext
<1>4. \A d : d \in owed <=> Owes(d)
  BY <1>2 DEF OwedKept
<1>5. owed' = owed \ {Delivery}
  BY DEF LeafUnplannedEvent, Delivery
<1>6. \E d \in owed : /\ d[1][Len(d[1])][1] = n
                      /\ \A e \in owed : e[1] = d[1] => d[2] <= e[2]
                      /\ owed' = owed \ {d}
  BY <1>3, <1>4, <1>5, Zenon
<1>7. \E planned_dt \in Durations[n] : LeafTimes' = Flat!Replanned(n, planned_dt)
  BY <1>2, FlatPlans DEF LeafUnplannedEvent
<1>8. UNCHANGED LeafLife
  BY DEF LeafUnplannedEvent, LeafLife
<1>9. QED
  BY <1>1, <1>6, <1>7, <1>8, Zenon DEF Flat!UnplannedEvent

\* A leaf is finalized: the simulated period is over.
LEMMA FlatFinalizes ==
    ASSUME Progress, Unwound, Lives, Begun, FinishingOver, RoutingOK, OwedKept,
           NEW n \in Leaves, LeafFinalization(n)
    PROVE  Flat!Finalize(n)
<1>1. /\ Busy /\ NextCall \in top.calls /\ NextCall.node = n /\ NextCall.event = "finalization"
      /\ UNCHANGED t
  BY LeafStep DEF LeafFinalization, Progress
<1>2. failure = "none" /\ StackOK /\ TypeOK /\ Len(stack) \in DOMAIN stack /\ started
  BY <1>1, StackDomain DEF Unwound, Progress, Lives, TopFollows
<1>3. FrameOK(top) /\ InPeriod(NextCall)
  BY <1>1, <1>2 DEF StackOK, Progress, EventsInPeriod, top
<1>4. top.call.event # "initialization" /\ finishing
  BY <1>1, <1>3 DEF FrameOK, Call, InPeriod
<1>5. \A m \in Leaves : life[m] # "new"
  BY <1>2, <1>4, AllBegun DEF top, Nodes
<1>6. life[n] = "initialized" /\ life' = [life EXCEPT ![n] = "finalized"]
  BY <1>2, <1>5 DEF LeafFinalization, TypeOK, Nodes
<1>7. Flat!Over
  BY <1>4, Zenon DEF FinishingOver, AtEnd, Flat!Over, Flat!EmptyTimetable, EmptyTimetable
<1>8. owed = {}
  BY <1>1, <1>2, QuietTop, QuietOwed
<1>9. UNCHANGED LeafTimes /\ UNCHANGED owed
  BY SameTimes DEF LeafFinalization
<1>10. LeafLife' = [LeafLife EXCEPT ![n] = "finalized"]
  BY <1>2, <1>6, FlatLife
<1>11. QED
  BY <1>1, <1>5, <1>6, <1>7, <1>8, <1>9, <1>10, LeafLives DEF Flat!Finalize

\* An event planned for the topmost node is an event planned for some leaf.
LEMMA SomeLeafPlanned ==
    ASSUME TypeOK, \A c \in Composites : InSync(c), NEW u \in Earliest(due[Root])
    PROVE  \E n \in DOMAIN LeafTimes : LeafTimes[n] = u
<1> DEFINE S == {n \in Nodes : n \in DOMAIN due[Parent(n)] /\ due[Parent(n)][n] = u}
<1>1. ASSUME NEW c \in Parents, u \in Earliest(due[c]) PROVE \E m \in S : Parent(m) = c
  <2>1. Timed(due[c]) /\ \A m \in DOMAIN due[c] : m \in Nodes /\ Parent(m) = c
    BY DEF TypeOK, Timed
  <2>2. PICK m \in DOMAIN due[c] : due[c][m] = u
    BY <1>1, <2>1, EarliestTime
  <2>3. QED
    BY <2>1, <2>2
<1>2. S \in SUBSET Nodes /\ S # {}
  BY <1>1 DEF Parents
<1>3. PICK n \in S : \A m \in S : Parent(m) # n
  <2> HIDE DEF S
  <2> QED  BY <1>2, DepthAssumption
<1>4. n \notin Composites
  <2>1. SUFFICES ASSUME n \in Composites PROVE FALSE
    OBVIOUS
  <2>2. TimesOf(due[Parent(n)], {n}) = {u}
    BY DEF TimesOf
  <2>3. u \in Earliest(due[n])
    BY <2>1, <2>2 DEF InSync
  <2>4. QED
    BY <1>1, <1>3, <2>1, <2>3 DEF Parents
<1>5. n \in DOMAIN LeafTimes /\ LeafTimes[n] = u
  BY <1>4, LeafPlanned DEF Nodes
<1>6. QED
  BY <1>5

\* The time to which advance_time moves, with the events of the leaves alone.
LEMMA FlatAdvances ==
    ASSUME Progress, Unwound, Schedule, Lives, Counted, Begun, RoutingOK, OwedKept,
           End, t' # t
    PROVE  Flat!AdvanceTime
<1>1. /\ Handling(Root) /\ failure = "none" /\ TypeOK /\ StackOK
      /\ UNCHANGED <<due, life, owed, failure, started>>
  BY DEF End, nodeVars, Unwound, Handling, Progress
<1>2. ~finishing /\ advance_time
  BY DEF End
<1>3. /\ t' \in Int /\ t \in Int /\ EndT \in Int /\ t' <= EndT /\ t <= EndT
      /\ t' = EndT \/ t' \in Earliest(due[Root])
  BY <1>1, <1>2, AdvanceTime, TimeAssumption DEF Progress, TypeOK
<1>4. \A c \in Composites : InSync(c)
  BY <1>1, AllInSync
<1>5. \A c \in Parents : NoneBefore(due[c], t')
  <2>1. Schedule'
    BY <1>1, ScheduleEnd
  <2>2. QED
    BY <1>1, <2>1 DEF Schedule, NothingMissed
<1>6. t < t'
  <2>1. ASSUME t' \in Earliest(due[Root]) PROVE t <= t'
    <3>1. Timed(due[Root]) /\ NoneBefore(due[Root], t)
      BY <1>1 DEF TypeOK, Timed, Schedule, NothingMissed, Parents
    <3>2. QED
      BY <2>1, <3>1, EarliestTime DEF NoneBefore
  <2>2. QED
    BY <1>3, <2>1
<1>7. \A n \in DOMAIN LeafTimes : LeafTimes[n] \in Int /\ t' <= LeafTimes[n]
  <2>1. ASSUME NEW n \in DOMAIN LeafTimes PROVE LeafTimes[n] \in Int /\ t' <= LeafTimes[n]
    <3>1. n \in Nodes /\ n \in DOMAIN due[Parent(n)] /\ LeafTimes[n] = due[Parent(n)][n]
      BY LeafPlanned DEF Nodes
    <3>2. Parent(n) \in Parents
      BY <3>1, ParentAndIndex
    <3>3. QED
      BY <1>1, <1>5, <3>1, <3>2 DEF NoneBefore, TypeOK
  <2>2. QED
    BY <2>1
<1>8. t' \in {LeafTimes[n] : n \in Flat!Imminent(LeafTimes)} \cup {EndT}
  <2>1. SUFFICES ASSUME t' \in Earliest(due[Root])
                 PROVE  t' \in {LeafTimes[n] : n \in Flat!Imminent(LeafTimes)}
    BY <1>3
  <2>2. PICK n \in DOMAIN LeafTimes : LeafTimes[n] = t'
    BY <1>1, <1>4, <2>1, SomeLeafPlanned
  <2>3. n \in Flat!Imminent(LeafTimes)
    BY <1>7, <2>2 DEF Flat!Imminent
  <2>4. QED
    BY <2>2, <2>3
<1>9. Flat!NoneBefore(LeafTimes, t')
  BY <1>7 DEF Flat!NoneBefore
<1>10. ~Flat!Over
  <2>1. ~(t >= EndT)
    BY <1>3, <1>6
  <2>2. ASSUME LeafTimes = Flat!EmptyTimetable, CanEndEarly PROVE FALSE
    <3>1. DOMAIN LeafTimes = {}
      BY <2>2 DEF Flat!EmptyTimetable
    <3>2. Earliest(due[Root]) = {}
      BY <1>1, <1>4, <3>1, SomeLeafPlanned
    <3>3. QED
      BY <1>2, <2>2, <3>2 DEF advance_time
  <2>3. QED
    BY <2>1, <2>2, Zenon DEF Flat!Over
<1>11. owed = {}
  BY <1>1, EndQuiet, QuietOwed
<1>12. Flat!AllAre("initialized")
  <2>1. \A n \in Nodes : life[n] # "new"
    <3>1. 1 \in DOMAIN stack /\ stack[1] = top /\ top.call.node = Root /\ top.calls = {}
      BY <1>1, RootAlone DEF Handling
    <3>2. started
      BY <1>1 DEF Lives, TopFollows, Handling
    <3>3. life[Top] # "new"
      BY <1>1, <3>1, <3>2, TopIsNode DEF Begun, TopBegun, InitializedSoFar
    <3>4. QED
      BY <3>3, AllStarted DEF Begun
  <2>2. \A n \in Nodes : life[n] # "finalized"
    BY <1>2 DEF Counted
  <2>3. QED
    BY <1>1, <2>1, <2>2, LeafLives DEF Flat!AllAre, TypeOK, Nodes
<1>13. UNCHANGED LeafTimes /\ UNCHANGED LeafLife /\ UNCHANGED owed
  BY <1>1, SameTimes DEF LeafLife
<1>14. QED
  BY <1>3, <1>6, <1>8, <1>9, <1>10, <1>11, <1>12, <1>13, Zenon DEF Flat!AdvanceTime

\* The return of a composite node's handler is not seen.
LEMMA FlatLeave ==
    ASSUME Progress, NEW c \in Composites, Leave(c)
    PROVE  UNCHANGED Flat!devsVars
<1>1. TypeOK /\ UNCHANGED <<t, owed>>
  BY DEF Progress, Leave
<1>2. \A n \in Leaves : life'[n] = life[n]
  BY <1>1, TreeAssumption DEF Leave, TypeOK, Nodes
<1>3. UNCHANGED LeafTimes
  <2>1. CASE UNCHANGED due
    BY <2>1, SameTimes
  <2>2. CASE Replanned(c, Earliest(due[c]))
    BY <1>1, <2>2, CompositeReplanned
  <2>3. QED
    BY <1>1, <2>1, <2>2, LeaveReplans
<1>4. QED
  BY <1>1, <1>2, <1>3, FlatStutters

\* Every step of the simulation is a step of the flat node, or is not seen.
LEMMA FlatStep ==
    Progress /\ Unwound /\ Schedule /\ Lives /\ Counted /\ RoutingOK /\ OwedKept
       /\ Begun /\ FinishingOver /\ [Next]_vars
    => [Flat!Next]_(Flat!devsVars)
<1> SUFFICES ASSUME Progress, Unwound, Schedule, Lives, Counted, RoutingOK, OwedKept,
                    Begun, FinishingOver, [Next]_vars
             PROVE  Flat!Next \/ UNCHANGED Flat!devsVars
  BY Zenon
<1>1. ASSUME NEW event, Begin(event) PROVE UNCHANGED Flat!devsVars
  BY <1>1, FlatUnchanged DEF Begin, nodeVars
<1>2. CASE End
  <2>1. CASE t' = t
    BY <1>2, <2>1, FlatUnchanged DEF End, nodeVars
  <2>2. CASE t' # t
    BY <1>2, <2>2, FlatAdvances DEF Flat!Next
  <2>3. QED
    BY <2>1, <2>2
<1>3. ASSUME NEW n \in Leaves, LeafInitialization(n) PROVE Flat!Next
  <2>1. Flat!Initialize(n)
    BY <1>3, FlatInitializes DEF Progress
  <2>2. QED
    BY <2>1, Zenon DEF Flat!Next
<1>4. ASSUME NEW n \in Leaves, LeafPlannedEvent(n) PROVE Flat!Next
  <2>1. Flat!PlannedEvent(n)
    BY <1>4, FlatPlannedEvent
  <2>2. QED
    BY <2>1, Zenon DEF Flat!Next
<1>5. ASSUME NEW n \in Leaves, LeafUnplannedEvent(n) PROVE Flat!Next
  <2>1. Flat!UnplannedEvent(n)
    BY <1>5, FlatUnplannedEvent
  <2>2. QED
    BY <2>1, Zenon DEF Flat!Next
<1>6. ASSUME NEW n \in Leaves, LeafFinalization(n) PROVE Flat!Next
  <2>1. Flat!Finalize(n)
    BY <1>6, FlatFinalizes
  <2>2. QED
    BY <2>1, Zenon DEF Flat!Next
<1>7. ASSUME NEW n \in Leaves, LeafThrows(n) PROVE UNCHANGED Flat!devsVars
  BY <1>7, FlatUnchanged DEF LeafThrows, Abort, nodeVars
<1>8. ASSUME NEW c \in Composites, Enter(c) PROVE UNCHANGED Flat!devsVars
  BY <1>8, FlatUnchanged DEF Enter, Abort, nodeVars
<1>9. ASSUME NEW c \in Composites, NextMessage(c) PROVE UNCHANGED Flat!devsVars
  BY <1>9, FlatUnchanged DEF NextMessage
<1>10. ASSUME NEW c \in Composites, Leave(c) PROVE UNCHANGED Flat!devsVars
  BY <1>10, FlatLeave
<1>11. CASE UNCHANGED vars
  BY <1>11, FlatUnchanged DEF vars, nodeVars
<1>12. CASE Next
  BY <1>1, <1>2, <1>3, <1>4, <1>5, <1>6, <1>7, <1>8, <1>9, <1>10, <1>11, <1>12, StepCases
  DEF process_initialization_event, process_planned_event, process_finalization_event
<1>13. QED
  BY <1>11, <1>12

\* At the start all leaves are new and have no plans.
LEMMA FlatInit == Init => Flat!Init
<1> SUFFICES ASSUME Init PROVE Flat!Init
  OBVIOUS
<1>1. t = StartT /\ owed = {} /\ \A n \in Leaves : life[n] = "new"
  BY DEF Init, Nodes
<1>2. LeafTimes = Flat!EmptyTimetable
  <2>1. \A n \in Leaves : n \notin DOMAIN due[Parent(n)]
    BY ParentAndIndex DEF Init, EmptyTimetable, Nodes
  <2>2. {n \in Leaves : n \in DOMAIN due[Parent(n)]} = {}
    BY <2>1
  <2>3. QED
    BY <2>2 DEF LeafTimes, Flat!EmptyTimetable
<1>3. LeafLife = [n \in Leaves |-> "new"]
  BY <1>1 DEF LeafLife
<1>4. QED
  BY <1>1, <1>2, <1>3 DEF Flat!Init

\* The tree of nodes is invisible: whatever the depth at which the leaves are, a
\* simulation is one of the flat node that holds all of them, in which planned
\* events occur just when they were planned for, messages reach all their
\* destinations, and only them, before anything else is planned, in the order in
\* which they were sent over a route, and every leaf is initialized before the
\* first event and finalized after the last.
THEOREM SimulationImplementsDevs == Spec => ImplementsDevs
<1> DEFINE Inv == /\ Progress /\ Unwound /\ Schedule /\ Lives /\ Counted /\ Drained
                  /\ RoutingOK /\ OwedKept /\ Begun /\ FinishingOver
<1>1. Init => Inv
  BY ProgressInit, ScheduleInit, LivesInit, CountedInit, DrainedInit, OwedInit, BegunInit,
     FinishingInit
  DEF Init, Unwound
<1>2. Inv /\ [Next]_vars => Inv'
  BY ProgressStep, UnwoundStep, ScheduleStep, LivesStep, CountedStep, DrainedStep, OwedStep,
     BegunStep, FinishingStep
<1>3. Inv /\ [Next]_vars => [Flat!Next]_(Flat!devsVars)
  BY FlatStep
<1>4. QED
  BY <1>1, <1>2, <1>3, FlatInit, PTL DEF Spec, ImplementsDevs, Flat!Spec
=============================================================================
