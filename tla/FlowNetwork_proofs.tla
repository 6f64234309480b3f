------------------------- MODULE FlowNetwork_proofs -------------------------
(***************************************************************************)
(* For every choice of components and links, values travel along the       *)
(* links: ValuesFollowLinks.                                               *)
(***************************************************************************)
EXTENDS FlowNetwork, WellFoundedInduction, TLAPS

\* Every nonempty set of naturals has a least element.
LEMMA LeastNatural ==
    ASSUME NEW S, S \subseteq Nat, S # {}
    PROVE  \E m \in S : \A n \in S : m <= n
<1> DEFINE R == {ss \in Nat \X Nat : ss[1] < ss[2]}
<1>1. IsWellFoundedOn(R, Nat)
  BY NatLessThanWellFounded DEF OpToRel
<1>2. \A m, n \in Nat : m < n => <<m, n>> \in R
  OBVIOUS
<1> HIDE DEF R
<1>3. PICK m \in S : \A n \in S : <<n, m>> \notin R
  BY <1>1, WFMin
<1>4. ASSUME NEW n \in S PROVE m <= n
  <2>1. n \in Nat /\ m \in Nat
    OBVIOUS
  <2>2. ~ (n < m)
    BY <1>2, <1>3, <2>1
  <2>3. QED
    BY <2>1, <2>2
<1>5. QED
  BY <1>4

\* Before the inward links no node has had its turn.
NoneBeforeInward ==
    phase = "inward" => unprocessed = flowNodes /\ unfinalized = NodeIndices \ flowNodes

\* The inductive invariant.
Inv == FlowTypeOK /\ NoneBeforeInward /\ ValuesFollowLinks

\* What the steps need to know of the choice of links.
LEMMA LinkFacts ==
    ASSUME FlowTypeOK
    PROVE  /\ flowNodes \subseteq NodeIndices
           /\ links \subseteq [src : Sources, dst : Destinations]
  <1>. DEFINE c == [flow |-> flowNodes, links |-> links]
  <1>1. c \in Compositions  BY DEF FlowTypeOK
  <1>2. c.flow \subseteq NodeIndices /\ c.links \subseteq [src : Sources, dst : Destinations]
    BY <1>1, FlowAssumption
  <1>. QED  BY <1>2

\* No port is the place of NoValue, and no node the composite one.
LEMMA PlaceFacts ==
    /\ NoValue \notin Sources
    /\ \A src \in Sources : src[1] \in NodeIndices => src \in OutputsOf(src[1])
    /\ \A src \in Sources : src[1] = Composite <=> src \in {Composite} \X ExternalInputs
    /\ Composite \notin NodeIndices
  <1>1. Composite \notin Nat /\ NodeIndices \subseteq Nat /\ -1 \notin Nat
    BY FlowAssumption DEF Composite
  <1>2. Outputs \subseteq NodeIndices \X Nat /\ ExternalInputs \subseteq Nat
    BY FlowAssumption
  <1>. QED  BY <1>1, <1>2 DEF NoValue, Sources, OutputsOf

\* After a transfer without failure the sources transferred from are among
\* those whose values have arrived.
LEMMA TransferFollows ==
    ASSUME FlowTypeOK, NEW P \in SUBSET Sources, NEW srcs, P \cap srcs = {},
           \A d \in Destinations : Feeding(d, P) = {values[d]} \ {NoValue},
           Transfer(srcs), thrown' = "none"
    PROVE  /\ values' \in [Destinations -> Sources \cup {NoValue}]
           /\ \A d \in Destinations : Feeding(d, P \cup srcs) = {values'[d]} \ {NoValue}
  <1>. DEFINE L == LinksFrom(srcs)
  <1>1. links \subseteq [src : Sources, dst : Destinations]  BY LinkFacts
  <1>2. L \subseteq links /\ \A l \in L : l.src \in srcs \cap Sources  BY <1>1 DEF LinksFrom
  <1>3. /\ ~ReceivesMultiple(srcs)
        /\ values' = [d \in Destinations |->
                         IF \E l \in L : l.dst = d
                         THEN (CHOOSE l \in L : l.dst = d).src ELSE values[d]]
    BY DEF Transfer
  <1>4. ASSUME NEW d \in Destinations
        PROVE  /\ values'[d] \in Sources \cup {NoValue}
               /\ Feeding(d, P \cup srcs) = {values'[d]} \ {NoValue}
    <2>1. CASE \E l \in L : l.dst = d
      <3>1. PICK l \in L : l.dst = d  BY <2>1
      <3>2. \A k \in L : k.dst = d => k = l
        BY <1>3, <3>1 DEF ReceivesMultiple
      <3>3. values'[d] = l.src  BY <1>3, <3>1, <3>2
      <3>4. Feeding(d, P) = {}  BY <1>3, <3>1 DEF ReceivesMultiple
      <3>5. Feeding(d, P \cup srcs) = {l.src}
        BY <3>1, <3>2, <3>4, <1>2 DEF Feeding, LinksFrom
      <3>. QED  BY <3>3, <3>5, <1>2, PlaceFacts
    <2>2. CASE ~ \E l \in L : l.dst = d
      <3>1. values'[d] = values[d]  BY <1>3, <2>2
      <3>2. Feeding(d, P \cup srcs) = Feeding(d, P)
        BY <2>2 DEF Feeding, LinksFrom
      <3>. QED  BY <3>1, <3>2 DEF FlowTypeOK
    <2>. QED  BY <2>1, <2>2
  <1>. QED  BY <1>3, <1>4

\* What a node does in its turn keeps the types of the values.
LEMMA TransferTyped ==
    ASSUME FlowTypeOK, NEW srcs, Transfer(srcs)
    PROVE  /\ values' \in [Destinations -> Sources \cup {NoValue}]
           /\ thrown' \in {thrown, "multiple values", "no such node"}
  <1>. DEFINE L == LinksFrom(srcs)
  <1>1. \A l \in L : l.src \in Sources  BY LinkFacts DEF LinksFrom
  <1>2. CASE ~ReceivesMultiple(srcs) /\ ~NoSuchNode(srcs)
    <2>1. values' = [d \in Destinations |->
                         IF \E l \in L : l.dst = d
                         THEN (CHOOSE l \in L : l.dst = d).src ELSE values[d]]
      BY <1>2 DEF Transfer
    <2>2. ASSUME NEW d \in Destinations, \E l \in L : l.dst = d
          PROVE  (CHOOSE l \in L : l.dst = d).src \in Sources
      BY <1>1, <2>2
    <2>. QED  BY <1>2, <2>1, <2>2 DEF FlowTypeOK, Transfer
  <1>. QED  BY <1>2 DEF Transfer, FlowTypeOK

LEMMA ProducesTyped ==
    ASSUME FlowTypeOK, thrown = "none", NEW n, Produces(n)
    PROVE  /\ values' \in [Destinations -> Sources \cup {NoValue}]
           /\ thrown' \in {"none", "missing output", "multiple values", "no such node"}
  <1>1. CASE Transfer(OutputsOf(n))  BY <1>1, TransferTyped
  <1>2. CASE thrown' = "missing output" /\ UNCHANGED values  BY <1>2 DEF FlowTypeOK
  <1>. QED  BY <1>1, <1>2 DEF Produces

LEMMA InitInv == FlowInit => Inv
  <1>. SUFFICES ASSUME FlowInit PROVE Inv
    OBVIOUS
  <1>1. PICK c \in Compositions : flowNodes = c.flow /\ links = c.links  BY DEF FlowInit
  <1>2. c = [flow |-> c.flow, links |-> c.links]  BY FlowAssumption
  <1>3. FlowTypeOK  BY <1>1, <1>2 DEF FlowInit, FlowTypeOK
  <1>4. NoneBeforeInward  BY DEF FlowInit, NoneBeforeInward
  <1>5. Spent = {}
    <2>1. unprocessed = flowNodes /\ unfinalized = NodeIndices \ flowNodes /\ phase = "inward"
      BY DEF FlowInit
    <2>. QED  BY <2>1 DEF Spent
  <1>6. ValuesFollowLinks  BY <1>5 DEF FlowInit, ValuesFollowLinks, Feeding
  <1>. QED  BY <1>3, <1>4, <1>6 DEF Inv

\* The actions preserve the types, one after the other.
LEMMA TypeStep ==
    ASSUME FlowTypeOK, [FlowNext]_flowVars
    PROVE  FlowTypeOK'
  <1>1. CASE Inward
    <2>1. Transfer({Composite} \X ExternalInputs)  BY <1>1 DEF Inward
    <2>. QED  BY <1>1, <2>1, TransferTyped DEF Inward, FlowTypeOK
  <1>2. ASSUME NEW n \in NodeIndices, thrown = "none", FlowEvent(n)
        PROVE  FlowTypeOK'
    <2>1. Produces(n)  BY <1>2 DEF FlowEvent
    <2>. QED  BY <1>2, <2>1, ProducesTyped DEF FlowEvent, FlowTypeOK
  <1>3. CASE FlowEnds  BY <1>3 DEF FlowEnds, FlowTypeOK
  <1>4. ASSUME NEW n \in NodeIndices, InitializationEvent(n)
        PROVE  FlowTypeOK'
    BY <1>4 DEF InitializationEvent, FlowTypeOK
  <1>5. CASE Finalize  BY <1>5 DEF Finalize, FlowTypeOK
  <1>6. ASSUME NEW n \in NodeIndices, thrown = "none", FinalizationEvent(n)
        PROVE  FlowTypeOK'
    <2>1. Produces(n)  BY <1>6 DEF FinalizationEvent
    <2>. QED  BY <1>6, <2>1, ProducesTyped DEF FinalizationEvent, FlowTypeOK
  <1>7. CASE UNCHANGED flowVars  BY <1>7 DEF flowVars, FlowTypeOK
  <1>. QED  BY <1>1, <1>2, <1>3, <1>4, <1>5, <1>6, <1>7 DEF FlowNext

\* A node that has its turn was not among the spent sources, and is the only
\* one to join them.
LEMMA TurnOf ==
    ASSUME FlowTypeOK, NEW n \in NodeIndices, UNCHANGED flowNodes,
           phase # "inward" /\ phase' # "inward",
           \/ /\ n \in unprocessed
              /\ unprocessed' = unprocessed \ {n} /\ UNCHANGED unfinalized
           \/ /\ n \in unfinalized
              /\ unfinalized' = unfinalized \ {n} /\ UNCHANGED unprocessed
    PROVE  /\ OutputsOf(n) \cap Spent = {}
           /\ Spent' = Spent \cup OutputsOf(n)
  <1>1. /\ unprocessed \subseteq flowNodes /\ unfinalized \subseteq NodeIndices \ flowNodes
        /\ flowNodes \subseteq NodeIndices
    BY LinkFacts DEF FlowTypeOK
  <1>2. \A src \in OutputsOf(n) : src[1] = n /\ src \in Sources  BY DEF OutputsOf, Sources
  <1>3. \A src \in Sources : src[1] = n => src \in OutputsOf(n)  BY PlaceFacts
  <1>4. n # Composite  BY PlaceFacts
  <1>. QED  BY <1>1, <1>2, <1>3, <1>4 DEF Spent

\* The inputs of the composite node are the first.
LEMMA FirstTurn ==
    ASSUME FlowTypeOK, NoneBeforeInward, Inward
    PROVE  Spent = {} /\ Spent' = {Composite} \X ExternalInputs
  <1>1. /\ unprocessed = flowNodes /\ unfinalized = NodeIndices \ flowNodes
        /\ phase = "inward" /\ phase' # "inward"
        /\ UNCHANGED <<flowNodes, links, unprocessed, unfinalized>>
    BY DEF Inward, NoneBeforeInward
  <1>2. Spent = {}  BY <1>1 DEF Spent
  <1>3. Spent' = {src \in Sources : src[1] = Composite}  BY <1>1 DEF Spent
  <1>. QED  BY <1>2, <1>3, PlaceFacts DEF Sources

\* Every destination holds what its one spent source sent, whatever the step.
LEMMA FollowStep ==
    ASSUME Inv, [FlowNext]_flowVars
    PROVE  ValuesFollowLinks'
  <1>. USE DEF Inv
  <1>. SUFFICES ASSUME thrown' = "none", thrown = "none"
                PROVE  \A d \in Destinations : Feeding(d, Spent)' = {values'[d]} \ {NoValue}
    BY DEF ValuesFollowLinks, FlowNext, flowVars
  <1>1. \A d \in Destinations : Feeding(d, Spent) = {values[d]} \ {NoValue}
    BY DEF ValuesFollowLinks
  <1>2. Spent \in SUBSET Sources  BY DEF Spent
  <1>3. ASSUME NEW srcs, srcs \cap Spent = {}, Spent' = Spent \cup srcs,
               Transfer(srcs), UNCHANGED links
        PROVE  \A d \in Destinations : Feeding(d, Spent)' = {values'[d]} \ {NoValue}
    <2>1. \A d \in Destinations : Feeding(d, Spent \cup srcs) = {values'[d]} \ {NoValue}
      BY <1>1, <1>2, <1>3, TransferFollows
    <2>2. \A d \in Destinations : Feeding(d, Spent)' = Feeding(d, Spent \cup srcs)
      BY <1>3 DEF Feeding
    <2>. QED  BY <2>1, <2>2
  <1>4. ASSUME UNCHANGED <<values, links>>, Spent' = Spent
        PROVE  \A d \in Destinations : Feeding(d, Spent)' = {values'[d]} \ {NoValue}
    BY <1>1, <1>4 DEF Feeding
  <1>5. CASE Inward
    <2>1. Spent = {} /\ Spent' = {Composite} \X ExternalInputs
      BY <1>5, FirstTurn
    <2>. QED  BY <1>3, <1>5, <2>1 DEF Inward
  <1>6. ASSUME NEW n \in NodeIndices, FlowEvent(n)
        PROVE  \A d \in Destinations : Feeding(d, Spent)' = {values'[d]} \ {NoValue}
    <2>1. n \in unprocessed  BY <1>6 DEF FlowEvent, NextFlowNodes, ReadyNodes
    <2>2. OutputsOf(n) \cap Spent = {} /\ Spent' = Spent \cup OutputsOf(n)
      BY <1>6, <2>1, TurnOf DEF FlowEvent
    <2>3. Transfer(OutputsOf(n))  BY <1>6 DEF FlowEvent, Produces
    <2>. QED  BY <1>3, <1>6, <2>2, <2>3 DEF FlowEvent
  <1>7. CASE FlowEnds  BY <1>4, <1>7 DEF FlowEnds, Spent
  <1>8. ASSUME NEW n \in NodeIndices, InitializationEvent(n)
        PROVE  \A d \in Destinations : Feeding(d, Spent)' = {values'[d]} \ {NoValue}
    BY <1>4, <1>8 DEF InitializationEvent, Spent
  <1>9. CASE Finalize  BY <1>4, <1>9 DEF Finalize, Spent
  <1>10. ASSUME NEW n \in NodeIndices, FinalizationEvent(n)
         PROVE  \A d \in Destinations : Feeding(d, Spent)' = {values'[d]} \ {NoValue}
    <2>1. n \in unfinalized  BY <1>10 DEF FinalizationEvent, IsFirst
    <2>2. OutputsOf(n) \cap Spent = {} /\ Spent' = Spent \cup OutputsOf(n)
      BY <1>10, <2>1, TurnOf DEF FinalizationEvent
    <2>3. Transfer(OutputsOf(n))  BY <1>10 DEF FinalizationEvent, Produces
    <2>. QED  BY <1>3, <1>10, <2>2, <2>3 DEF FinalizationEvent
  <1>11. CASE UNCHANGED flowVars  BY <1>4, <1>11 DEF flowVars, Spent
  <1>. QED  BY <1>5, <1>6, <1>7, <1>8, <1>9, <1>10, <1>11 DEF FlowNext

LEMMA InvStep == Inv /\ [FlowNext]_flowVars => Inv'
  <1>. SUFFICES ASSUME Inv, [FlowNext]_flowVars PROVE Inv'
    OBVIOUS
  <1>1. FlowTypeOK' /\ ValuesFollowLinks'  BY TypeStep, FollowStep DEF Inv
  <1>2. NoneBeforeInward'
    <2>1. CASE phase' = "inward"
      <3>1. UNCHANGED <<phase, flowNodes, unprocessed, unfinalized>>
        BY <2>1 DEF FlowNext, flowVars, Inward, FlowEvent, FlowEnds, InitializationEvent, Finalize,
                    FinalizationEvent
      <3>. QED  BY <2>1, <3>1 DEF Inv, NoneBeforeInward
    <2>. QED  BY <2>1 DEF NoneBeforeInward
  <1>. QED  BY <1>1, <1>2 DEF Inv

\* The lists of components and the values on the ports are well formed
\* throughout the life of a composite node.
THEOREM FlowTyped == FlowSpec => []FlowTypeOK
  <1>1. Inv => FlowTypeOK  BY DEF Inv
  <1>. QED  BY <1>1, InitInv, InvStep, PTL DEF FlowSpec

\* Whatever the links, in whatever order the nodes run and however user code
\* leaves outputs unassigned: as long as no exception is thrown, each flow
\* port that can be read holds the value of the one port linked to it.
THEOREM ValuesTravelAlongLinks == FlowSpec => []ValuesFollowLinks
  <1>1. Inv => ValuesFollowLinks  BY DEF Inv
  <1>. QED  BY <1>1, InitInv, InvStep, PTL DEF FlowSpec

-----------------------------------------------------------------------------
(* Which compositions complete.                                            *)

Messaging == NodeIndices \ flowNodes
Ran == flowNodes \ unprocessed
Initialized == Messaging \ uninitialized
Unique == \A k, l \in links : k.dst = l.dst => k = l

\* The flow nodes that run in the order of declaration.
Strict == IF IsFlow THEN flowNodes ELSE Late

\* How far each phase has come.
Stages ==
    /\ phase = "inward" => unprocessed = flowNodes
    /\ phase \in {"flow", "initialization", "finalization"} => ~IsFlow
    /\ phase \in {"inward", "flow"} => uninitialized = Messaging
    /\ phase \in {"inward", "flow", "initialization"} => unfinalized = Messaging
    /\ phase \in {"finalization", "last flow", "done"} => uninitialized = {}
    /\ phase \in {"last flow", "done"} => unfinalized = {}
    /\ phase = "done" => unprocessed = {}

\* A node that has run or has been initialized had all its inputs.
Supplied == \A i \in Inputs : i[1] \in Ran \cup Initialized => values[i] # NoValue

\* The links that have been used could be.
Fitting == \A l \in links : l.src \in Spent /\ l.dst[1] = Composite => l.dst[2] \in NodeIndices

\* If no port has two links, nodes run after those they depend on: the late
\* ones at the end, and in order of declaration where the code takes them so.
Ordered ==
    /\ Acyclic(Ran)
    /\ phase \in {"inward", "flow", "initialization", "finalization"} => Late \subseteq unprocessed
    /\ \A l \in links : l.dst[1] \in Initialized => l.src[1] \in Early \cup {Composite}
    /\ phase \in {"last flow", "done"} =>
          /\ \A p \in Ran \cap Strict : \A u \in unprocessed : p < u
          /\ Declared(Ran \cap Strict)

\* If it is wired well, no node but a late one is left for the end.
OnlyLateLeft ==
    phase \notin {"inward", "flow"} /\ ~IsFlow => unprocessed \subseteq Late

Course == Stages /\ Supplied /\ Fitting /\ (Unique => Ordered) /\ (WellWired => OnlyLateLeft)

Failing == thrown \in {"missing input", "multiple values", "no such node"}

\* The inductive invariant.
CourseInv == Inv /\ (thrown = "none" => Course) /\ (Failing => ~WellWired)

\* The ends of a link.
LEMMA LinkEnds ==
    ASSUME FlowTypeOK, NEW l \in links
    PROVE  /\ l.src \in Sources /\ l.dst \in Destinations
           /\ l = [src |-> l.src, dst |-> l.dst]
           /\ l.src[1] \in {Composite} \cup flowNodes \cup Messaging
           /\ l.dst[1] \in {Composite} \cup NodeIndices
           /\ l.dst[1] \in NodeIndices => l.dst \in Inputs
  <1>1. l \in [src : Sources, dst : Destinations]  BY LinkFacts
  <1>2. l.src \in Sources /\ l.dst \in Destinations /\ l = [src |-> l.src, dst |-> l.dst]
    BY <1>1
  <1>3. Outputs \cup Inputs \subseteq NodeIndices \X Nat  BY FlowAssumption
  <1>4. l.src[1] \in {Composite} \cup NodeIndices  BY <1>2, <1>3 DEF Sources
  <1>5. /\ l.dst[1] \in {Composite} \cup NodeIndices
        /\ l.dst[1] \in NodeIndices => l.dst \in Inputs
    BY <1>2, <1>3, PlaceFacts DEF Destinations
  <1>. QED  BY <1>2, <1>4, <1>5 DEF Messaging

\* Which sources have had their turn.
LEMMA SpentFacts ==
    ASSUME FlowTypeOK, NEW src \in Sources
    PROVE  /\ src[1] \in unprocessed \cup unfinalized => src \notin Spent
           /\ phase # "inward" /\ src[1] \in {Composite} \cup Ran \cup (Messaging \ unfinalized)
                 => src \in Spent
  <1>1. /\ unprocessed \subseteq flowNodes /\ unfinalized \subseteq NodeIndices \ flowNodes
        /\ flowNodes \subseteq NodeIndices /\ Composite \notin NodeIndices
    BY LinkFacts, PlaceFacts DEF FlowTypeOK
  <1>. QED  BY <1>1 DEF Spent, Ran, Messaging

\* A destination has a value if a link to it has been used, and if there is one
\* link, only then.
LEMMA ValueFacts ==
    ASSUME FlowTypeOK, ValuesFollowLinks, thrown = "none", NEW l \in links
    PROVE  /\ l.src \in Spent => values[l.dst] # NoValue
           /\ Unique /\ values[l.dst] # NoValue => l.src \in Spent
  <1>1. l.src \in Sources /\ l.dst \in Destinations  BY LinkEnds
  <1>2. Feeding(l.dst, Spent) = {values[l.dst]} \ {NoValue}  BY <1>1 DEF ValuesFollowLinks
  <1>3. ASSUME l.src \in Spent PROVE values[l.dst] # NoValue
    <2>1. l.src \in Feeding(l.dst, Spent)  BY <1>3 DEF Feeding
    <2>. QED  BY <1>2, <2>1
  <1>4. ASSUME Unique, values[l.dst] # NoValue PROVE l.src \in Spent
    <2>1. values[l.dst] \in Feeding(l.dst, Spent)  BY <1>2, <1>4
    <2>2. PICK k \in links : k.dst = l.dst /\ k.src \in Spent  BY <2>1 DEF Feeding
    <2>. QED  BY <1>4, <2>2 DEF Unique
  <1>. QED  BY <1>3, <1>4

\* What a node that can run, or has run, is linked from has had its turn.
LEMMA FedBySpent ==
    ASSUME FlowTypeOK, ValuesFollowLinks, thrown = "none", Supplied, Unique,
           NEW n \in NodeIndices, Ready(n) \/ n \in Ran \cup Initialized,
           NEW l \in links, l.dst[1] = n
    PROVE  l.src \in Spent
  <1>1. l.dst \in Inputs  BY LinkEnds
  <1>2. values[l.dst] # NoValue  BY <1>1 DEF Ready, Supplied
  <1>. QED  BY <1>2, ValueFacts

\* A node that cannot run has an input from a source that has not had its turn.
LEMMA WaitsForUnspent ==
    ASSUME FlowTypeOK, ValuesFollowLinks, thrown = "none",
           \A d \in Inputs : \E l \in links : l.dst = d,
           NEW n \in NodeIndices, ~Ready(n)
    PROVE  \E l \in links : l.dst[1] = n /\ l.src \notin Spent
  <1>1. PICK i \in Inputs : i[1] = n /\ values[i] = NoValue  BY DEF Ready
  <1>2. PICK l \in links : l.dst = i  BY <1>1
  <1>. QED  BY <1>1, <1>2, ValueFacts

\* The late nodes are the least set that holds what depends on it or on a
\* message node.
LEMMA LateFacts ==
    /\ Late \subseteq flowNodes
    /\ IsFlow => Late = {}
    /\ \A l \in links : l.dst[1] \in flowNodes /\ l.src[1] \in Late \cup Messaging => l.dst[1] \in Late
    /\ \A S \in SUBSET flowNodes :
          (\A l \in links : l.dst[1] \in flowNodes /\ l.src[1] \in S \cup Messaging => l.dst[1] \in S)
             => Late \subseteq S
  <1>. DEFINE Closed(S) ==
                 \A l \in links : l.dst[1] \in flowNodes /\ l.src[1] \in S \cup Messaging => l.dst[1] \in S
  <1>1. Late = {n \in flowNodes : \A S \in SUBSET flowNodes : Closed(S) => n \in S}
    BY DEF Late, Messaging
  <1>2. \A l \in links : l.dst[1] \in flowNodes /\ l.src[1] \in Late \cup Messaging => l.dst[1] \in Late
    BY <1>1
  <1>3. IsFlow => Closed({})  BY DEF IsFlow, Messaging
  <1>4. IsFlow => Late = {}  BY <1>1, <1>3
  <1>. HIDE DEF Closed
  <1>5. \A S \in SUBSET flowNodes : Closed(S) => Late \subseteq S  BY <1>1
  <1>. QED  BY <1>1, <1>2, <1>4, <1>5 DEF Closed

\* Nodes that are listed have a first one.
LEMMA FirstOf ==
    ASSUME NEW S \in SUBSET NodeIndices, S # {}
    PROVE  \E n \in S : IsFirst(n, S)
  <1>1. S \subseteq Nat  BY FlowAssumption
  <1>2. PICK n \in S : \A m \in S : n <= m  BY <1>1, LeastNatural
  <1>. QED  BY <1>2 DEF IsFirst

LEMMA Order ==
    ASSUME NEW m \in Nat, NEW n \in Nat
    PROVE  (m <= n /\ m # n => m < n) /\ ~(m < n /\ n <= m)
  OBVIOUS

\* None of this changes in the life of a composite node.
LEMMA SameWiring ==
    ASSUME UNCHANGED <<flowNodes, links>>
    PROVE  /\ Late' = Late /\ Early' = Early /\ Strict' = Strict /\ Messaging' = Messaging
           /\ IsFlow' = IsFlow /\ Unique' = Unique /\ WellWired' = WellWired
           /\ \A S : Acyclic(S)' = Acyclic(S) /\ Declared(S)' = Declared(S)
  BY DEF Late, Early, Strict, Messaging, IsFlow, Unique, WellWired, Acyclic, Declared

-----------------------------------------------------------------------------
(* What a node's turn adds to the order.                                   *)

LEMMA RanGrows ==
    ASSUME FlowTypeOK, ValuesFollowLinks, thrown = "none", Supplied, Unique, Acyclic(Ran),
           NEW n \in unprocessed, Ready(n)
    PROVE  Acyclic(Ran \cup {n})
  <1>1. n \in NodeIndices /\ Ran \subseteq NodeIndices  BY LinkFacts DEF FlowTypeOK, Ran
  <1>2. ASSUME NEW l \in links, l.dst[1] \in Ran \cup {n} PROVE l.src[1] # n
    <2>1. l.src \in Spent  BY <1>1, <1>2, FedBySpent
    <2>. QED  BY <2>1, LinkEnds, SpentFacts
  <1>3. ASSUME NEW T \in (SUBSET (Ran \cup {n})) \ {{}}
        PROVE  \E m \in T : \A l \in links : l.dst[1] = m => l.src[1] \notin T
    <2>1. CASE T = {n}  BY <1>2, <2>1
    <2>2. CASE T # {n}
      <3>1. T \ {n} \in (SUBSET Ran) \ {{}}  BY <2>2
      <3>2. PICK m \in T \ {n} : \A l \in links : l.dst[1] = m => l.src[1] \notin T \ {n}
        BY <3>1 DEF Acyclic
      <3>. QED  BY <1>2, <3>2
    <2>. QED  BY <2>1, <2>2
  <1>. QED  BY <1>3 DEF Acyclic

LEMMA LateWaits ==
    ASSUME FlowTypeOK, ValuesFollowLinks, thrown = "none", Stages, Supplied, Unique,
           phase = "flow", NEW n \in unprocessed, Ready(n)
    PROVE  Late \subseteq unprocessed \ {n}
  <1>1. /\ unprocessed \subseteq flowNodes /\ flowNodes \subseteq NodeIndices
        /\ unfinalized = Messaging
    BY LinkFacts DEF FlowTypeOK, Stages
  <1>2. ASSUME NEW l \in links, l.dst[1] \in flowNodes,
               l.src[1] \in (unprocessed \ {n}) \cup Messaging, l.dst[1] \notin unprocessed \ {n}
        PROVE  FALSE
    <2>1. l.dst[1] = n \/ l.dst[1] \in Ran  BY <1>2 DEF Ran
    <2>2. l.src \in Spent  BY <1>1, <1>2, <2>1, FedBySpent
    <2>. QED  BY <1>1, <1>2, <2>2, LinkEnds, SpentFacts
  <1>3. unprocessed \ {n} \in SUBSET flowNodes  BY <1>1
  <1>. QED  BY <1>2, <1>3, LateFacts

LEMMA StrictTurn ==
    ASSUME FlowTypeOK, ValuesFollowLinks, thrown = "none", Supplied, Unique, Ordered,
           phase = "last flow", NEW n \in unprocessed, IsFirst(n, unprocessed), Ready(n)
    PROVE  /\ \A p \in (Ran \cup {n}) \cap Strict : \A u \in unprocessed \ {n} : p < u
           /\ Declared((Ran \cup {n}) \cap Strict)
  <1>1. /\ unprocessed \subseteq NodeIndices /\ Ran \subseteq NodeIndices /\ NodeIndices \subseteq Nat
        /\ n \in NodeIndices
    BY LinkFacts, FlowAssumption DEF FlowTypeOK, Ran
  <1>2. /\ \A p \in Ran \cap Strict : \A u \in unprocessed : p < u
        /\ Declared(Ran \cap Strict)
    BY DEF Ordered
  <1>3. ASSUME NEW l \in links, l.dst[1] \in Ran \cup {n} PROVE l.src[1] # n
    <2>1. l.src \in Spent  BY <1>1, <1>3, FedBySpent
    <2>. QED  BY <2>1, LinkEnds, SpentFacts
  <1>4. ASSUME NEW u \in unprocessed \ {n} PROVE n < u
    <2>1. n <= u  BY DEF IsFirst
    <2>2. n \in Nat /\ u \in Nat /\ u # n  BY <1>1
    <2>. QED  BY <2>1, <2>2, Order
  <1>5. ASSUME NEW l \in links, l.src[1] \in (Ran \cup {n}) \cap Strict,
               l.dst[1] \in (Ran \cup {n}) \cap Strict
        PROVE  l.src[1] < l.dst[1]
    <2>1. l.src[1] \in Ran \cap Strict  BY <1>3, <1>5
    <2>2. CASE l.dst[1] = n  BY <1>2, <2>1, <2>2
    <2>3. CASE l.dst[1] # n
      <3>1. l.dst[1] \in Ran \cap Strict  BY <1>5, <2>3
      <3>. QED  BY <1>2, <2>1, <3>1 DEF Declared
    <2>. QED  BY <2>2, <2>3
  <1>. QED  BY <1>2, <1>4, <1>5 DEF Declared

\* A transfer keeps what has arrived, and uses links that fit.
LEMMA FitsAfter ==
    ASSUME FlowTypeOK, Fitting, NEW srcs, Transfer(srcs), thrown' = "none",
           Spent' = Spent \cup srcs, UNCHANGED links, thrown = "none"
    PROVE  /\ Fitting'
           /\ \A d \in Destinations : values[d] # NoValue => values'[d] # NoValue
  <1>1. /\ ~ReceivesMultiple(srcs) /\ ~NoSuchNode(srcs)
        /\ values' = [d \in Destinations |->
                         IF \E l \in LinksFrom(srcs) : l.dst = d
                         THEN (CHOOSE l \in LinksFrom(srcs) : l.dst = d).src ELSE values[d]]
    BY DEF Transfer
  <1>2. \A d \in Destinations : values[d] # NoValue => values'[d] # NoValue
    <2>1. \A l \in LinksFrom(srcs) : values[l.dst] = NoValue  BY <1>1 DEF ReceivesMultiple
    <2>. QED  BY <1>1, <2>1
  <1>3. Fitting'
    <2>1. \A l \in links : l.src \in srcs /\ l.dst[1] = Composite => l.dst[2] \in NodeIndices
      BY <1>1 DEF NoSuchNode, LinksFrom
    <2>. QED  BY <2>1 DEF Fitting
  <1>. QED  BY <1>2, <1>3

LEMMA SuppliedAfter ==
    ASSUME Supplied, \A n \in (Ran \cup Initialized)' : n \in Ran \cup Initialized \/ Ready(n),
           \A d \in Destinations : values[d] # NoValue => values'[d] # NoValue
    PROVE  Supplied'
  BY DEF Supplied, Ready, Destinations

-----------------------------------------------------------------------------
(* Nothing is wrong with a composite node that is wired well.              *)

LEMMA TransferSucceeds ==
    ASSUME FlowTypeOK, ValuesFollowLinks, thrown = "none", WellWired,
           NEW srcs, srcs \cap Spent = {}, Transfer(srcs)
    PROVE  thrown' = "none"
  <1>1. Unique  BY DEF WellWired, Unique
  <1>2. ASSUME NEW l \in LinksFrom(srcs)
        PROVE  /\ values[l.dst] = NoValue
               /\ \A k \in LinksFrom(srcs) : k.dst = l.dst => k = l
               /\ l.dst[1] = Composite => l.dst[2] \in NodeIndices
    <2>1. l \in links /\ l.src \notin Spent /\ LinksFrom(srcs) \subseteq links  BY DEF LinksFrom
    <2>2. values[l.dst] = NoValue  BY <1>1, <2>1, ValueFacts
    <2>. QED  BY <1>1, <2>1, <2>2 DEF WellWired, Unique
  <1>3. ~ReceivesMultiple(srcs)  BY <1>2 DEF ReceivesMultiple
  <1>4. ~NoSuchNode(srcs)  BY <1>2 DEF NoSuchNode
  <1>. QED  BY <1>3, <1>4 DEF Transfer

LEMMA NoneReady ==
    ASSUME FlowTypeOK, phase = "flow", NextFlowNodes = {}, NEW n \in unprocessed
    PROVE  ~Ready(n)
  <1>. SUFFICES ASSUME Ready(n) PROVE FALSE
    OBVIOUS
  <1>1. ReadyNodes \in SUBSET NodeIndices /\ ReadyNodes # {}
    BY LinkFacts DEF ReadyNodes, FlowTypeOK
  <1>2. PICK m \in ReadyNodes : IsFirst(m, ReadyNodes)  BY <1>1, FirstOf
  <1>. QED  BY <1>2 DEF NextFlowNodes

LEMMA LeftIsLate ==
    ASSUME FlowTypeOK, ValuesFollowLinks, thrown = "none", Stages, WellWired,
           phase = "flow", NextFlowNodes = {}
    PROVE  unprocessed \subseteq Late
  <1>. DEFINE T == unprocessed \ Late
  <1>. SUFFICES ASSUME T # {} PROVE FALSE
    OBVIOUS
  <1>1. unprocessed \subseteq flowNodes /\ flowNodes \subseteq NodeIndices
    BY LinkFacts DEF FlowTypeOK
  <1>2. T \in (SUBSET Early) \ {{}}  BY <1>1 DEF Early
  <1>3. Acyclic(Early)  BY DEF Stages, WellWired
  <1>4. PICK n \in T : \A l \in links : l.dst[1] = n => l.src[1] \notin T
    BY <1>2, <1>3 DEF Acyclic
  <1>5. ~Ready(n)  BY <1>4, NoneReady
  <1>6. \A d \in Inputs : \E l \in links : l.dst = d  BY DEF WellWired
  <1>7. PICK l \in links : l.dst[1] = n /\ l.src \notin Spent
    BY <1>1, <1>4, <1>5, <1>6, WaitsForUnspent
  <1>8. l.src[1] \in unprocessed \cup Messaging
    BY <1>7, LinkEnds, SpentFacts DEF Ran
  <1>9. l.src[1] \in Late \cup Messaging  BY <1>4, <1>7, <1>8
  <1>. QED  BY <1>1, <1>4, <1>7, <1>9, LateFacts

LEMMA NoneUnfed ==
    ASSUME FlowTypeOK, ValuesFollowLinks, thrown = "none", Stages, OnlyLateLeft, WellWired,
           phase = "initialization", NEW n \in Messaging
    PROVE  Ready(n)
  <1>. SUFFICES ASSUME ~Ready(n) PROVE FALSE
    OBVIOUS
  <1>1. n \in NodeIndices \ flowNodes  BY DEF Messaging
  <1>2. \A d \in Inputs : \E l \in links : l.dst = d  BY DEF WellWired
  <1>3. PICK l \in links : l.dst[1] = n /\ l.src \notin Spent  BY <1>1, <1>2, WaitsForUnspent
  <1>4. l.src[1] \in Early \cup {Composite}  BY <1>1, <1>3 DEF WellWired
  <1>5. unprocessed \subseteq Late  BY DEF Stages, OnlyLateLeft
  <1>6. l.src[1] \in Ran \cup {Composite}  BY <1>4, <1>5 DEF Early, Ran
  <1>. QED  BY <1>3, <1>6, LinkEnds, SpentFacts

LEMMA NoneStuck ==
    ASSUME FlowTypeOK, ValuesFollowLinks, thrown = "none", Stages, OnlyLateLeft, WellWired,
           phase = "last flow", NextFlowNodes = {}
    PROVE  unprocessed = {}
  <1>. SUFFICES ASSUME unprocessed # {} PROVE FALSE
    OBVIOUS
  <1>1. /\ unprocessed \in SUBSET NodeIndices /\ unprocessed \subseteq flowNodes
        /\ NodeIndices \subseteq Nat
    BY LinkFacts, FlowAssumption DEF FlowTypeOK
  <1>2. PICK n \in unprocessed : IsFirst(n, unprocessed)  BY <1>1, FirstOf
  <1>3. ~Ready(n)  BY <1>2 DEF NextFlowNodes, ReadyNodes
  <1>4. \A d \in Inputs : \E l \in links : l.dst = d  BY DEF WellWired
  <1>5. PICK l \in links : l.dst[1] = n /\ l.src \notin Spent
    BY <1>1, <1>2, <1>3, <1>4, WaitsForUnspent
  <1>6. l.src[1] \in unprocessed
    <2>1. unfinalized = {}  BY DEF Stages
    <2>. QED  BY <1>5, <2>1, LinkEnds, SpentFacts DEF Ran
  <1>7. l.src[1] < n
    <2>1. CASE IsFlow
      <3>1. unprocessed \subseteq Early  BY <1>1, <2>1, LateFacts DEF Early
      <3>. QED  BY <1>5, <1>6, <2>1, <3>1 DEF WellWired, Declared
    <2>2. CASE ~IsFlow
      <3>1. unprocessed \subseteq Late  BY <2>2 DEF OnlyLateLeft
      <3>. QED  BY <1>5, <1>6, <3>1 DEF WellWired, Declared
    <2>. QED  BY <2>1, <2>2
  <1>8. n <= l.src[1]  BY <1>2, <1>6 DEF IsFirst
  <1>9. n \in Nat /\ l.src[1] \in Nat  BY <1>1, <1>2, <1>6
  <1>. QED  BY <1>7, <1>8, <1>9, Order

LEMMA ProducesWell ==
    ASSUME FlowTypeOK, ValuesFollowLinks, thrown = "none", WellWired,
           NEW n \in unprocessed \cup unfinalized, Produces(n)
    PROVE  ~Failing'
  <1>1. CASE Transfer(OutputsOf(n))
    <2>1. \A src \in OutputsOf(n) : src \in Sources /\ src[1] = n  BY DEF OutputsOf, Sources
    <2>2. OutputsOf(n) \cap Spent = {}  BY <2>1, SpentFacts
    <2>3. thrown' = "none"  BY <1>1, <2>2, TransferSucceeds
    <2>. QED  BY <2>3 DEF Failing
  <1>2. CASE thrown' = "missing output"  BY <1>2 DEF Failing
  <1>. QED  BY <1>1, <1>2 DEF Produces

LEMMA Succeeds ==
    ASSUME Inv, Course, thrown = "none", WellWired, [FlowNext]_flowVars
    PROVE  ~Failing'
  <1>. USE DEF Inv, Course
  <1>1. CASE Inward
    <2>1. Spent = {}  BY <1>1, FirstTurn
    <2>2. thrown' = "none"  BY <1>1, <2>1, TransferSucceeds DEF Inward
    <2>. QED  BY <2>2 DEF Failing
  <1>2. ASSUME NEW n \in NodeIndices, FlowEvent(n) PROVE ~Failing'
    <2>1. n \in unprocessed /\ Produces(n)  BY <1>2 DEF FlowEvent, NextFlowNodes, ReadyNodes
    <2>. QED  BY <2>1, ProducesWell
  <1>3. CASE FlowEnds
    <2>1. CASE phase = "flow"  BY <1>3, <2>1 DEF FlowEnds, Failing
    <2>2. CASE phase = "last flow"
      <3>1. unprocessed = {}  BY <1>3, <2>2, NoneStuck DEF FlowEnds
      <3>. QED  BY <1>3, <2>2, <3>1 DEF FlowEnds, Failing
    <2>. QED  BY <1>3, <2>1, <2>2 DEF FlowEnds
  <1>4. ASSUME NEW n \in NodeIndices, InitializationEvent(n) PROVE ~Failing'
    <2>1. n \in Messaging  BY <1>4 DEF InitializationEvent, IsFirst, FlowTypeOK, Messaging
    <2>2. Ready(n)  BY <1>4, <2>1, NoneUnfed DEF InitializationEvent
    <2>. QED  BY <1>4, <2>2 DEF InitializationEvent, Failing
  <1>5. CASE Finalize  BY <1>5 DEF Finalize, Failing
  <1>6. ASSUME NEW n \in NodeIndices, FinalizationEvent(n) PROVE ~Failing'
    <2>1. n \in unfinalized /\ Produces(n)  BY <1>6 DEF FinalizationEvent, IsFirst
    <2>. QED  BY <2>1, ProducesWell
  <1>7. CASE UNCHANGED flowVars  BY <1>7 DEF flowVars, Failing
  <1>. QED  BY <1>1, <1>2, <1>3, <1>4, <1>5, <1>6, <1>7 DEF FlowNext

-----------------------------------------------------------------------------
(* The course of a composite node, one action after the other.             *)

LEMMA CourseInward ==
    ASSUME Inv, Course, thrown = "none", thrown' = "none", Inward
    PROVE  Course'
  <1>. USE DEF Inv, Course
  <1>1. /\ Transfer({Composite} \X ExternalInputs)
        /\ phase = "inward" /\ phase' = IF IsFlow THEN "last flow" ELSE "flow"
        /\ unprocessed = flowNodes /\ unfinalized = Messaging /\ uninitialized = Messaging
        /\ UNCHANGED <<flowNodes, links, unprocessed, uninitialized, unfinalized>>
    BY DEF Inward, Stages
  <1>2. /\ IsFlow' = IsFlow /\ Messaging' = Messaging /\ Late' = Late /\ Strict' = Strict
        /\ Unique' = Unique
    BY <1>1, SameWiring
  <1>3. Ran = {} /\ Ran' = {} /\ Initialized = {} /\ Initialized' = {}
    BY <1>1, <1>2 DEF Ran, Initialized
  <1>4. Stages'
    <2>1. IsFlow => Messaging = {}  BY DEF IsFlow, Messaging
    <2>. QED  BY <1>1, <1>2, <2>1 DEF Stages
  <1>5. Fitting' /\ \A d \in Destinations : values[d] # NoValue => values'[d] # NoValue
    <2>1. Spent' = Spent \cup ({Composite} \X ExternalInputs)  BY FirstTurn
    <2>. QED  BY <1>1, <2>1, FitsAfter
  <1>6. Supplied'  BY <1>3 DEF Supplied
  <1>7. Ordered'
    <2>1. Acyclic(Ran)'  BY <1>3 DEF Acyclic
    <2>2. Late' \subseteq unprocessed'  BY <1>1, <1>2, LateFacts
    <2>3. \A l \in links' : l.dst[1] \notin Initialized'  BY <1>3
    <2>4. Declared(Ran \cap Strict)'  BY <1>3 DEF Declared
    <2>. QED  BY <1>3, <2>1, <2>2, <2>3, <2>4 DEF Ordered
  <1>8. OnlyLateLeft'  BY <1>1, <1>2 DEF OnlyLateLeft
  <1>. QED  BY <1>4, <1>5, <1>6, <1>7, <1>8

LEMMA CourseFlow ==
    ASSUME Inv, Course, thrown = "none", thrown' = "none", NEW n \in NodeIndices, FlowEvent(n)
    PROVE  Course'
  <1>. USE DEF Inv, Course
  <1>1. /\ phase \in {"flow", "last flow"} /\ n \in unprocessed /\ Ready(n)
        /\ phase = "last flow" => IsFirst(n, unprocessed)
        /\ unprocessed' = unprocessed \ {n}
        /\ UNCHANGED <<flowNodes, links, uninitialized, unfinalized, phase>>
    BY DEF FlowEvent, NextFlowNodes, ReadyNodes
  <1>2. Transfer(OutputsOf(n))  BY DEF FlowEvent, Produces
  <1>3. /\ IsFlow' = IsFlow /\ Messaging' = Messaging /\ Late' = Late /\ Strict' = Strict
        /\ Early' = Early /\ Unique' = Unique /\ WellWired' = WellWired
    BY <1>1, SameWiring
  <1>4. Ran' = Ran \cup {n} /\ Initialized' = Initialized
    BY <1>1, <1>3 DEF Ran, Initialized, FlowTypeOK
  <1>5. Stages'  BY <1>1, <1>3 DEF Stages
  <1>6. Fitting' /\ \A d \in Destinations : values[d] # NoValue => values'[d] # NoValue
    <2>1. Spent' = Spent \cup OutputsOf(n)  BY <1>1, TurnOf
    <2>. QED  BY <1>1, <1>2, <2>1, FitsAfter
  <1>7. Supplied'
    <2>1. \A m \in (Ran \cup Initialized)' : m \in Ran \cup Initialized \/ Ready(m)  BY <1>1, <1>4
    <2>. QED  BY <1>6, <2>1, SuppliedAfter
  <1>8. ASSUME Unique PROVE Ordered'
    <2>1. Ordered  BY <1>8
    <2>2. Acyclic(Ran \cup {n})  BY <1>1, <1>8, <2>1, RanGrows DEF Ordered
    <2>3. Acyclic(Ran)'  BY <1>1, <1>4, <2>2 DEF Acyclic
    <2>4. phase = "flow" => Late \subseteq unprocessed \ {n}  BY <1>1, <1>8, LateWaits
    <2>5. \A l \in links' : l.dst[1] \in Initialized' => l.src[1] \in Early' \cup {Composite}
      BY <1>1, <1>3, <1>4, <2>1 DEF Ordered
    <2>6. ASSUME phase = "last flow"
          PROVE  /\ \A p \in (Ran \cup {n}) \cap Strict : \A u \in unprocessed \ {n} : p < u
                 /\ Declared(Ran \cap Strict)'
      <3>1. /\ \A p \in (Ran \cup {n}) \cap Strict : \A u \in unprocessed \ {n} : p < u
            /\ Declared((Ran \cup {n}) \cap Strict)
        BY <1>1, <1>8, <2>1, <2>6, StrictTurn
      <3>2. Declared(Ran \cap Strict)'  BY <1>1, <1>3, <1>4, <3>1 DEF Declared
      <3>. QED  BY <3>1, <3>2
    <2>. QED  BY <1>1, <1>3, <1>4, <2>3, <2>4, <2>5, <2>6 DEF Ordered
  <1>9. WellWired => OnlyLateLeft'  BY <1>1, <1>3 DEF OnlyLateLeft
  <1>. QED  BY <1>3, <1>5, <1>6, <1>7, <1>8, <1>9

\* In the other steps no flow node runs.
LEMMA OrderedSame ==
    ASSUME Ordered, UNCHANGED <<flowNodes, links, unprocessed>>,
           \A l \in links : l.dst[1] \in Initialized' => l.src[1] \in Early \cup {Composite},
           \/ /\ phase \in {"flow", "initialization", "finalization"}
              /\ phase' \in {"flow", "initialization", "finalization"}
           \/ phase' \in {"last flow", "done"} /\ (phase = "last flow" \/ Ran \cap Strict = {})
    PROVE  Ordered'
  <1>1. Early' = Early /\ Late' = Late /\ Strict' = Strict  BY SameWiring
  <1>2. Ran' = Ran  BY DEF Ran
  <1>3. Acyclic(Ran)'  BY <1>2 DEF Acyclic, Ordered
  <1>4. phase' \in {"last flow", "done"} =>
           /\ \A p \in Ran' \cap Strict' : \A u \in unprocessed' : p < u
           /\ Declared(Ran \cap Strict)'
    <2>1. CASE phase = "last flow"
      <3>1. /\ \A p \in Ran \cap Strict : \A u \in unprocessed : p < u
            /\ Declared(Ran \cap Strict)
        BY <2>1 DEF Ordered
      <3>. QED  BY <1>1, <1>2, <3>1 DEF Declared
    <2>2. CASE Ran \cap Strict = {}  BY <1>1, <1>2, <2>2 DEF Declared
    <2>. QED  BY <2>1, <2>2
  <1>5. phase' \in {"inward", "flow", "initialization", "finalization"} => Late' \subseteq unprocessed'
    BY <1>1 DEF Ordered
  <1>. QED  BY <1>1, <1>3, <1>4, <1>5 DEF Ordered

LEMMA CourseQuiet ==
    ASSUME Inv, Course, thrown = "none", thrown' = "none",
           FlowEnds \/ Finalize \/ \E n \in NodeIndices : InitializationEvent(n)
    PROVE  Course'
  <1>. USE DEF Inv, Course
  <1>1. UNCHANGED <<flowNodes, links, values, unprocessed, unfinalized>>
    BY DEF FlowEnds, Finalize, InitializationEvent
  <1>2. /\ IsFlow' = IsFlow /\ Messaging' = Messaging /\ Late' = Late
        /\ Unique' = Unique /\ WellWired' = WellWired
    BY <1>1, SameWiring
  <1>3. Ran' = Ran  BY <1>1 DEF Ran
  <1>4. phase # "inward" /\ phase' # "inward" /\ Spent' = Spent
    BY <1>1 DEF FlowEnds, Finalize, InitializationEvent, Spent
  <1>5. Fitting'  BY <1>1, <1>4 DEF Fitting
  <1>6. CASE FlowEnds
    <2>1. /\ \/ phase = "flow" /\ phase' = "initialization"
             \/ phase = "last flow" /\ phase' = "done" /\ unprocessed = {}
          /\ uninitialized' = uninitialized /\ NextFlowNodes = {}
      BY <1>6 DEF FlowEnds
    <2>2. Initialized' = Initialized  BY <1>2, <2>1 DEF Initialized
    <2>3. Stages'  BY <1>1, <1>2, <2>1 DEF Stages
    <2>4. Supplied'  BY <1>1, <1>3, <2>2 DEF Supplied
    <2>5. Unique => Ordered'
      <3>1. Ordered => \A l \in links : l.dst[1] \in Initialized' => l.src[1] \in Early \cup {Composite}
        BY <2>2 DEF Ordered
      <3>. QED  BY <1>1, <2>1, <3>1, OrderedSame
    <2>6. WellWired => OnlyLateLeft'
      <3>1. CASE phase = "flow"
        <4>1. WellWired => unprocessed \subseteq Late  BY <2>1, <3>1, LeftIsLate
        <4>. QED  BY <1>1, <1>2, <4>1 DEF OnlyLateLeft
      <3>2. CASE phase # "flow"  BY <1>1, <1>2, <2>1, <3>2 DEF OnlyLateLeft
      <3>. QED  BY <3>1, <3>2
    <2>. QED  BY <1>2, <1>5, <2>3, <2>4, <2>5, <2>6
  <1>7. CASE Finalize
    <2>1. /\ phase = "initialization" /\ phase' = "finalization"
          /\ uninitialized = {} /\ uninitialized' = uninitialized
      BY <1>7 DEF Finalize
    <2>2. Initialized' = Initialized  BY <1>2, <2>1 DEF Initialized
    <2>3. Stages'  BY <1>1, <1>2, <2>1 DEF Stages
    <2>4. Supplied'  BY <1>1, <1>3, <2>2 DEF Supplied
    <2>5. Unique => Ordered'
      <3>1. Ordered => \A l \in links : l.dst[1] \in Initialized' => l.src[1] \in Early \cup {Composite}
        BY <2>2 DEF Ordered
      <3>. QED  BY <1>1, <2>1, <3>1, OrderedSame
    <2>6. WellWired => OnlyLateLeft'  BY <1>1, <1>2, <2>1 DEF OnlyLateLeft
    <2>. QED  BY <1>2, <1>5, <2>3, <2>4, <2>5, <2>6
  <1>8. ASSUME NEW n \in NodeIndices, InitializationEvent(n) PROVE Course'
    <2>1. /\ phase = "initialization" /\ phase' = phase /\ Ready(n)
          /\ n \in uninitialized /\ uninitialized' = uninitialized \ {n}
      BY <1>8 DEF InitializationEvent, IsFirst
    <2>2. n \in Messaging /\ Initialized' = Initialized \cup {n}
      BY <1>2, <2>1 DEF Initialized, Messaging, FlowTypeOK
    <2>3. Stages'  BY <1>1, <1>2, <2>1 DEF Stages
    <2>4. Supplied'
      <3>1. \A m \in (Ran \cup Initialized)' : m \in Ran \cup Initialized \/ Ready(m)
        BY <1>3, <2>1, <2>2
      <3>2. \A d \in Destinations : values[d] # NoValue => values'[d] # NoValue  BY <1>1
      <3>. QED  BY <3>1, <3>2, SuppliedAfter
    <2>5. ASSUME Unique PROVE Ordered'
      <3>1. Ordered  BY <2>5
      <3>2. ASSUME NEW l \in links, l.dst[1] = n PROVE l.src[1] \in Early \cup {Composite}
        <4>1. l.src \in Spent  BY <2>1, <2>5, <3>2, FedBySpent
        <4>2. l.src[1] \in {Composite} \cup Ran
          <5>1. unfinalized = Messaging  BY <2>1 DEF Stages
          <5>. QED  BY <4>1, <5>1, LinkEnds, SpentFacts DEF Ran
        <4>3. Late \subseteq unprocessed  BY <2>1, <3>1 DEF Ordered
        <4>. QED  BY <4>2, <4>3 DEF Ran, Early
      <3>3. \A l \in links : l.dst[1] \in Initialized' => l.src[1] \in Early \cup {Composite}
        BY <2>2, <3>1, <3>2 DEF Ordered
      <3>. QED  BY <1>1, <2>1, <3>1, <3>3, OrderedSame
    <2>6. WellWired => OnlyLateLeft'  BY <1>1, <1>2, <2>1 DEF OnlyLateLeft
    <2>. QED  BY <1>2, <1>5, <2>3, <2>4, <2>5, <2>6
  <1>. QED  BY <1>6, <1>7, <1>8

LEMMA CourseFinal ==
    ASSUME Inv, Course, thrown = "none", thrown' = "none",
           NEW n \in NodeIndices, FinalizationEvent(n)
    PROVE  Course'
  <1>. USE DEF Inv, Course
  <1>1. /\ phase = "finalization" /\ n \in unfinalized
        /\ unfinalized' = unfinalized \ {n}
        /\ phase' = IF unfinalized' = {} THEN "last flow" ELSE phase
        /\ UNCHANGED <<flowNodes, links, unprocessed, uninitialized>>
    BY DEF FinalizationEvent, IsFirst
  <1>2. Transfer(OutputsOf(n))  BY DEF FinalizationEvent, Produces
  <1>3. /\ IsFlow' = IsFlow /\ Messaging' = Messaging /\ Late' = Late
        /\ Unique' = Unique /\ WellWired' = WellWired
    BY <1>1, SameWiring
  <1>4. Ran' = Ran /\ Initialized' = Initialized  BY <1>1, <1>3 DEF Ran, Initialized
  <1>5. Stages'  BY <1>1, <1>3 DEF Stages
  <1>6. Fitting' /\ \A d \in Destinations : values[d] # NoValue => values'[d] # NoValue
    <2>1. Spent' = Spent \cup OutputsOf(n)  BY <1>1, TurnOf
    <2>. QED  BY <1>1, <1>2, <2>1, FitsAfter
  <1>7. Supplied'
    <2>1. \A m \in (Ran \cup Initialized)' : m \in Ran \cup Initialized  BY <1>4
    <2>. QED  BY <1>6, <2>1, SuppliedAfter
  <1>8. ASSUME Unique PROVE Ordered'
    <2>1. Ordered  BY <1>8
    <2>2. \A l \in links : l.dst[1] \in Initialized' => l.src[1] \in Early \cup {Composite}
      BY <1>4, <2>1 DEF Ordered
    <2>3. Ran \cap Strict = {}
      <3>1. Late \subseteq unprocessed /\ ~IsFlow  BY <1>1, <2>1 DEF Ordered, Stages
      <3>. QED  BY <3>1 DEF Ran, Strict
    <2>. QED  BY <1>1, <2>1, <2>2, <2>3, OrderedSame
  <1>9. WellWired => OnlyLateLeft'  BY <1>1, <1>3 DEF OnlyLateLeft
  <1>. QED  BY <1>3, <1>5, <1>6, <1>7, <1>8, <1>9

LEMMA CourseStep ==
    ASSUME Inv, Course, thrown = "none", thrown' = "none", [FlowNext]_flowVars
    PROVE  Course'
  <1>1. CASE UNCHANGED flowVars
    <2>1. UNCHANGED <<flowNodes, links, values, unprocessed, uninitialized, unfinalized, phase>>
      BY <1>1 DEF flowVars
    <2>2. /\ Late' = Late /\ Early' = Early /\ Strict' = Strict /\ Messaging' = Messaging
          /\ IsFlow' = IsFlow /\ Unique' = Unique /\ WellWired' = WellWired
      BY <2>1, SameWiring
    <2>3. Ran' = Ran /\ Initialized' = Initialized /\ Spent' = Spent
      BY <2>1, <2>2 DEF Ran, Initialized, Spent
    <2>4. Stages' /\ Supplied' /\ Fitting' /\ (WellWired' => OnlyLateLeft')
      BY <2>1, <2>2, <2>3 DEF Course, Stages, Supplied, Fitting, OnlyLateLeft
    <2>5. Ordered => Ordered'
      BY <2>1, <2>2, <2>3 DEF Ordered, Acyclic, Declared
    <2>. QED  BY <2>2, <2>4, <2>5 DEF Course
  <1>. QED  BY <1>1, CourseInward, CourseFlow, CourseQuiet, CourseFinal DEF FlowNext

\* A composite node that has come to its end is wired well.
LEMMA DoneWell ==
    ASSUME Inv, Course, thrown = "none", phase = "done"
    PROVE  WellWired
  <1>. USE DEF Inv, Course
  <1>1. /\ unprocessed = {} /\ uninitialized = {} /\ unfinalized = {}
        /\ Ran = flowNodes /\ Initialized = Messaging
    BY DEF Stages, Ran, Initialized
  <1>2. \A l \in links : l.src \in Spent  BY <1>1, LinkEnds, SpentFacts
  <1>3. ASSUME NEW d \in Inputs PROVE \E l \in links : l.dst = d
    <2>1. d[1] \in NodeIndices /\ d \in Destinations  BY FlowAssumption DEF Destinations
    <2>2. values[d] # NoValue  BY <1>1, <2>1 DEF Supplied, Messaging
    <2>3. values[d] \in Feeding(d, Spent)  BY <2>1, <2>2 DEF ValuesFollowLinks
    <2>. QED  BY <2>3 DEF Feeding
  <1>4. ASSUME NEW k \in links, NEW l \in links, k.dst = l.dst PROVE k = l
    <2>1. Feeding(l.dst, Spent) = {values[l.dst]} \ {NoValue}
      BY LinkEnds DEF ValuesFollowLinks
    <2>2. k.src \in Feeding(l.dst, Spent) /\ l.src \in Feeding(l.dst, Spent)
      BY <1>2, <1>4 DEF Feeding
    <2>3. k.src = l.src  BY <2>1, <2>2
    <2>. QED  BY <1>4, <2>3, LinkEnds
  <1>5. Unique /\ Ordered  BY <1>4 DEF Unique
  <1>6. \A l \in links : l.dst[1] \in NodeIndices \ flowNodes => l.src[1] \in Early \cup {Composite}
    BY <1>1, <1>5 DEF Ordered, Messaging
  <1>7. \A l \in links : l.dst[1] = Composite => l.dst[2] \in NodeIndices
    BY <1>2 DEF Fitting
  <1>8. (IF IsFlow THEN Declared(Early) ELSE Acyclic(Early)) /\ Declared(Late)
    <2>1. Acyclic(flowNodes) /\ Declared(flowNodes \cap Strict)  BY <1>1, <1>5 DEF Ordered
    <2>2. Late \subseteq flowNodes /\ (IsFlow => Late = {})  BY LateFacts
    <2>3. Early \subseteq flowNodes  BY DEF Early
    <2>4. ~IsFlow => Acyclic(Early)  BY <2>1, <2>3 DEF Acyclic
    <2>5. IsFlow => Declared(Early)  BY <2>1, <2>3 DEF Declared, Strict
    <2>6. Declared(Late)  BY <2>1, <2>2 DEF Declared, Strict
    <2>. QED  BY <2>4, <2>5, <2>6
  <1>. QED  BY <1>3, <1>4, <1>6, <1>7, <1>8 DEF WellWired

LEMMA InitCourse == FlowInit => CourseInv
  <1>. SUFFICES ASSUME FlowInit PROVE CourseInv
    OBVIOUS
  <1>1. Inv  BY InitInv
  <1>2. /\ unprocessed = flowNodes /\ uninitialized = Messaging /\ unfinalized = Messaging
        /\ phase = "inward" /\ thrown = "none"
    BY DEF FlowInit, Messaging
  <1>3. Ran = {} /\ Initialized = {} /\ Spent = {}
    BY <1>2 DEF Ran, Initialized, Spent, Messaging
  <1>4. Stages /\ OnlyLateLeft  BY <1>2 DEF Stages, OnlyLateLeft
  <1>5. Supplied /\ Fitting  BY <1>3 DEF Supplied, Fitting
  <1>6. Ordered
    <2>1. Acyclic(Ran)  BY <1>3 DEF Acyclic
    <2>. QED  BY <1>2, <1>3, <2>1, LateFacts DEF Ordered
  <1>. QED  BY <1>1, <1>2, <1>4, <1>5, <1>6 DEF CourseInv, Course, Failing

\* For any components, ports and links, whatever user code assigns: a composite
\* node comes to its end without a failure only if it is wired well, and then
\* it does not fail but for an output that user code leaves unassigned.
THEOREM CompletesJustIfWellWired == FlowSpec => []CompletesIfWellWired
  <1>1. CourseInv /\ [FlowNext]_flowVars => CourseInv'
    <2>. SUFFICES ASSUME CourseInv, [FlowNext]_flowVars PROVE CourseInv'
      OBVIOUS
    <2>1. Inv'  BY InvStep DEF CourseInv
    <2>2. UNCHANGED <<flowNodes, links>>
      BY DEF FlowNext, flowVars, Inward, FlowEvent, FlowEnds, InitializationEvent, Finalize, FinalizationEvent
    <2>3. WellWired' = WellWired  BY <2>2, SameWiring
    <2>4. CASE thrown = "none"
      <3>1. thrown' = "none" => Course'  BY <2>4, CourseStep DEF CourseInv
      <3>2. Failing' => ~WellWired  BY <2>4, Succeeds DEF CourseInv
      <3>. QED  BY <2>1, <2>3, <3>1, <3>2 DEF CourseInv
    <2>5. CASE thrown # "none"
      <3>1. UNCHANGED flowVars  BY <2>5 DEF FlowNext
      <3>. QED  BY <2>1, <2>3, <2>5, <3>1 DEF CourseInv, flowVars, Failing
    <2>. QED  BY <2>4, <2>5
  <1>2. CourseInv => CompletesIfWellWired
    BY DoneWell DEF CourseInv, CompletesIfWellWired, Failing
  <1>. QED  BY <1>1, <1>2, InitCourse, PTL DEF FlowSpec
=============================================================================
