--------------------------- MODULE NodeEvents_proofs ---------------------------
(***************************************************************************)
(* Proofs about NodeEvents: the stack of events in progress follows the    *)
(* tree of nodes; so do the interfaces that are open, the timers that run, *)
(* the messages that wait and the errors on their way up.                  *)
(***************************************************************************)
EXTENDS NodeEvents, SequenceTheorems, TLAPS

-----------------------------------------------------------------------------
(* Frames                                                                  *)

EventNames == {"initialization", "planned", "unplanned", "finalization"}
StepRecords ==
    [do : EventNames \cup {"outward", "drain", "micro"}, node : Nodes]
Frames ==
    [node : Nodes, event : EventNames, pc : {"enter", "user", "call", "remove"},
     todo : Seq(StepRecords)]
Interfaces ==
    [active : BOOLEAN, dmode : {"flow", "message"}, dgoal : {"input", "output"},
     given : BOOLEAN, received : BOOLEAN, outputs : Nat, assigned : BOOLEAN]

\* What a composite node does in an event of its own.
Within(event) ==
    IF event = "planned" THEN {"planned", "unplanned", "outward", "drain"} ELSE {event}

\* A frame is that of one of the three kinds of node, and has only to do what
\* the event of such a node consists of.
FrameOK(f) ==
    /\ f.pc = "enter" => f.todo = <<>>
    /\ f.node \in CompositeNodes =>
          /\ f.pc \in {"enter", "call"}
          /\ \A k \in DOMAIN f.todo :
                f.todo[k].do \in Within(f.event) /\ f.todo[k].node \in Owned(f.node)
    /\ f.node \in Collections =>
          /\ f.pc = "remove" => f.event = "finalization"
          /\ f.todo # <<>> => f.event = "planned"
          /\ \A k \in DOMAIN f.todo :
                f.todo[k].do \in {"planned", "micro", "drain"} /\ f.todo[k].node \in Owned(f.node)
    /\ f.node \in Atomics => f.pc # "remove" /\ f.todo = <<>>

\* A frame is called by the one below it.
CalledBy(f, g) ==
    /\ f.node \in Owners /\ g.node \in Owned(f.node)
    /\ f.node \in CompositeNodes => f.pc = "call" /\ g.event \in Within(f.event)
    /\ f.node \in Collections =>
          IF g.event = "planned" THEN f.pc = "call" /\ f.event = "planned"
          ELSE f.pc \in {"user", "remove"}

StackOK ==
    /\ stack \in Seq(Frames)
    /\ \A i \in 1 .. Len(stack) : FrameOK(stack[i])
    /\ \A i \in 1 .. Len(stack) - 1 : CalledBy(stack[i], stack[i + 1])
    /\ stack # <<>> => stack[1].node = Top /\ stack[1].event # "unplanned"

Typed ==
    /\ io \in [Nodes -> Interfaces]
    /\ thrown \in {Nothing} \cup [type : {"exception", "error"}, named : Nodes, origin : Nodes]
    /\ StackOK

-----------------------------------------------------------------------------
(* The tree and the stack                                                  *)

\* What the tree assumption says, one fact at a time.
LEMMA Kinds ==
    ASSUME WellFormed, NEW n \in Nodes
    PROVE  /\ n \in CompositeNodes \/ n \in Collections \/ n \in Atomics
           /\ ~(n \in CompositeNodes /\ n \in Collections)
           /\ n \in Owners => n \notin Atomics
           /\ n \in CompositeNodes => Owned(n) = ToSet(Components[n]) /\ Owned(n) \subseteq Nodes
           /\ n \in Collections => Owned(n) = Agents[n] /\ Owned(n) \subseteq Nodes
<1>1. n \in CompositeNodes => Components[n] \in Seq(Nodes)
  BY DEF WellFormed
<1>2. n \in CompositeNodes => \A k \in DOMAIN Components[n] : Components[n][k] \in Nodes
  BY <1>1, LenProperties, ElementOfSeq
<1>3. n \in CompositeNodes => ToSet(Components[n]) \subseteq Nodes
  BY <1>2 DEF ToSet
<1>4. QED
  BY <1>3 DEF WellFormed, Atomics, Owners, Owned

\* No node is twice on the stack: a cycle of owners would be a set of nodes
\* all of which have their owner in it.
LEMMA OnceOnPath ==
    ASSUME WellFormed, NEW path \in Seq(Frames),
           \A i \in 1 .. Len(path) - 1 : CalledBy(path[i], path[i + 1]),
           NEW i \in 1 .. Len(path), NEW j \in 1 .. Len(path), i # j
    PROVE  path[i].node # path[j].node
<1>1. Len(path) \in Nat /\ \A k \in 1 .. Len(path) : path[k].node \in Nodes
  <2>1. Len(path) \in Nat /\ \A k \in 1 .. Len(path) : path[k] \in Frames
    BY LenProperties, ElementOfSeq
  <2>2. QED
    BY <2>1 DEF Frames
<1>2. ASSUME NEW a \in 1 .. Len(path), NEW b \in 1 .. Len(path), a < b,
             path[a].node = path[b].node
      PROVE  FALSE
  <2> DEFINE S == {path[k].node : k \in a + 1 .. b}
  <2>1. b \in a + 1 .. b
    BY <1>1, <1>2
  <2>2. S # {}
    BY <2>1
  <2>3. \A k \in a + 1 .. b : k \in 1 .. Len(path)
    BY <1>1
  <2>4. S \subseteq Nodes
    BY <1>1, <2>3
  <2> HIDE DEF S
  <2>5. PICK n \in S : \A c \in Owners \cap S : n \notin Owned(c)
    BY <2>2, <2>4 DEF WellFormed
  <2>6. PICK k \in a + 1 .. b : n = path[k].node
    BY <2>5 DEF S
  <2>7. k - 1 \in 1 .. Len(path) - 1 /\ (k - 1) + 1 = k
    BY <1>1, <2>6
  <2>8. path[k - 1].node \in Owners /\ n \in Owned(path[k - 1].node)
    BY <2>6, <2>7 DEF CalledBy
  <2>9. path[k - 1].node \in S
    <3>1. CASE k = a + 1
      <4>1. k - 1 = a
        BY <1>1, <3>1
      <4>2. QED
        BY <1>2, <2>1, <4>1 DEF S
    <3>2. CASE k # a + 1
      <4>1. k - 1 \in a + 1 .. b
        BY <1>1, <2>6, <3>2
      <4>2. QED
        BY <4>1 DEF S
    <3>3. QED
      BY <3>1, <3>2
  <2>10. QED
    BY <2>5, <2>8, <2>9
<1>3. i < j \/ j < i
  BY <1>1
<1>4. QED
  BY <1>2, <1>3

LEMMA OnceOnStack ==
    ASSUME WellFormed, StackOK, NEW i \in 1 .. Len(stack), NEW j \in 1 .. Len(stack), i # j
    PROVE  stack[i].node # stack[j].node
  BY OnceOnPath DEF StackOK

\* The frame that runs.
LEMMA RunningFrame ==
    ASSUME StackOK, stack # <<>>
    PROVE  /\ Len(stack) \in Nat /\ Len(stack) > 0
           /\ DOMAIN stack = 1 .. Len(stack)
           /\ Running = stack[Len(stack)] /\ Running \in Frames /\ FrameOK(Running)
           /\ Me \in Nodes
<1>1. Len(stack) \in Nat /\ Len(stack) > 0 /\ DOMAIN stack = 1 .. Len(stack)
  BY LenProperties, EmptySeq DEF StackOK
<1>2. Running = stack[Len(stack)]
  BY DEF Running, Last
<1>3. Len(stack) \in 1 .. Len(stack)
  BY <1>1
<1>4. stack \in Seq(Frames) /\ FrameOK(stack[Len(stack)])
  BY <1>3 DEF StackOK
<1>5. stack[Len(stack)] \in Frames
  BY <1>3, <1>4, ElementOfSeq
<1>6. QED
  BY <1>1, <1>2, <1>4, <1>5 DEF Frames, Me

\* Sequences that are cut off and extended.
LEMMA Prefix ==
    ASSUME NEW S, NEW s \in Seq(S), NEW n \in 0 .. Len(s)
    PROVE  /\ SubSeq(s, 1, n) \in Seq(S) /\ Len(SubSeq(s, 1, n)) = n
           /\ \A i \in 1 .. n : SubSeq(s, 1, n)[i] = s[i]
<1>1. \A i \in 1 .. n : s[i] \in S /\ i \in 1 .. Len(s)
  BY ElementOfSeq
<1>2. QED
  BY <1>1

LEMMA Extended ==
    ASSUME NEW S, NEW s \in Seq(S), NEW x \in S
    PROVE  /\ s \o <<x>> \in Seq(S) /\ Len(s \o <<x>>) = Len(s) + 1
           /\ (s \o <<x>>)[Len(s) + 1] = x
           /\ \A i \in 1 .. Len(s) : (s \o <<x>>)[i] = s[i]
  OBVIOUS

\* Replacing the frame that runs, putting one on top of it, taking it away.
LEMMA PoppedFrame ==
    ASSUME StackOK, stack # <<>>
    PROVE  /\ Front(stack) \in Seq(Frames) /\ Len(Front(stack)) = Len(stack) - 1
           /\ \A i \in 1 .. Len(stack) - 1 : Front(stack)[i] = stack[i]
<1>1. stack \in Seq(Frames)
  BY DEF StackOK
<1>2. Len(stack) - 1 \in 0 .. Len(stack)
  BY RunningFrame
<1>3. QED
  BY <1>1, <1>2, Prefix DEF Front

LEMMA ReplacedFrame ==
    ASSUME StackOK, stack # <<>>, NEW f \in Frames
    PROVE  /\ WithRunning(f) \in Seq(Frames) /\ Len(WithRunning(f)) = Len(stack)
           /\ WithRunning(f)[Len(stack)] = f
           /\ \A i \in 1 .. Len(stack) - 1 : WithRunning(f)[i] = stack[i]
<1>1. Len(stack) \in Nat /\ Len(stack) > 0
  BY RunningFrame
<1>2. QED
  BY <1>1, PoppedFrame, Extended DEF WithRunning

LEMMA PushedFrame ==
    ASSUME StackOK, stack # <<>>, NEW f \in Frames, NEW g \in Frames
    PROVE  /\ WithRunning(f) \o <<g>> \in Seq(Frames)
           /\ Len(WithRunning(f) \o <<g>>) = Len(stack) + 1
           /\ (WithRunning(f) \o <<g>>)[Len(stack) + 1] = g
           /\ (WithRunning(f) \o <<g>>)[Len(stack)] = f
           /\ \A i \in 1 .. Len(stack) - 1 : (WithRunning(f) \o <<g>>)[i] = stack[i]
<1>1. Len(stack) \in Nat /\ Len(stack) > 0
  BY RunningFrame
<1>2. Len(stack) \in 1 .. Len(stack) /\ \A i \in 1 .. Len(stack) - 1 : i \in 1 .. Len(stack)
  BY <1>1
<1> DEFINE s == WithRunning(f)
<1>3. /\ s \in Seq(Frames) /\ Len(s) = Len(stack) /\ s[Len(stack)] = f
      /\ \A i \in 1 .. Len(stack) - 1 : s[i] = stack[i]
  BY ReplacedFrame
<1> HIDE DEF s
<1>4. /\ s \o <<g>> \in Seq(Frames) /\ Len(s \o <<g>>) = Len(s) + 1
      /\ (s \o <<g>>)[Len(s) + 1] = g
      /\ \A i \in 1 .. Len(s) : (s \o <<g>>)[i] = s[i]
  BY <1>3, Extended
<1>5. QED
  BY <1>2, <1>3, <1>4 DEF s

LEMMA ResumedFrame ==
    ASSUME StackOK, stack # <<>>, Len(stack) # 1, NEW f \in Frames
    PROVE  LET s == SubSeq(stack, 1, Len(stack) - 2) \o <<f>>
           IN  /\ s \in Seq(Frames) /\ Len(s) = Len(stack) - 1
               /\ s[Len(stack) - 1] = f
               /\ \A i \in 1 .. Len(stack) - 2 : s[i] = stack[i]
<1> DEFINE b == SubSeq(stack, 1, Len(stack) - 2)
<1>1. stack \in Seq(Frames)
  BY DEF StackOK
<1>2. Len(stack) \in Nat /\ Len(stack) - 2 \in 0 .. Len(stack)
  BY RunningFrame
<1>3. /\ b \in Seq(Frames) /\ Len(b) = Len(stack) - 2
      /\ \A i \in 1 .. Len(stack) - 2 : b[i] = stack[i]
  BY <1>1, <1>2, Prefix
<1> HIDE DEF b
<1>4. /\ b \o <<f>> \in Seq(Frames) /\ Len(b \o <<f>>) = Len(b) + 1
      /\ (b \o <<f>>)[Len(b) + 1] = f
      /\ \A i \in 1 .. Len(b) : (b \o <<f>>)[i] = b[i]
  BY <1>3, Extended
<1>5. Len(b) + 1 = Len(stack) - 1
  BY <1>2, <1>3
<1>6. /\ b \o <<f>> \in Seq(Frames) /\ Len(b \o <<f>>) = Len(stack) - 1
      /\ (b \o <<f>>)[Len(stack) - 1] = f
      /\ \A i \in 1 .. Len(stack) - 2 : (b \o <<f>>)[i] = stack[i]
  BY <1>3, <1>4, <1>5
<1>7. QED
  BY <1>6 DEF b

\* The stack stays a path of calls down the tree.
LEMMA StackReplaced ==
    ASSUME StackOK, stack # <<>>, NEW f \in Frames, stack' = WithRunning(f),
           FrameOK(f), f.node = Me, f.event = Running.event
    PROVE  StackOK'
<1>1. /\ stack' \in Seq(Frames) /\ Len(stack') = Len(stack) /\ stack'[Len(stack)] = f
      /\ \A i \in 1 .. Len(stack) - 1 : stack'[i] = stack[i]
  BY ReplacedFrame
<1>2. Len(stack) \in Nat /\ Len(stack) > 0 /\ Running = stack[Len(stack)]
  BY RunningFrame
<1>3. /\ \A i \in 1 .. Len(stack) : FrameOK(stack[i])
      /\ \A i \in 1 .. Len(stack) - 1 : CalledBy(stack[i], stack[i + 1])
      /\ stack[1].node = Top /\ stack[1].event # "unplanned"
  BY DEF StackOK
<1>4. \A i \in 1 .. Len(stack) :
         stack'[i].node = stack[i].node /\ stack'[i].event = stack[i].event
  <2>1. \A i \in 1 .. Len(stack) : i \in 1 .. Len(stack) - 1 \/ i = Len(stack)
    BY <1>2
  <2>2. f.node = stack[Len(stack)].node /\ f.event = stack[Len(stack)].event
    BY <1>2 DEF Me
  <2>3. QED
    BY <1>1, <2>1, <2>2
<1>5. \A i \in 1 .. Len(stack') : FrameOK(stack'[i])
  BY <1>1, <1>2, <1>3
<1>6. \A i \in 1 .. Len(stack') - 1 : CalledBy(stack'[i], stack'[i + 1])
  <2>1. SUFFICES ASSUME NEW i \in 1 .. Len(stack) - 1 PROVE CalledBy(stack'[i], stack'[i + 1])
    BY <1>1
  <2>2. i + 1 \in 1 .. Len(stack) /\ stack'[i] = stack[i]
    BY <1>1, <1>2
  <2>3. CalledBy(stack[i], stack[i + 1])
    BY <1>3
  <2>4. QED
    BY <1>4, <2>2, <2>3 DEF CalledBy
<1>7. stack'[1].node = Top /\ stack'[1].event # "unplanned"
  BY <1>2, <1>3, <1>4
<1>8. QED
  BY <1>1, <1>5, <1>6, <1>7 DEF StackOK, FrameOK, CalledBy

LEMMA StackPushed ==
    ASSUME StackOK, stack # <<>>, NEW f \in Frames, NEW g \in Frames,
           stack' = WithRunning(f) \o <<g>>,
           FrameOK(f), f.node = Me, f.event = Running.event, FrameOK(g), CalledBy(f, g)
    PROVE  StackOK'
<1>1. /\ stack' \in Seq(Frames) /\ Len(stack') = Len(stack) + 1
      /\ stack'[Len(stack) + 1] = g /\ stack'[Len(stack)] = f
      /\ \A i \in 1 .. Len(stack) - 1 : stack'[i] = stack[i]
  <2> DEFINE s == WithRunning(f) \o <<g>>
  <2>1. /\ s \in Seq(Frames) /\ Len(s) = Len(stack) + 1
        /\ s[Len(stack) + 1] = g /\ s[Len(stack)] = f
        /\ \A i \in 1 .. Len(stack) - 1 : s[i] = stack[i]
    BY PushedFrame
  <2>2. stack' = s
    OBVIOUS
  <2> HIDE DEF s
  <2>3. QED
    BY <2>1, <2>2
<1>2. Len(stack) \in Nat /\ Len(stack) > 0 /\ Running = stack[Len(stack)]
  BY RunningFrame
<1>3. /\ \A i \in 1 .. Len(stack) : FrameOK(stack[i])
      /\ \A i \in 1 .. Len(stack) - 1 : CalledBy(stack[i], stack[i + 1])
      /\ stack[1].node = Top /\ stack[1].event # "unplanned"
  BY DEF StackOK
<1>4. \A i \in 1 .. Len(stack) :
         stack'[i].node = stack[i].node /\ stack'[i].event = stack[i].event
  <2>1. \A i \in 1 .. Len(stack) : i \in 1 .. Len(stack) - 1 \/ i = Len(stack)
    BY <1>2
  <2>2. f.node = stack[Len(stack)].node /\ f.event = stack[Len(stack)].event
    BY <1>2 DEF Me
  <2>3. QED
    BY <1>1, <2>1, <2>2
<1>5. \A i \in 1 .. Len(stack') : FrameOK(stack'[i])
  BY <1>1, <1>2, <1>3
<1>6. \A i \in 1 .. Len(stack') - 1 : CalledBy(stack'[i], stack'[i + 1])
  <2>1. SUFFICES ASSUME NEW i \in 1 .. Len(stack) PROVE CalledBy(stack'[i], stack'[i + 1])
    BY <1>1, <1>2
  <2>2. CASE i = Len(stack)
    BY <1>1, <2>2
  <2>3. CASE i # Len(stack)
    <3>1. i \in 1 .. Len(stack) - 1 /\ i + 1 \in 1 .. Len(stack) /\ stack'[i] = stack[i]
      BY <1>1, <1>2, <2>3
    <3>2. CalledBy(stack[i], stack[i + 1])
      BY <1>3, <3>1
    <3>3. QED
      BY <1>4, <3>1, <3>2 DEF CalledBy
  <2>4. QED
    BY <2>2, <2>3
<1>7. stack'[1].node = Top /\ stack'[1].event # "unplanned"
  BY <1>2, <1>3, <1>4
<1>8. QED
  BY <1>1, <1>5, <1>6, <1>7 DEF StackOK, FrameOK, CalledBy

LEMMA StackPopped ==
    ASSUME StackOK, stack # <<>>, stack' = Front(stack)
    PROVE  StackOK'
<1>1. /\ stack' \in Seq(Frames) /\ Len(stack') = Len(stack) - 1
      /\ \A i \in 1 .. Len(stack) - 1 : stack'[i] = stack[i]
  BY PoppedFrame
<1>2. Len(stack) \in Nat /\ Len(stack) > 0
  BY RunningFrame
<1>3. /\ \A i \in 1 .. Len(stack) : FrameOK(stack[i])
      /\ \A i \in 1 .. Len(stack) - 1 : CalledBy(stack[i], stack[i + 1])
      /\ stack[1].node = Top /\ stack[1].event # "unplanned"
  BY DEF StackOK
<1>4. \A i \in 1 .. Len(stack') : FrameOK(stack'[i])
  BY <1>1, <1>2, <1>3
<1>5. \A i \in 1 .. Len(stack') - 1 : CalledBy(stack'[i], stack'[i + 1])
  <2>1. \A i \in 1 .. Len(stack') - 1 :
           /\ i \in 1 .. Len(stack) - 1
           /\ stack'[i] = stack[i] /\ stack'[i + 1] = stack[i + 1]
    BY <1>1, <1>2
  <2>2. \A i \in 1 .. Len(stack) - 1 : CalledBy(stack[i], stack[i + 1])
    BY DEF StackOK
  <2>3. ASSUME NEW i \in 1 .. Len(stack') - 1
        PROVE  CalledBy(stack'[i], stack'[i + 1])
    BY <2>1, <2>2
  <2>4. QED
    BY <2>3
<1>6. stack' # <<>> => stack'[1].node = Top /\ stack'[1].event # "unplanned"
  <2>1. stack' # <<>> => Len(stack') > 0
    <3>1. stack' \in Seq(Frames)
      BY <1>1
    <3>2. Len(stack') \in Nat /\ (Len(stack') = 0 => stack' = <<>>)
      BY <3>1, EmptySeq, LenProperties
    <3>3. QED
      BY <3>2
  <2>2. QED
    BY <1>1, <1>2, <1>3, <2>1
<1>7. QED
  BY <1>1, <1>4, <1>5, <1>6 DEF StackOK, FrameOK, CalledBy

LEMMA StackResumed ==
    ASSUME StackOK, stack # <<>>, Len(stack) # 1, NEW f \in Frames,
           stack' = SubSeq(stack, 1, Len(stack) - 2) \o <<f>>,
           FrameOK(f), f.node = stack[Len(stack) - 1].node, f.event = stack[Len(stack) - 1].event
    PROVE  StackOK'
<1>1. /\ stack' \in Seq(Frames) /\ Len(stack') = Len(stack) - 1 /\ stack'[Len(stack) - 1] = f
      /\ \A i \in 1 .. Len(stack) - 2 : stack'[i] = stack[i]
  BY ResumedFrame
<1>2. Len(stack) \in Nat /\ Len(stack) > 1
  <2>1. Len(stack) \in Nat /\ Len(stack) > 0
    BY RunningFrame
  <2>2. QED
    BY <2>1
<1>3. /\ \A i \in 1 .. Len(stack) : FrameOK(stack[i])
      /\ \A i \in 1 .. Len(stack) - 1 : CalledBy(stack[i], stack[i + 1])
      /\ stack[1].node = Top /\ stack[1].event # "unplanned"
  BY DEF StackOK
<1>4. \A i \in 1 .. Len(stack) - 1 :
         stack'[i].node = stack[i].node /\ stack'[i].event = stack[i].event
  BY <1>1, <1>2
<1>5. \A i \in 1 .. Len(stack') : FrameOK(stack'[i])
  BY <1>1, <1>2, <1>3
<1>6. \A i \in 1 .. Len(stack') - 1 : CalledBy(stack'[i], stack'[i + 1])
  <2>0. Len(stack') - 1 = Len(stack) - 2
    BY <1>1, <1>2
  <2>1. SUFFICES ASSUME NEW i \in 1 .. Len(stack) - 2 PROVE CalledBy(stack'[i], stack'[i + 1])
    BY <2>0
  <2>2. i \in 1 .. Len(stack) - 1 /\ i + 1 \in 1 .. Len(stack) - 1 /\ stack'[i] = stack[i]
    BY <1>1, <1>2
  <2>3. CalledBy(stack[i], stack[i + 1])
    BY <1>3, <2>2
  <2>4. QED
    BY <1>4, <2>2, <2>3 DEF CalledBy
<1>7. stack'[1].node = Top /\ stack'[1].event # "unplanned"
  BY <1>2, <1>3, <1>4
<1>8. QED
  BY <1>1, <1>5, <1>6, <1>7 DEF StackOK, FrameOK, CalledBy

-----------------------------------------------------------------------------
(* Types                                                                   *)

\* What each operation on an interface changes.
ChangedAt(u, s, n) ==
    u \in [Nodes -> Interfaces] /\ \A m \in Nodes : m # n => u[m] = s[m]

LEMMA Operations ==
    ASSUME NEW s \in [Nodes -> Interfaces], NEW n \in Nodes
    PROVE  /\ \A event \in EventNames :
                 /\ ChangedAt(activate(s, n, event), s, n)
                 /\ activate(s, n, event)[n] = [s[n] EXCEPT !.active = TRUE, !.dmode = Mode(event),
                                                           !.dgoal = Goal(event)]
           /\ ChangedAt(assign_flow_input(s, n), s, n)
           /\ assign_flow_input(s, n)[n] = [s[n] EXCEPT !.given = TRUE]
           /\ ChangedAt(deactivate(s, n), s, n)
           /\ deactivate(s, n)[n] = [s[n] EXCEPT !.active = FALSE]
           /\ ChangedAt(set_message_input(s, n), s, n)
           /\ set_message_input(s, n)[n] = [s[n] EXCEPT !.received = TRUE]
           /\ ChangedAt(clear_message_input(s, n), s, n)
           /\ clear_message_input(s, n)[n] = [s[n] EXCEPT !.received = FALSE]
           /\ ChangedAt(append_message_output(s, n), s, n)
           /\ append_message_output(s, n)[n] = [s[n] EXCEPT !.outputs = @ + 1]
           /\ ChangedAt(clear_message_outputs(s, n), s, n)
           /\ clear_message_outputs(s, n)[n] = [s[n] EXCEPT !.outputs = 0]
           /\ ChangedAt(assign_flow_output(s, n), s, n)
           /\ assign_flow_output(s, n)[n] = [s[n] EXCEPT !.assigned = TRUE]
<1>1. s[n] \in Interfaces
  OBVIOUS
<1>2. ASSUME NEW event \in EventNames
      PROVE  /\ ChangedAt(activate(s, n, event), s, n)
             /\ activate(s, n, event)[n] = [s[n] EXCEPT !.active = TRUE, !.dmode = Mode(event),
                                                       !.dgoal = Goal(event)]
  <2> DEFINE r == [s[n] EXCEPT !.active = TRUE, !.dmode = Mode(event), !.dgoal = Goal(event)]
  <2>1. r \in Interfaces
    BY <1>1 DEF Interfaces, Mode, Goal
  <2>2. activate(s, n, event) = [s EXCEPT ![n] = r]
    BY DEF activate
  <2> HIDE DEF r
  <2>3. ChangedAt(activate(s, n, event), s, n) /\ activate(s, n, event)[n] = r
    BY <2>1, <2>2 DEF ChangedAt
  <2>4. QED
    BY <2>3 DEF r
<1>3. ChangedAt(assign_flow_input(s, n), s, n) /\ assign_flow_input(s, n)[n] = [s[n] EXCEPT !.given = TRUE]
  <2> DEFINE r == [s[n] EXCEPT !.given = TRUE]
  <2>1. r \in Interfaces
    BY <1>1 DEF Interfaces
  <2>2. assign_flow_input(s, n) = [s EXCEPT ![n] = r]
    BY DEF assign_flow_input
  <2> HIDE DEF r
  <2>3. ChangedAt(assign_flow_input(s, n), s, n) /\ assign_flow_input(s, n)[n] = r
    BY <2>1, <2>2 DEF ChangedAt
  <2>4. QED
    BY <2>3 DEF r
<1>4. ChangedAt(deactivate(s, n), s, n) /\ deactivate(s, n)[n] = [s[n] EXCEPT !.active = FALSE]
  <2> DEFINE r == [s[n] EXCEPT !.active = FALSE]
  <2>1. r \in Interfaces
    BY <1>1 DEF Interfaces
  <2>2. deactivate(s, n) = [s EXCEPT ![n] = r]
    BY DEF deactivate
  <2> HIDE DEF r
  <2>3. ChangedAt(deactivate(s, n), s, n) /\ deactivate(s, n)[n] = r
    BY <2>1, <2>2 DEF ChangedAt
  <2>4. QED
    BY <2>3 DEF r
<1>5. ChangedAt(set_message_input(s, n), s, n) /\ set_message_input(s, n)[n] = [s[n] EXCEPT !.received = TRUE]
  <2> DEFINE r == [s[n] EXCEPT !.received = TRUE]
  <2>1. r \in Interfaces
    BY <1>1 DEF Interfaces
  <2>2. set_message_input(s, n) = [s EXCEPT ![n] = r]
    BY DEF set_message_input
  <2> HIDE DEF r
  <2>3. ChangedAt(set_message_input(s, n), s, n) /\ set_message_input(s, n)[n] = r
    BY <2>1, <2>2 DEF ChangedAt
  <2>4. QED
    BY <2>3 DEF r
<1>6. ChangedAt(clear_message_input(s, n), s, n) /\ clear_message_input(s, n)[n] = [s[n] EXCEPT !.received = FALSE]
  <2> DEFINE r == [s[n] EXCEPT !.received = FALSE]
  <2>1. r \in Interfaces
    BY <1>1 DEF Interfaces
  <2>2. clear_message_input(s, n) = [s EXCEPT ![n] = r]
    BY DEF clear_message_input
  <2> HIDE DEF r
  <2>3. ChangedAt(clear_message_input(s, n), s, n) /\ clear_message_input(s, n)[n] = r
    BY <2>1, <2>2 DEF ChangedAt
  <2>4. QED
    BY <2>3 DEF r
<1>7. ChangedAt(append_message_output(s, n), s, n) /\ append_message_output(s, n)[n] = [s[n] EXCEPT !.outputs = @ + 1]
  <2> DEFINE r == [s[n] EXCEPT !.outputs = @ + 1]
  <2>1. r \in Interfaces
    BY <1>1 DEF Interfaces
  <2>2. append_message_output(s, n) = [s EXCEPT ![n] = r]
    BY DEF append_message_output
  <2> HIDE DEF r
  <2>3. ChangedAt(append_message_output(s, n), s, n) /\ append_message_output(s, n)[n] = r
    BY <2>1, <2>2 DEF ChangedAt
  <2>4. QED
    BY <2>3 DEF r
<1>8. ChangedAt(clear_message_outputs(s, n), s, n) /\ clear_message_outputs(s, n)[n] = [s[n] EXCEPT !.outputs = 0]
  <2> DEFINE r == [s[n] EXCEPT !.outputs = 0]
  <2>1. r \in Interfaces
    BY <1>1 DEF Interfaces
  <2>2. clear_message_outputs(s, n) = [s EXCEPT ![n] = r]
    BY DEF clear_message_outputs
  <2> HIDE DEF r
  <2>3. ChangedAt(clear_message_outputs(s, n), s, n) /\ clear_message_outputs(s, n)[n] = r
    BY <2>1, <2>2 DEF ChangedAt
  <2>4. QED
    BY <2>3 DEF r
<1>9. ChangedAt(assign_flow_output(s, n), s, n) /\ assign_flow_output(s, n)[n] = [s[n] EXCEPT !.assigned = TRUE]
  <2> DEFINE r == [s[n] EXCEPT !.assigned = TRUE]
  <2>1. r \in Interfaces
    BY <1>1 DEF Interfaces
  <2>2. assign_flow_output(s, n) = [s EXCEPT ![n] = r]
    BY DEF assign_flow_output
  <2> HIDE DEF r
  <2>3. ChangedAt(assign_flow_output(s, n), s, n) /\ assign_flow_output(s, n)[n] = r
    BY <2>1, <2>2 DEF ChangedAt
  <2>4. QED
    BY <2>3 DEF r
<1>10. QED
  BY <1>2, <1>3, <1>4, <1>5, <1>6, <1>7, <1>8, <1>9

LEMMA PrototypeCleared ==
    ASSUME WellFormed, NEW s \in [Nodes -> Interfaces], NEW c \in Collections
    PROVE  /\ Prototype[c] \in Nodes /\ ChangedAt(cleared_prototype(s, c), s, Prototype[c])
           /\ cleared_prototype(s, c)[Prototype[c]] =
                 [s[Prototype[c]] EXCEPT !.given = FALSE, !.received = FALSE, !.outputs = 0]
<1> DEFINE n == Prototype[c]
           r == [s[n] EXCEPT !.given = FALSE, !.received = FALSE, !.outputs = 0]
<1>1. n \in Nodes /\ s[n] \in Interfaces
  BY DEF WellFormed
<1>2. r \in Interfaces
  BY <1>1 DEF Interfaces
<1>3. cleared_prototype(s, c) = [s EXCEPT ![n] = r]
  BY DEF cleared_prototype
<1> HIDE DEF r
<1>4. ChangedAt(cleared_prototype(s, c), s, n) /\ cleared_prototype(s, c)[n] = r
  BY <1>1, <1>2, <1>3 DEF ChangedAt
<1>5. QED
  BY <1>1, <1>4 DEF r

\* The kinds of a frame with something else to do.
LEMMA SameFrame ==
    ASSUME NEW f \in Frames, NEW pc \in {"enter", "user", "call", "remove"},
           NEW todo \in Seq(StepRecords)
    PROVE  /\ [f EXCEPT !.pc = pc] \in Frames /\ [f EXCEPT !.todo = todo] \in Frames
           /\ [f EXCEPT !.pc = pc, !.todo = todo] \in Frames
           /\ [f EXCEPT !.pc = pc] = [node |-> f.node, event |-> f.event, pc |-> pc, todo |-> f.todo]
           /\ [f EXCEPT !.todo = todo] = [node |-> f.node, event |-> f.event, pc |-> f.pc, todo |-> todo]
           /\ [f EXCEPT !.pc = pc, !.todo = todo]
                 = [node |-> f.node, event |-> f.event, pc |-> pc, todo |-> todo]
<1>1. PICK n \in Nodes, e \in EventNames, p \in {"enter", "user", "call", "remove"},
            l \in Seq(StepRecords) : f = [node |-> n, event |-> e, pc |-> p, todo |-> l]
  BY DEF Frames
<1>2. f.node = n /\ f.event = e /\ f.todo = l /\ f.pc = p
  BY <1>1
<1>3. /\ [f EXCEPT !.pc = pc] = [node |-> n, event |-> e, pc |-> pc, todo |-> l]
      /\ [f EXCEPT !.todo = todo] = [node |-> n, event |-> e, pc |-> p, todo |-> todo]
      /\ [f EXCEPT !.pc = pc, !.todo = todo] = [node |-> n, event |-> e, pc |-> pc, todo |-> todo]
  <2> DEFINE g == [f EXCEPT !.pc = pc]
  <2>1. g = [node |-> n, event |-> e, pc |-> pc, todo |-> l]
    BY <1>1
  <2>2. [f EXCEPT !.todo = todo] = [node |-> n, event |-> e, pc |-> p, todo |-> todo]
    BY <1>1
  <2>3. [f EXCEPT !.pc = pc, !.todo = todo] = [g EXCEPT !.todo = todo]
    OBVIOUS
  <2> HIDE DEF g
  <2>4. [g EXCEPT !.todo = todo] = [node |-> n, event |-> e, pc |-> pc, todo |-> todo]
    BY <2>1
  <2>5. QED
    BY <2>1, <2>2, <2>3, <2>4 DEF g
<1>4. QED
  BY <1>2, <1>3 DEF Frames

\* The first step is taken off the list.
LEMMA RestOfFrame ==
    ASSUME StackOK, stack # <<>>, Running.todo # <<>>
    PROVE  /\ Running.todo \in Seq(StepRecords)
           /\ Head(Running.todo) = Running.todo[1] /\ 1 \in DOMAIN Running.todo
           /\ Head(Running.todo) \in StepRecords
           /\ Rest \in Frames /\ FrameOK(Rest)
           /\ Rest = [node |-> Me, event |-> Running.event, pc |-> Running.pc,
                      todo |-> Tail(Running.todo)]
           /\ DOMAIN Tail(Running.todo) = 1 .. Len(Running.todo) - 1
           /\ DOMAIN Running.todo = 1 .. Len(Running.todo)
           /\ \A k \in DOMAIN Tail(Running.todo) :
                 k + 1 \in DOMAIN Running.todo /\ Tail(Running.todo)[k] = Running.todo[k + 1]
<1> DEFINE todo == Running.todo
<1>1. Running \in Frames /\ FrameOK(Running)
  BY RunningFrame
<1>2. todo \in Seq(StepRecords)
  BY <1>1 DEF Frames
<1>3. /\ Len(todo) \in Nat /\ Len(todo) > 0 /\ DOMAIN todo = 1 .. Len(todo)
      /\ 1 \in DOMAIN todo
  <2> HIDE DEF todo
  <2>1. todo # <<>>
    BY DEF todo
  <2> QED  BY <1>2, <2>1, LenProperties, EmptySeq
<1>4. /\ Tail(todo) \in Seq(StepRecords) /\ Head(todo) = todo[1] /\ Head(todo) \in StepRecords
      /\ DOMAIN Tail(todo) = 1 .. Len(todo) - 1
      /\ \A k \in 1 .. Len(todo) - 1 : Tail(todo)[k] = todo[k + 1]
  <2> HIDE DEF todo
  <2>1. todo # <<>>
    BY <1>3
  <2>2. Head(todo) \in StepRecords /\ Tail(todo) \in Seq(StepRecords)
        /\ Len(Tail(todo)) = Len(todo) - 1
        /\ \A k \in 1 .. Len(Tail(todo)) : Tail(todo)[k] = todo[k + 1]
    BY <1>2, <2>1, HeadTailProperties
  <2>3. DOMAIN Tail(todo) = 1 .. Len(Tail(todo))
    BY <2>2, LenProperties
  <2>4. Head(todo) = todo[1]
    OBVIOUS
  <2> QED  BY <2>2, <2>3, <2>4
<1>5. /\ Rest \in Frames
      /\ Rest = [node |-> Me, event |-> Running.event, pc |-> Running.pc, todo |-> Tail(todo)]
  <2>1. Running.todo = todo
    OBVIOUS
  <2> HIDE DEF todo
  <2>2. Rest = [Running EXCEPT !.todo = Tail(todo)]
    BY <2>1 DEF Rest
  <2>3. Running.pc \in {"enter", "user", "call", "remove"}
    BY <1>1 DEF Frames
  <2>4. QED
    BY <1>1, <1>4, <2>2, <2>3, SameFrame DEF Me
<1> HIDE DEF todo
<1>6. \A k \in DOMAIN Tail(todo) : k + 1 \in DOMAIN todo /\ Tail(todo)[k] = todo[k + 1]
  BY <1>3, <1>4
<1>7. FrameOK(Rest)
  <2>1. FrameOK(Running) /\ Running.todo = todo
    BY <1>1 DEF todo
  <2>2. Running.pc # "enter" /\ Me \notin Atomics
    BY <2>1 DEF FrameOK, Me, todo
  <2>3. QED
    BY <1>5, <1>6, <2>1, <2>2, <1>3, EmptySeq DEF FrameOK, Me
<1>8. QED
  BY <1>2, <1>3, <1>4, <1>5, <1>6, <1>7 DEF todo

LEMMA MoreElements ==
    ASSUME NEW S, NEW T, S \subseteq T, NEW s \in Seq(S)
    PROVE  s \in Seq(T)
  OBVIOUS

\* A sequence repeated has the same elements.
LEMMA RepeatedSteps ==
    ASSUME NEW S, NEW s \in Seq(S), NEW k \in Nat
    PROVE  /\ Repeated(s, k) \in Seq(S)
           /\ \A i \in DOMAIN Repeated(s, k) : \E j \in DOMAIN s : Repeated(s, k)[i] = s[j]
<1>1. Len(s) \in Nat /\ DOMAIN s = 1 .. Len(s) /\ k * Len(s) \in Nat
  BY LenProperties
<1>2. ASSUME NEW i \in 1 .. k * Len(s) PROVE ((i - 1) % Len(s)) + 1 \in 1 .. Len(s)
  <2>1. Len(s) # 0
    <3>1. ASSUME Len(s) = 0 PROVE FALSE
      <4>1. k * Len(s) = 0
        BY <3>1
      <4>2. QED
        BY <4>1
    <3>2. QED
      BY <3>1
  <2>2. Len(s) > 0 /\ i - 1 \in Int
    BY <1>1, <2>1
  <2>3. (i - 1) % Len(s) \in 0 .. Len(s) - 1
    BY <1>1, <2>2
  <2>4. QED
    BY <1>1, <2>3
<1>3. \A i \in 1 .. Len(s) : s[i] \in S
  BY ElementOfSeq
<1>4. Repeated(s, k) \in [1 .. k * Len(s) -> S]
  BY <1>2, <1>3 DEF Repeated
<1>5. Repeated(s, k) \in Seq(S)
  BY <1>1, <1>4
<1>6. DOMAIN Repeated(s, k) = 1 .. k * Len(s)
  BY DEF Repeated
<1>7. \A i \in 1 .. k * Len(s) : Repeated(s, k)[i] = s[((i - 1) % Len(s)) + 1]
  BY DEF Repeated
<1>8. QED
  BY <1>1, <1>2, <1>5, <1>6, <1>7

\* A list of calls, one for each node of a sequence.
LEMMA StepsOf ==
    ASSUME NEW event \in EventNames, NEW S \in SUBSET Nodes, NEW nodes \in Seq(S)
    PROVE  /\ Steps(event, nodes) \in Seq([do : {event}, node : S])
           /\ DOMAIN Steps(event, nodes) = DOMAIN nodes
           /\ \A k \in DOMAIN nodes : Steps(event, nodes)[k] = Step(event, nodes[k])
<1>1. Len(nodes) \in Nat /\ DOMAIN nodes = 1 .. Len(nodes) /\ \A k \in 1 .. Len(nodes) : nodes[k] \in S
  BY LenProperties, ElementOfSeq
<1>2. \A k \in 1 .. Len(nodes) : Step(event, nodes[k]) \in [do : {event}, node : S]
  BY <1>1 DEF Step
<1> DEFINE X == [do : {event}, node : S]
<1>3. Steps(event, nodes) \in [1 .. Len(nodes) -> X]
  BY <1>2 DEF Steps
<1> HIDE DEF X
<1>4. Steps(event, nodes) \in Seq(X)
  BY <1>1, <1>3
<1>5. QED
  BY <1>1, <1>4 DEF Steps, X

\* What an owner does with the messages of a node it owns: it hands them to
\* other nodes it owns, and empties the list.
OwnerSteps(c) ==
    IF c \in Collections THEN [do : {"micro", "drain"}, node : Owned(c)]
    ELSE {step \in [do : {"unplanned", "outward", "drain"}, node : Owned(c)] :
             step.do = "outward" => step.node \in Outward}

LEMMA RoutingSteps ==
    ASSUME WellFormed, Typed, NEW c \in Owners, NEW n \in Owned(c)
    PROVE  /\ Routing(c, n) \in Seq(OwnerSteps(c))
           /\ Len(Routing(c, n)) \in DOMAIN Routing(c, n)
           /\ Routing(c, n)[Len(Routing(c, n))] = Step("drain", n)
           /\ \A k \in DOMAIN Routing(c, n) :
                 Routing(c, n)[k].do = "drain" => Routing(c, n)[k].node = n
<1> DEFINE message == IF c \in Collections THEN <<Step("micro", n)>>
                      ELSE Steps("unplanned", Inner[n])
                             \o IF n \in Outward THEN <<Step("outward", n)>> ELSE <<>>
           T == {x \in OwnerSteps(c) : x.do # "drain"}
           r == Repeated(message, io[n].outputs)
<1>1. c \in Nodes /\ Owned(c) \subseteq Nodes
  BY Kinds DEF WellFormed, Owners
<1>2. message \in Seq(T)
  <2>1. CASE c \in Collections
    <3>1. Step("micro", n) \in T
      BY <2>1 DEF Step, OwnerSteps
    <3>2. QED
      BY <2>1, <3>1
  <2>2. CASE c \notin Collections
    <3>1. c \in CompositeNodes
      BY <2>2 DEF Owners
    <3>2. Inner[n] \in Seq(Owned(c))
      BY <3>1 DEF WellFormed
    <3>3. Steps("unplanned", Inner[n]) \in Seq([do : {"unplanned"}, node : Owned(c)])
      BY <1>1, <3>2, StepsOf DEF EventNames
    <3>4. [do : {"unplanned"}, node : Owned(c)] \subseteq T
      BY <2>2 DEF OwnerSteps
    <3>5. n \in Outward => Step("outward", n) \in T
      BY <2>2 DEF Step, OwnerSteps
    <3> DEFINE a == Steps("unplanned", Inner[n])
               b == IF n \in Outward THEN <<Step("outward", n)>> ELSE <<>>
    <3>6. b \in Seq(T)
      <4> DEFINE x == Step("outward", n)
      <4> HIDE DEF T, x
      <4> QED  BY <3>5 DEF x
    <3>7. a \in Seq(T)
      <4> HIDE DEF T
      <4> QED  BY <3>3, <3>4, MoreElements
    <3> HIDE DEF a, b, T
    <3>8. a \o b \in Seq(T)
      BY <3>6, <3>7
    <3>9. QED
      BY <2>2, <3>8 DEF a, b
  <2>3. QED
    BY <2>1, <2>2
<1>3. io[n].outputs \in Nat
  BY <1>1 DEF Typed, Interfaces
<1> HIDE DEF message
<1>4. r \in Seq(T)
  BY <1>2, <1>3, RepeatedSteps
<1>5. Step("drain", n) \in OwnerSteps(c)
  BY DEF Step, OwnerSteps
<1>6. Routing(c, n) = r \o <<Step("drain", n)>>
  BY DEF Routing, message
<1>7. r \in Seq(OwnerSteps(c))
  <2>1. T \subseteq OwnerSteps(c)
    OBVIOUS
  <2> HIDE DEF r, T
  <2>2. QED
    BY <1>4, <2>1
<1>8. \A k \in 1 .. Len(r) : r[k].do # "drain"
  <2>1. \A k \in 1 .. Len(r) : r[k] \in T
    <3> HIDE DEF r, T
    <3> QED  BY <1>4, ElementOfSeq
  <2>2. QED
    BY <2>1
<1> HIDE DEF r, T
<1> DEFINE x == Step("drain", n)
<1>9. x.node = n
  BY DEF Step
<1> HIDE DEF x
<1>10. /\ r \o <<x>> \in Seq(OwnerSteps(c)) /\ Len(r \o <<x>>) = Len(r) + 1
       /\ (r \o <<x>>)[Len(r) + 1] = x
       /\ \A i \in 1 .. Len(r) : (r \o <<x>>)[i] = r[i]
  BY <1>5, <1>7, Extended DEF x
<1>11. Len(r) \in Nat /\ DOMAIN (r \o <<x>>) = 1 .. Len(r) + 1
  BY <1>7, <1>10, LenProperties
<1>12. \A k \in 1 .. Len(r) + 1 : (r \o <<x>>)[k].do = "drain" => (r \o <<x>>)[k].node = n
  BY <1>8, <1>9, <1>10, <1>11
<1>13. QED
  BY <1>6, <1>10, <1>11, <1>12 DEF x

-----------------------------------------------------------------------------
(* Steps of the stack                                                      *)

\* Code runs: there is a frame, and no exception.
LEMMA RunsFacts ==
    ASSUME Typed, NEW pc, Runs(pc)
    PROVE  /\ stack # <<>> /\ thrown = Nothing /\ Running.pc = pc /\ StackOK
           /\ Running \in Frames /\ FrameOK(Running) /\ Me \in Nodes /\ Running.node = Me
           /\ Running.event \in EventNames
  BY RunningFrame DEF Runs, Typed, Frames, Me

\* The frame that runs goes on with something else.
GoesOn(f) ==
    /\ stack # <<>> /\ f \in Frames /\ FrameOK(f)
    /\ f.node = Me /\ f.event = Running.event
    /\ stack' = WithRunning(f)

LEMMA GoesOnStep ==
    ASSUME StackOK, NEW f, GoesOn(f)
    PROVE  /\ StackOK'
           /\ Len(stack') = Len(stack) /\ Len(stack) \in Nat /\ Len(stack) > 0
           /\ Running = stack[Len(stack)]
           /\ stack'[Len(stack)] = f
           /\ \A i \in 1 .. Len(stack) - 1 : stack'[i] = stack[i]
           /\ \A i \in 1 .. Len(stack) :
                 stack'[i].node = stack[i].node /\ stack'[i].event = stack[i].event
           /\ stack' # <<>>
<1>1. /\ Len(stack') = Len(stack) /\ stack'[Len(stack)] = f
      /\ \A i \in 1 .. Len(stack) - 1 : stack'[i] = stack[i]
  BY ReplacedFrame DEF GoesOn
<1>2. Len(stack) \in Nat /\ Len(stack) > 0 /\ Running = stack[Len(stack)]
  BY RunningFrame DEF GoesOn
<1>3. StackOK'
  BY StackReplaced DEF GoesOn
<1>4. stack' # <<>>
  BY <1>1, <1>2, EmptySeq
<1>5. \A i \in 1 .. Len(stack) :
         stack'[i].node = stack[i].node /\ stack'[i].event = stack[i].event
  BY <1>1, <1>2 DEF GoesOn, Me
<1>6. QED
  BY <1>1, <1>2, <1>3, <1>4, <1>5

\* A call of the node n is possible from the frame that runs, then frame f.
EnterFrame(n, event) == [node |-> n, event |-> event, pc |-> "enter", todo |-> <<>>]
Calling(n, event, f) ==
    /\ stack # <<>> /\ n \in Nodes /\ event \in EventNames /\ f \in Frames /\ FrameOK(f)
    /\ f.node = Me /\ f.event = Running.event /\ f.pc = Running.pc
    /\ CalledBy(f, EnterFrame(n, event))

LEMMA CallStep ==
    ASSUME StackOK, NEW n, NEW event, NEW f, Calling(n, event, f),
           NEW s, NEW running, Calls(n, event, s, f, running)
    PROVE  /\ StackOK'
           /\ Len(stack') = Len(stack) + 1 /\ Len(stack) \in Nat /\ Len(stack) > 0
           /\ Running = stack[Len(stack)]
           /\ stack'[Len(stack)] = f /\ stack'[Len(stack) + 1] = EnterFrame(n, event)
           /\ \A i \in 1 .. Len(stack) - 1 : stack'[i] = stack[i]
           /\ \A i \in 1 .. Len(stack) :
                 stack'[i].node = stack[i].node /\ stack'[i].event = stack[i].event
           /\ stack' # <<>>
<1> DEFINE g == EnterFrame(n, event)
<1>1. g \in Frames /\ FrameOK(g)
  <2>1. g \in Frames
    BY DEF Calling, EnterFrame, Frames
  <2>2. DOMAIN <<>> = {}
    OBVIOUS
  <2>3. QED
    BY <2>1, <2>2 DEF EnterFrame, FrameOK
<1>2. stack' = WithRunning(f) \o <<g>>
  BY DEF Calls, EnterFrame
<1>3. CalledBy(f, g)
  BY DEF Calling
<1> HIDE DEF g
<1>4. StackOK'
  BY <1>1, <1>2, <1>3, StackPushed DEF Calling
<1> DEFINE u == WithRunning(f) \o <<g>>
<1>5. /\ Len(u) = Len(stack) + 1 /\ u[Len(stack) + 1] = g /\ u[Len(stack)] = f
      /\ \A i \in 1 .. Len(stack) - 1 : u[i] = stack[i]
  BY <1>1, PushedFrame DEF Calling
<1>6. stack' = u
  BY <1>2
<1> HIDE DEF u
<1>7. Len(stack) \in Nat /\ Len(stack) > 0 /\ Running = stack[Len(stack)]
  BY RunningFrame DEF Calling
<1>8. stack' # <<>>
  BY <1>5, <1>6, <1>7, EmptySeq
<1>9. \A i \in 1 .. Len(stack) :
         stack'[i].node = stack[i].node /\ stack'[i].event = stack[i].event
  BY <1>5, <1>6, <1>7 DEF Calling, Me
<1>10. QED
  BY <1>4, <1>5, <1>6, <1>7, <1>8, <1>9 DEF g

\* The next step of a frame is one that its node takes.
LEMMA NextStep ==
    ASSUME WellFormed, Typed, NEW do, Next_is(do)
    PROVE  /\ Runs("call") /\ Running.todo # <<>>
           /\ Head(Running.todo).do \in do /\ Head(Running.todo).node \in Owned(Me)
           /\ Head(Running.todo).node \in Nodes
           /\ Me \in CompositeNodes => Head(Running.todo).do \in Within(Running.event)
           /\ Me \in Collections =>
                 Running.event = "planned" /\ Head(Running.todo).do \in {"planned", "micro", "drain"}
           /\ Me \in CompositeNodes \/ Me \in Collections
           /\ Me \in Owners
           /\ Rest \in Frames /\ FrameOK(Rest) /\ Rest.node = Me /\ Rest.event = Running.event
           /\ Rest.pc = "call" /\ Rest.todo = Tail(Running.todo)
<1>1. Runs("call") /\ Running.todo # <<>> /\ Head(Running.todo).do \in do
  BY DEF Next_is
<1>2. FrameOK(Running) /\ Me \in Nodes /\ Running.node = Me /\ Running.pc = "call" /\ StackOK
      /\ stack # <<>>
  BY <1>1, RunsFacts
<1>3. /\ Head(Running.todo) = Running.todo[1] /\ 1 \in DOMAIN Running.todo
      /\ Head(Running.todo) \in StepRecords
      /\ Rest \in Frames /\ FrameOK(Rest)
      /\ Rest = [node |-> Me, event |-> Running.event, pc |-> Running.pc, todo |-> Tail(Running.todo)]
  BY <1>1, <1>2, RestOfFrame
<1>4. Me \in CompositeNodes \/ Me \in Collections
  BY <1>1, <1>2, Kinds DEF FrameOK
<1>5. /\ Me \in CompositeNodes =>
             Head(Running.todo).do \in Within(Running.event) /\ Head(Running.todo).node \in Owned(Me)
      /\ Me \in Collections =>
            /\ Running.event = "planned" /\ Head(Running.todo).do \in {"planned", "micro", "drain"}
            /\ Head(Running.todo).node \in Owned(Me)
  BY <1>1, <1>2, <1>3 DEF FrameOK
<1>6. QED
  BY <1>1, <1>2, <1>3, <1>4, <1>5 DEF StepRecords, Owners

LEMMA ComponentCall ==
    ASSUME WellFormed, Typed,
           Next_is({"initialization", "planned", "unplanned", "finalization"})
    PROVE  Calling(Head(Running.todo).node, Head(Running.todo).do, Rest)
<1> DEFINE n == Head(Running.todo).node
           do == Head(Running.todo).do
<1>1. /\ Runs("call") /\ do \in EventNames /\ n \in Owned(Me) /\ n \in Nodes
      /\ Me \in CompositeNodes => do \in Within(Running.event)
      /\ Me \in Collections => Running.event = "planned" /\ do = "planned"
      /\ Me \in Owners
      /\ Rest \in Frames /\ FrameOK(Rest) /\ Rest.node = Me /\ Rest.event = Running.event
      /\ Rest.pc = "call"
  BY NextStep DEF EventNames
<1>2. stack # <<>> /\ Running.pc = "call"
  BY <1>1, RunsFacts
<1> HIDE DEF n, do
<1>3. CalledBy(Rest, EnterFrame(n, do))
  BY <1>1 DEF CalledBy, EnterFrame
<1>4. QED
  BY <1>1, <1>2, <1>3 DEF Calling, n, do

LEMMA AgentCall ==
    ASSUME WellFormed, Typed, NEW pc \in {"user", "remove"}, Runs(pc), Me \in Collections,
           NEW a \in Agents[Me], NEW event \in EventNames \ {"planned"}
    PROVE  Calling(a, event, Running)
<1>1. /\ stack # <<>> /\ Running.pc = pc /\ StackOK
      /\ Running \in Frames /\ FrameOK(Running) /\ Me \in Nodes /\ Running.node = Me
  BY RunsFacts
<1>2. a \in Owned(Me) /\ a \in Nodes /\ Me \notin CompositeNodes
  BY <1>1, Kinds
<1>3. CalledBy(Running, EnterFrame(a, event))
  BY <1>1, <1>2 DEF CalledBy, EnterFrame, Owners
<1>4. QED
  BY <1>1, <1>2, <1>3 DEF Calling

\* The ways in which a frame goes on.
LEMMA GoesTo ==
    ASSUME WellFormed, Typed, stack # <<>>, NEW pc \in {"user", "call", "remove"},
           Me \in CompositeNodes => pc = "call",
           pc = "remove" => Me \in Collections /\ Running.event = "finalization",
           stack' = WithRunning([Running EXCEPT !.pc = pc])
    PROVE  GoesOn([node |-> Me, event |-> Running.event, pc |-> pc, todo |-> Running.todo])
<1>1. Running \in Frames /\ FrameOK(Running) /\ Me \in Nodes /\ Running.node = Me
  BY RunningFrame DEF Typed, Me
<1> DEFINE f == [node |-> Me, event |-> Running.event, pc |-> pc, todo |-> Running.todo]
<1>2. pc \in {"enter", "user", "call", "remove"} /\ Running.todo \in Seq(StepRecords)
  BY <1>1 DEF Frames
<1>3. [Running EXCEPT !.pc = pc] = f /\ [Running EXCEPT !.pc = pc] \in Frames
  BY <1>1, <1>2, SameFrame
<1>4. f \in Frames
  BY <1>3
<1>5. FrameOK(f)
  <2>1. Me \in Collections => Me \notin Atomics
    BY <1>1, Kinds DEF Owners
  <2>2. f.node = Me /\ f.event = Running.event /\ f.pc = pc /\ f.todo = Running.todo
    OBVIOUS
  <2> HIDE DEF f
  <2>3. QED
    BY <1>1, <2>1, <2>2 DEF FrameOK
<1>6. stack' = WithRunning(f)
  BY <1>3
<1>7. f.node = Me /\ f.event = Running.event
  OBVIOUS
<1> HIDE DEF f
<1>8. GoesOn(f)
  BY <1>4, <1>5, <1>6, <1>7 DEF GoesOn
<1>9. QED
  BY <1>8 DEF f

\* A composite or a collection starts on its list of calls.
LEMMA GoesToCalls ==
    ASSUME WellFormed, Typed, stack # <<>>, NEW todo \in Seq(StepRecords),
           FrameOK([node |-> Me, event |-> Running.event, pc |-> "call", todo |-> todo]),
           stack' = WithRunning([Running EXCEPT !.pc = "call", !.todo = todo])
    PROVE  GoesOn([node |-> Me, event |-> Running.event, pc |-> "call", todo |-> todo])
<1>1. Running \in Frames /\ Me \in Nodes /\ Running.node = Me
  BY RunningFrame DEF Typed, Me
<1> DEFINE f == [node |-> Me, event |-> Running.event, pc |-> "call", todo |-> todo]
<1>2. [Running EXCEPT !.pc = "call", !.todo = todo] = f
      /\ [Running EXCEPT !.pc = "call", !.todo = todo] \in Frames
  BY <1>1, SameFrame
<1>3. f \in Frames /\ stack' = WithRunning(f)
  BY <1>2
<1>4. f.node = Me /\ f.event = Running.event /\ FrameOK(f)
  OBVIOUS
<1> HIDE DEF f
<1>5. GoesOn(f)
  BY <1>3, <1>4 DEF GoesOn
<1>6. QED
  BY <1>5 DEF f

\* An agent's planned event is the only step of a collection's own.
LEMMA AgentEventEntered ==
    ASSUME WellFormed, Typed, EntersAgentEvent
    PROVE  \E a \in Agents[Me] \cap plans :
              GoesOn([node |-> Me, event |-> "planned", pc |-> "call",
                      todo |-> <<Step("planned", a)>>])
<1>1. PICK a \in Agents[Me] \cap plans :
         stack' = WithRunning([Running EXCEPT !.pc = "call", !.todo = <<Step("planned", a)>>])
  BY DEF EntersAgentEvent
<1>2. /\ stack # <<>> /\ Me \in Collections /\ Running.event = "planned" /\ Me \in Nodes
  BY RunsFacts DEF EntersAgentEvent
<1>3. a \in Owned(Me) /\ a \in Nodes /\ Me \notin CompositeNodes /\ Me \notin Atomics
  BY <1>2, Kinds DEF Owners
<1> DEFINE x == Step("planned", a)
<1>4. x \in StepRecords /\ x.do = "planned" /\ x.node = a
  BY <1>3 DEF Step, StepRecords, EventNames
<1> HIDE DEF x
<1>5. <<x>> \in Seq(StepRecords) /\ DOMAIN <<x>> = {1} /\ <<x>>[1] = x
  BY <1>4
<1>6. FrameOK([node |-> Me, event |-> Running.event, pc |-> "call", todo |-> <<x>>])
  <2> DEFINE l == <<x>>
  <2>1. DOMAIN l = {1} /\ l[1] = x
    BY <1>5
  <2> HIDE DEF l
  <2>2. FrameOK([node |-> Me, event |-> Running.event, pc |-> "call", todo |-> l])
    BY <1>2, <1>3, <1>4, <2>1 DEF FrameOK
  <2>3. QED
    BY <2>2 DEF l
<1>7. stack' = WithRunning([Running EXCEPT !.pc = "call", !.todo = <<x>>])
  BY <1>1 DEF x
<1>8. GoesOn([node |-> Me, event |-> Running.event, pc |-> "call", todo |-> <<x>>])
  BY <1>2, <1>5, <1>6, <1>7, GoesToCalls
<1>9. QED
  BY <1>2, <1>8 DEF x

\* The list that a composite starts on is of its own components, without
\* repetition when it initializes or finalizes all of them.
LEMMA ComponentList ==
    ASSUME WellFormed, Typed, stack # <<>>, Me \in CompositeNodes, NEW todo \in ComponentSteps
    PROVE  /\ todo \in Seq(StepRecords)
           /\ FrameOK([node |-> Me, event |-> Running.event, pc |-> "call", todo |-> todo])
           /\ \A k \in DOMAIN todo : todo[k].do = Running.event
           /\ Running.event \in {"initialization", "finalization"} =>
                 /\ \A j, k \in DOMAIN todo : j # k => todo[j].node # todo[k].node
                 /\ \A m \in Owned(Me) : \E k \in DOMAIN todo : todo[k].node = m
<1>1. Running \in Frames /\ Me \in Nodes /\ Running.event \in EventNames
  BY RunningFrame DEF Typed, Frames
<1>2. Me \notin Atomics /\ Me \notin Collections /\ Owned(Me) = ToSet(Components[Me])
      /\ Owned(Me) \subseteq Nodes
  BY <1>1, Kinds DEF Owners
<1> DEFINE X == [do : {Running.event}, node : Owned(Me)]
<1>3. X \subseteq StepRecords /\ Running.event \in Within(Running.event)
  BY <1>1, <1>2 DEF StepRecords, Within
<1>4. todo \in Seq(X)
      /\ (Running.event \in {"initialization", "finalization"} =>
             todo = Steps(Running.event, Components[Me]))
  <2>1. CASE Running.event \in {"initialization", "finalization"}
    <3>1. todo = Steps(Running.event, Components[Me])
      BY <2>1 DEF ComponentSteps
    <3>2. Components[Me] \in Seq(Nodes)
      BY DEF WellFormed
    <3>3. Components[Me] \in Seq(ToSet(Components[Me]))
      <4> DEFINE s == Components[Me]
      <4>1. s \in Seq(Nodes) /\ ToSet(s) = {s[i] : i \in DOMAIN s}
        BY <3>2 DEF ToSet
      <4> HIDE DEF s
      <4>2. s \in Seq(ToSet(s))
        BY <4>1
      <4>3. QED
        BY <4>2 DEF s
    <3>4. Owned(Me) \in SUBSET Nodes /\ Components[Me] \in Seq(Owned(Me))
      BY <1>2, <3>3
    <3>5. QED
      BY <1>1, <3>1, <3>4, StepsOf
  <2>2. CASE Running.event = "unplanned"
    <3>1. todo = Steps("unplanned", Inward[Me])
      BY <2>2 DEF ComponentSteps
    <3>2. Inward[Me] \in Seq(Owned(Me))
      BY DEF WellFormed
    <3>3. QED
      BY <1>1, <1>2, <2>2, <3>1, <3>2, StepsOf
  <2>3. CASE Running.event = "planned"
    <3>1. PICK m \in Owned(Me) : todo = <<Step("planned", m)>>
      BY <1>2, <2>3 DEF ComponentSteps
    <3> DEFINE x == Step("planned", m)
    <3>2. x \in X
      BY <2>3 DEF Step
    <3> HIDE DEF x, X
    <3>3. QED
      BY <2>3, <3>1, <3>2 DEF x
  <2>4. QED
    BY <1>1, <2>1, <2>2, <2>3 DEF EventNames
<1>5. \A k \in DOMAIN todo : todo[k].do = Running.event /\ todo[k].node \in Owned(Me)
  <2>1. \A k \in DOMAIN todo : todo[k] \in X
    <3> HIDE DEF X
    <3> QED  BY <1>4, LenProperties, ElementOfSeq
  <2>2. QED
    BY <2>1
<1>6. todo \in Seq(StepRecords)
  <2> HIDE DEF X
  <2> QED  BY <1>3, <1>4, MoreElements
<1>7. FrameOK([node |-> Me, event |-> Running.event, pc |-> "call", todo |-> todo])
  BY <1>2, <1>3, <1>5 DEF FrameOK
<1>8. ASSUME Running.event \in {"initialization", "finalization"}
      PROVE  /\ \A j, k \in DOMAIN todo : j # k => todo[j].node # todo[k].node
             /\ \A m \in Owned(Me) : \E k \in DOMAIN todo : todo[k].node = m
  <2> DEFINE s == Components[Me]
  <2>1. /\ s \in Seq(Nodes)
        /\ \A i, j \in DOMAIN s : i # j => s[i] # s[j]
    BY DEF WellFormed
  <2>2. todo = Steps(Running.event, s)
    BY <1>4, <1>8
  <2>3. Owned(Me) = {s[i] : i \in DOMAIN s}
    BY <1>2 DEF ToSet
  <2> HIDE DEF s
  <2>4. DOMAIN todo = DOMAIN s /\ \A k \in DOMAIN s : todo[k] = Step(Running.event, s[k])
    BY <1>1, <2>1, <2>2, StepsOf
  <2>5. \A k \in DOMAIN s : todo[k].node = s[k]
    BY <2>4 DEF Step
  <2>6. QED
    BY <2>1, <2>3, <2>4, <2>5
<1>9. QED
  BY <1>5, <1>6, <1>7, <1>8

\* The owner of the node that runs, and what it has left to do after its event.
Below == stack[Len(stack) - 1]
AfterEvent ==
    IF Running.event = "planned"
    THEN [node |-> Below.node, event |-> Below.event, pc |-> Below.pc,
          todo |-> Routing(Below.node, Me) \o Below.todo]
    ELSE Below

LEMMA OwnerBelow ==
    ASSUME WellFormed, Typed, stack # <<>>, Len(stack) # 1
    PROVE  /\ Len(stack) \in Nat /\ Len(stack) > 1 /\ Len(stack) - 1 \in 1 .. Len(stack)
           /\ Below \in Frames /\ FrameOK(Below) /\ CalledBy(Below, Running)
           /\ Below.node \in Owners /\ Me \in Owned(Below.node) /\ Below.node # Me
           /\ Below.node \in Nodes /\ Me \in Nodes
           /\ Running.event = "planned" => Below.event = "planned"
<1>1. /\ Len(stack) \in Nat /\ Len(stack) > 0 /\ Running = stack[Len(stack)]
      /\ Running \in Frames /\ Me \in Nodes
  BY RunningFrame DEF Typed
<1>2. Len(stack) > 1 /\ Len(stack) - 1 \in 1 .. Len(stack) /\ (Len(stack) - 1) + 1 = Len(stack)
      /\ Len(stack) - 1 \in 1 .. Len(stack) - 1
  <2>1. Len(stack) \in Nat /\ Len(stack) > 0 /\ Len(stack) # 1
    BY <1>1
  <2>2. QED
    BY <2>1
<1>3. stack \in Seq(Frames)
  BY DEF Typed, StackOK
<1>4. Below \in Frames
  BY <1>2, <1>3, ElementOfSeq DEF Below
<1>5. FrameOK(Below) /\ CalledBy(Below, Running)
  BY <1>1, <1>2 DEF Typed, StackOK, Below
<1>6. Below.node \in Owners /\ Me \in Owned(Below.node)
  BY <1>5 DEF CalledBy, Me
<1>7. Below.node # Me
  <2>1. Len(stack) \in 1 .. Len(stack) /\ Len(stack) # Len(stack) - 1
    <3>1. Len(stack) \in Nat /\ Len(stack) > 1
      BY <1>1, <1>2
    <3>2. QED
      BY <3>1
  <2>2. StackOK
    BY DEF Typed
  <2>3. \A i, j \in 1 .. Len(stack) : i # j => stack[i].node # stack[j].node
    BY <2>2, OnceOnStack
  <2>4. stack[Len(stack)].node # stack[Len(stack) - 1].node
    BY <1>2, <2>1, <2>3
  <2>5. QED
    BY <1>1, <2>4 DEF Below, Me
<1>8. Running.event = "planned" => Below.event = "planned"
  <2>1. "planned" \in Within(Below.event) => Below.event = "planned"
    BY DEF Within
  <2>2. QED
    BY <1>5, <2>1 DEF CalledBy, Owners
<1>9. Below.node \in Nodes
  BY <1>4 DEF Frames
<1>10. QED
  BY <1>1, <1>2, <1>4, <1>5, <1>6, <1>7, <1>8, <1>9

\* The list of the frame that goes on: the routing of the messages comes first.
LEMMA AfterEventList ==
    ASSUME WellFormed, Typed, stack # <<>>, Len(stack) # 1
    PROVE  /\ AfterEvent \in Frames /\ FrameOK(AfterEvent)
           /\ AfterEvent.node = Below.node /\ AfterEvent.event = Below.event
           /\ AfterEvent.pc = Below.pc
           /\ Running.event # "planned" => AfterEvent = Below
           /\ \A j \in DOMAIN Below.todo : \E k \in DOMAIN AfterEvent.todo :
                 AfterEvent.todo[k] = Below.todo[j]
           /\ \A k \in DOMAIN AfterEvent.todo :
                 \/ \E j \in DOMAIN Below.todo : AfterEvent.todo[k] = Below.todo[j]
                 \/ Running.event = "planned" /\ AfterEvent.todo[k] \in OwnerSteps(Below.node)
           /\ Running.event = "planned" =>
                 /\ \E k \in DOMAIN AfterEvent.todo : AfterEvent.todo[k] = Step("drain", Me)
                 /\ [Below EXCEPT !.todo = Routing(Below.node, Me) \o @] = AfterEvent
<1>1. /\ Below \in Frames /\ FrameOK(Below) /\ CalledBy(Below, Running)
      /\ Below.node \in Owners /\ Me \in Owned(Below.node) /\ Below.node \in Nodes
      /\ Running.event = "planned" => Below.event = "planned"
  BY OwnerBelow
<1>2. CASE Running.event # "planned"
  BY <1>1, <1>2 DEF AfterEvent
<1>3. CASE Running.event = "planned"
  <2> DEFINE r == Routing(Below.node, Me)
             b == Below.todo
             c == Below.node
  <2>1. /\ r \in Seq(OwnerSteps(c)) /\ Len(r) \in DOMAIN r /\ r[Len(r)] = Step("drain", Me)
    BY <1>1, RoutingSteps
  <2>2. b \in Seq(StepRecords)
    BY <1>1 DEF Frames
  <2>3. OwnerSteps(c) \subseteq StepRecords
    <3>1. Owned(c) \subseteq Nodes
      BY <1>1, Kinds DEF Owners
    <3> HIDE DEF c
    <3>2. QED
      BY <3>1 DEF OwnerSteps, StepRecords, EventNames
  <2>4. AfterEvent = [node |-> c, event |-> Below.event, pc |-> Below.pc, todo |-> r \o b]
    BY <1>3 DEF AfterEvent
  <2>5. FrameOK(Below) /\ Below.event = "planned" /\ c \in Owners /\ c \in Nodes
        /\ Below.pc = "call"
    <3>1. "planned" \notin {"user", "remove"}
      OBVIOUS
    <3>2. QED
      BY <1>1, <1>3 DEF CalledBy, Owners
  <2>6. r \in Seq(StepRecords)
    <3> HIDE DEF r, c
    <3> QED  BY <2>1, <2>3, MoreElements
  <2>7. \A k \in DOMAIN r : r[k] \in OwnerSteps(c)
    <3> HIDE DEF r, c
    <3> QED  BY <2>1, LenProperties, ElementOfSeq
  <2>8. /\ r \o b \in Seq(StepRecords)
        /\ DOMAIN (r \o b) = 1 .. Len(r) + Len(b)
        /\ Len(r) \in Nat /\ Len(b) \in Nat /\ DOMAIN r = 1 .. Len(r) /\ DOMAIN b = 1 .. Len(b)
        /\ \A k \in 1 .. Len(r) + Len(b) : (r \o b)[k] = IF k <= Len(r) THEN r[k] ELSE b[k - Len(r)]
    <3> HIDE DEF r, b
    <3>1. /\ r \o b \in Seq(StepRecords) /\ Len(r \o b) = Len(r) + Len(b)
          /\ Len(r) \in Nat /\ Len(b) \in Nat /\ DOMAIN r = 1 .. Len(r) /\ DOMAIN b = 1 .. Len(b)
      BY <2>2, <2>6, LenProperties
    <3>2. DOMAIN (r \o b) = 1 .. Len(r \o b)
      BY <3>1, LenProperties
    <3>3. \A k \in 1 .. Len(r) + Len(b) : (r \o b)[k] = IF k <= Len(r) THEN r[k] ELSE b[k - Len(r)]
      BY <2>2, <2>6, <3>1
    <3>4. QED
      BY <3>1, <3>2, <3>3
  <2> DEFINE l == r \o b
  <2>9. \A k \in DOMAIN l : (k \in DOMAIN r /\ l[k] = r[k])
                            \/ (\E j \in DOMAIN b : l[k] = b[j])
    <3> HIDE DEF r, b
    <3>1. \A k \in 1 .. Len(r) + Len(b) : k <= Len(r) \/ k - Len(r) \in 1 .. Len(b)
      BY <2>8
    <3>2. QED
      BY <2>8, <3>1
  <2>10. \A j \in DOMAIN b : \E k \in DOMAIN l : l[k] = b[j]
    <3> HIDE DEF r, b
    <3>1. ASSUME NEW j \in DOMAIN b PROVE Len(r) + j \in DOMAIN l /\ l[Len(r) + j] = b[j]
      <4>1. Len(r) + j \in 1 .. Len(r) + Len(b) /\ ~(Len(r) + j <= Len(r))
            /\ (Len(r) + j) - Len(r) = j
        BY <2>8
      <4>2. QED
        BY <2>8, <4>1
    <3>2. QED
      BY <3>1
  <2>11. \E k \in DOMAIN l : l[k] = Step("drain", Me)
    <3> HIDE DEF r, b
    <3>1. Len(r) \in 1 .. Len(r) + Len(b) /\ Len(r) <= Len(r)
      BY <2>1, <2>8
    <3>2. QED
      BY <2>1, <2>8, <3>1
  <2>12. l \in Seq(StepRecords) /\ AfterEvent = [node |-> c, event |-> Below.event, pc |-> Below.pc, todo |-> l]
    BY <2>4, <2>8
  <2> HIDE DEF l
  <2>13. AfterEvent \in Frames
    BY <1>1, <2>12 DEF Frames
  <2>14. AfterEvent.node = c /\ AfterEvent.event = Below.event /\ AfterEvent.pc = Below.pc
         /\ AfterEvent.todo = l
    BY <2>12
  <2>15. /\ c \in CompositeNodes => \A k \in DOMAIN l : l[k].do \in Within("planned") /\ l[k].node \in Owned(c)
         /\ c \in Collections =>
               \A k \in DOMAIN l : l[k].do \in {"planned", "micro", "drain"} /\ l[k].node \in Owned(c)
    <3>1. /\ c \in CompositeNodes =>
                /\ \A k \in DOMAIN b : b[k].do \in Within("planned") /\ b[k].node \in Owned(c)
                /\ \A k \in DOMAIN r : r[k].do \in Within("planned") /\ r[k].node \in Owned(c)
          /\ c \in Collections =>
                /\ \A k \in DOMAIN b : b[k].do \in {"planned", "micro", "drain"} /\ b[k].node \in Owned(c)
                /\ \A k \in DOMAIN r : r[k].do \in {"planned", "micro", "drain"} /\ r[k].node \in Owned(c)
      <4>1. /\ c \in CompositeNodes =>
                  /\ \A k \in DOMAIN b : b[k].do \in Within("planned") /\ b[k].node \in Owned(c)
            /\ c \in Collections =>
                  /\ \A k \in DOMAIN b : b[k].do \in {"planned", "micro", "drain"} /\ b[k].node \in Owned(c)
        BY <2>5 DEF FrameOK
      <4>2. c \in CompositeNodes => c \notin Collections
        BY <2>5, Kinds
      <4> HIDE DEF r, b, c
      <4>3. QED
        BY <2>7, <4>1, <4>2 DEF OwnerSteps, Within
    <3> HIDE DEF r, b, c
    <3>2. QED
      BY <2>9, <3>1
  <2>16. c \notin Atomics
    BY <2>5, Kinds
  <2>17. FrameOK(AfterEvent)
    <3> HIDE DEF c
    <3>1. c \in CompositeNodes \/ c \in Collections
      BY <2>5 DEF Owners
    <3>2. QED
      BY <2>5, <2>14, <2>15, <2>16 DEF FrameOK
  <2>18. [Below EXCEPT !.todo = r \o @] = AfterEvent
    <3>1. [Below EXCEPT !.todo = l] = [node |-> c, event |-> Below.event, pc |-> Below.pc, todo |-> l]
      BY <1>1, <2>5, <2>12, SameFrame
    <3>2. QED
      BY <2>12, <3>1 DEF l
  <2>19. \A k \in DOMAIN l : l[k] \in OwnerSteps(c) \/ \E j \in DOMAIN b : l[k] = b[j]
    <3> HIDE DEF r, b, c
    <3> QED  BY <2>7, <2>9
  <2>20. QED
    BY <1>3, <2>10, <2>11, <2>13, <2>14, <2>17, <2>18, <2>19
<1>4. QED
  BY <1>2, <1>3

\* What the owner of n does with its interface, and with that of the prototype.
ClosedAs(u, s, n) ==
    /\ u \in [Nodes -> Interfaces] /\ \A m \in Nodes : m # n => u[m] = s[m]
    /\ u[n].active = FALSE /\ u[n].outputs = s[n].outputs /\ u[n].received = s[n].received

LEMMA ClosedOnly ==
    ASSUME NEW s \in [Nodes -> Interfaces], NEW n \in Nodes,
           NEW u, u = deactivate(s, n)
    PROVE  ClosedAs(u, s, n)
<1>1. s[n] \in Interfaces
  OBVIOUS
<1>2. /\ u = [m \in Nodes |-> u[m]] /\ u[n] = [s[n] EXCEPT !.active = FALSE]
      /\ \A m \in Nodes : m # n => u[m] = s[m]
  BY DEF deactivate
<1>3. u[n] \in Interfaces
  BY <1>1, <1>2 DEF Interfaces
<1>4. u \in [Nodes -> Interfaces]
  BY <1>2, <1>3
<1>5. u[n].active = FALSE /\ u[n].outputs = s[n].outputs /\ u[n].received = s[n].received
  BY <1>1, <1>2 DEF Interfaces
<1>6. QED
  BY <1>2, <1>4, <1>5 DEF ClosedAs

WithdrawnAs(u, s, n) ==
    /\ u \in [Nodes -> Interfaces] /\ \A m \in Nodes : m # n => u[m] = s[m]
    /\ u[n].active = s[n].active /\ u[n].outputs = s[n].outputs /\ u[n].received = FALSE

LEMMA Withdrawn ==
    ASSUME NEW s \in [Nodes -> Interfaces], NEW n \in Nodes,
           NEW u, u = clear_message_input(s, n)
    PROVE  WithdrawnAs(u, s, n)
<1>1. s[n] \in Interfaces
  OBVIOUS
<1>2. /\ u = [m \in Nodes |-> u[m]] /\ u[n] = [s[n] EXCEPT !.received = FALSE]
      /\ \A m \in Nodes : m # n => u[m] = s[m]
  BY DEF clear_message_input
<1>3. u[n] \in Interfaces
  BY <1>1, <1>2 DEF Interfaces
<1>4. u \in [Nodes -> Interfaces]
  BY <1>2, <1>3
<1>5. u[n].active = s[n].active /\ u[n].outputs = s[n].outputs /\ u[n].received = FALSE
  BY <1>1, <1>2 DEF Interfaces
<1>6. QED
  BY <1>2, <1>4, <1>5 DEF WithdrawnAs

ClosedFor(u, s, c, n, event) ==
    /\ u \in [Nodes -> Interfaces]
    /\ \A m \in Nodes : m # n /\ (c \in Collections => m # Prototype[c]) => u[m] = s[m]
    /\ u[n].active = FALSE /\ u[n].outputs = s[n].outputs
    /\ u[n].received = IF event = "unplanned" THEN FALSE ELSE s[n].received
    /\ c \in Collections =>
          /\ u[Prototype[c]].active = s[Prototype[c]].active
          /\ u[Prototype[c]].outputs = s[Prototype[c]].outputs
          /\ u[Prototype[c]].received =
                IF event = "unplanned" THEN FALSE ELSE s[Prototype[c]].received

LEMMA ClosedInterface ==
    ASSUME WellFormed, io \in [Nodes -> Interfaces], NEW c \in Owners, NEW n \in Owned(c),
           NEW event \in EventNames
    PROVE  ClosedFor(Closed(c, n, event), io, c, n, event)
<1> DEFINE s == io
           u == Closed(c, n, event)
<1>0. s \in [Nodes -> Interfaces] /\ s = io /\ u = Closed(c, n, event)
  OBVIOUS
<1> SUFFICES ClosedFor(u, s, c, n, event)
  OBVIOUS
<1> HIDE DEF s, u
<1>1. c \in Nodes /\ n \in Nodes
  <2>1. c \in Nodes
    BY DEF WellFormed, Owners
  <2>2. QED
    BY <2>1, Kinds DEF Owners
<1>2. c \in Collections => Prototype[c] \in Nodes /\ n # Prototype[c]
  BY DEF WellFormed, Prototypes
<1>3. PICK v : v = deactivate(s, n)
  OBVIOUS
<1>4. /\ v \in [Nodes -> Interfaces] /\ \A m \in Nodes : m # n => v[m] = s[m]
      /\ v[n].active = FALSE /\ v[n].outputs = s[n].outputs /\ v[n].received = s[n].received
  <2>1. ClosedAs(v, s, n)
    BY <1>0, <1>1, <1>3, ClosedOnly
  <2>2. QED
    BY <2>1 DEF ClosedAs
<1>5. PICK w : w = clear_message_input(v, n)
  OBVIOUS
<1>6. /\ w \in [Nodes -> Interfaces] /\ \A m \in Nodes : m # n => w[m] = v[m]
      /\ w[n].active = v[n].active /\ w[n].outputs = v[n].outputs /\ w[n].received = FALSE
  <2>1. WithdrawnAs(w, v, n)
    BY <1>1, <1>4, <1>5, Withdrawn
  <2>2. QED
    BY <2>1 DEF WithdrawnAs
<1>a. /\ v = deactivate(io, n)
      /\ w = clear_message_input(deactivate(io, n), n)
  BY <1>0, <1>3, <1>5
<1>7. CASE event # "unplanned"
  <2>1. u = v
    <3>1. Closed(c, n, event) = deactivate(io, n)
      BY <1>7 DEF Closed
    <3>2. QED
      BY <1>0, <1>a, <3>1
  <2>2. QED
    BY <1>2, <1>4, <1>7, <2>1 DEF ClosedFor
<1>8. CASE event = "unplanned" /\ c \notin Collections
  <2>1. u = w
    <3>1. Closed(c, n, event) = clear_message_input(deactivate(io, n), n)
      BY <1>8 DEF Closed
    <3>2. QED
      BY <1>0, <1>a, <3>1
  <2>2. QED
    BY <1>4, <1>6, <1>8, <2>1 DEF ClosedFor
<1>9. CASE event = "unplanned" /\ c \in Collections
  <2> DEFINE p == Prototype[c]
  <2>1. u = clear_message_input(w, p) /\ p \in Nodes /\ p # n
    <3>1. Closed(c, n, event) = clear_message_input(clear_message_input(deactivate(io, n), n), Prototype[c])
      BY <1>9 DEF Closed
    <3>2. QED
      BY <1>0, <1>2, <1>a, <1>9, <3>1
  <2> HIDE DEF p
  <2>2. /\ u \in [Nodes -> Interfaces] /\ \A m \in Nodes : m # p => u[m] = w[m]
        /\ u[p].active = w[p].active /\ u[p].outputs = w[p].outputs /\ u[p].received = FALSE
    <3>1. WithdrawnAs(u, w, p)
      BY <1>6, <2>1, Withdrawn
    <3>2. QED
      BY <3>1 DEF WithdrawnAs
  <2>3. \A m \in Nodes : m # n /\ m # p => u[m] = s[m]
    BY <1>4, <1>6, <2>2
  <2>4. u[n] = w[n] /\ w[p] = s[p]
    BY <1>1, <1>4, <1>6, <2>1, <2>2
  <2>5. u[n].active = FALSE /\ u[n].outputs = s[n].outputs /\ u[n].received = FALSE
    BY <1>4, <1>6, <2>4
  <2>6. u[p].active = s[p].active /\ u[p].outputs = s[p].outputs /\ u[p].received = FALSE
    BY <2>2, <2>4
  <2>7. QED
    BY <1>9, <2>2, <2>3, <2>5, <2>6 DEF p, ClosedFor
<1>10. QED
  BY <1>7, <1>8, <1>9

Missing == Running.event = "finalization" /\ missing_flow_output(io, Me)
Removed == Running.event = "finalization" /\ Below.node \in Collections /\ ~Missing

LEMMA FinishStep ==
    ASSUME WellFormed, Typed, stack # <<>>, Len(stack) # 1, NEW finite, FinishesComponent(finite)
    PROVE  /\ StackOK'
           /\ Len(stack') = Len(stack) - 1
           /\ stack'[Len(stack) - 1] = AfterEvent
           /\ \A i \in 1 .. Len(stack) - 2 : stack'[i] = stack[i]
           /\ \A i \in 1 .. Len(stack) - 1 :
                 stack'[i].node = stack[i].node /\ stack'[i].event = stack[i].event
           /\ stack' # <<>>
           /\ io' = Closed(Below.node, Me, Running.event)
           /\ timing' = timing \ ({Me} \cup Stopped(Below.node, Running.event))
           /\ plans' = IF Running.event = "finalization" THEN IF Removed THEN plans \ {Me} ELSE plans
                       ELSE WithPlan(Me, finite)
           /\ registered' = IF Removed THEN registered \ {Me} ELSE registered
           /\ thrown' = IF Missing THEN Exception(Below.node) ELSE Nothing
           /\ broken' = IF Missing THEN broken \cup {Me} ELSE broken
           /\ UNCHANGED <<printing, told, simVars>>
<1>1. /\ Len(stack) \in Nat /\ Len(stack) > 1 /\ Below \in Frames
      /\ StackOK
  BY OwnerBelow DEF Typed
<1>2. /\ AfterEvent \in Frames /\ FrameOK(AfterEvent)
      /\ AfterEvent.node = Below.node /\ AfterEvent.event = Below.event
      /\ Running.event # "planned" => AfterEvent = Below
      /\ Running.event = "planned" => [Below EXCEPT !.todo = Routing(Below.node, Me) \o @] = AfterEvent
  BY AfterEventList
<1> DEFINE f == AfterEvent
<1>3. stack' = SubSeq(stack, 1, Len(stack) - 2) \o <<f>>
  <2>1. stack' = SubSeq(stack, 1, Len(stack) - 2)
           \o <<IF Running.event = "planned" THEN [Below EXCEPT !.todo = Routing(Below.node, Me) \o @]
                ELSE Below>>
    BY DEF FinishesComponent, Below
  <2>2. (IF Running.event = "planned" THEN [Below EXCEPT !.todo = Routing(Below.node, Me) \o @]
                ELSE Below) = f
    BY <1>2
  <2> HIDE DEF f
  <2>3. QED
    BY <2>1, <2>2
<1>4. f \in Frames /\ FrameOK(f) /\ f.node = Below.node /\ f.event = Below.event
  BY <1>2
<1> HIDE DEF f
<1> DEFINE u == SubSeq(stack, 1, Len(stack) - 2) \o <<f>>
<1>5. /\ u \in Seq(Frames) /\ Len(u) = Len(stack) - 1 /\ u[Len(stack) - 1] = f
      /\ \A i \in 1 .. Len(stack) - 2 : u[i] = stack[i]
  BY <1>1, <1>4, ResumedFrame
<1>6. StackOK'
  BY <1>1, <1>3, <1>4, StackResumed DEF Below
<1>7. stack' = u
  BY <1>3
<1> HIDE DEF u
<1>8. \A i \in 1 .. Len(stack) - 1 :
         stack'[i].node = stack[i].node /\ stack'[i].event = stack[i].event
  <2>1. \A i \in 1 .. Len(stack) - 1 : i \in 1 .. Len(stack) - 2 \/ i = Len(stack) - 1
    BY <1>1
  <2>2. QED
    BY <1>4, <1>5, <1>7, <2>1 DEF Below
<1>9. stack' # <<>>
  BY <1>1, <1>5, <1>7, EmptySeq
<1>10. /\ io' = Closed(Below.node, Me, Running.event)
       /\ timing' = timing \ ({Me} \cup Stopped(Below.node, Running.event))
       /\ plans' = IF Running.event = "finalization" THEN IF Removed THEN plans \ {Me} ELSE plans
                   ELSE WithPlan(Me, finite)
       /\ registered' = IF Removed THEN registered \ {Me} ELSE registered
       /\ thrown' = IF Missing THEN Exception(Below.node) ELSE Nothing
       /\ broken' = IF Missing THEN broken \cup {Me} ELSE broken
       /\ UNCHANGED <<printing, told, simVars>>
  BY DEF FinishesComponent, Below, Removed, Missing
<1>11. QED
  BY <1>5, <1>6, <1>7, <1>8, <1>9, <1>10 DEF f

\* An exception ends the event that runs.
LEMMA UnwindStep ==
    ASSUME WellFormed, Typed, Unwinds
    PROVE  /\ StackOK' /\ stack # <<>>
           /\ Len(stack) \in Nat /\ Len(stack) > 0 /\ Running = stack[Len(stack)]
           /\ Len(stack') = Len(stack) - 1
           /\ \A i \in 1 .. Len(stack) - 1 : stack'[i] = stack[i]
           /\ broken' = broken \cup {Me}
           /\ thrown # Nothing /\ thrown' # Nothing
           /\ thrown \in [type : {"exception", "error"}, named : Nodes, origin : Nodes]
           /\ thrown' \in [type : {"exception", "error"}, named : Nodes, origin : Nodes]
           /\ thrown'.origin = thrown.origin
           /\ IF Len(stack) > 1 /\ Below.node \in Collections
              THEN thrown'.type = "exception" /\ thrown'.named = Below.node
              ELSE thrown'.type = "error" /\ thrown'.named = thrown.named
           /\ timing' = timing \ ({Me} \cup IF Len(stack) > 1 /\ Below.node \in Collections
                                               /\ Running.event = "planned" THEN {Below.node} ELSE {})
<1>1. /\ StackOK /\ stack # <<>> /\ thrown # Nothing /\ stack' = Front(stack)
      /\ broken' = broken \cup {Me}
  BY DEF Unwinds, Typed
<1>2. Len(stack) \in Nat /\ Len(stack) > 0 /\ Running = stack[Len(stack)]
  BY <1>1, RunningFrame
<1>3. Len(stack') = Len(stack) - 1 /\ \A i \in 1 .. Len(stack) - 1 : stack'[i] = stack[i]
  BY <1>1, PoppedFrame
<1>4. StackOK'
  BY <1>1, StackPopped
<1> DEFINE T == [type : {"exception", "error"}, named : Nodes, origin : Nodes]
<1>5. thrown \in T
  BY <1>1 DEF Typed
<1>6. NodeError \in T /\ NodeError.type = "error" /\ NodeError.origin = thrown.origin
      /\ NodeError.named = thrown.named
  BY <1>5 DEF NodeError
<1>7. Len(stack) > 1 => Below.node \in Nodes
  BY <1>1, <1>2, OwnerBelow
<1> DEFINE sliced == Len(stack) > 1 /\ Below.node \in Collections
<1>8. /\ thrown' = IF sliced THEN [NodeError EXCEPT !.type = "exception", !.named = Below.node]
                   ELSE NodeError
      /\ timing' = timing \ ({Me} \cup IF sliced /\ Running.event = "planned" THEN {Below.node} ELSE {})
  BY DEF Unwinds, Below, StoppedByError
<1>9. /\ thrown' \in T /\ thrown'.origin = thrown.origin
      /\ IF sliced THEN thrown'.type = "exception" /\ thrown'.named = Below.node
         ELSE thrown'.type = "error" /\ thrown'.named = thrown.named
  BY <1>6, <1>7, <1>8
<1>10. thrown' # Nothing
  BY <1>9 DEF Nothing
<1>11. QED
  BY <1>1, <1>2, <1>3, <1>4, <1>5, <1>8, <1>9, <1>10

-----------------------------------------------------------------------------
(* Every step keeps the types and the path of calls.                       *)

\* An exception that running code throws.
LEMMA Thrown ==
    ASSUME NEW n \in Nodes
    PROVE  /\ Exception(n) \in [type : {"exception", "error"}, named : Nodes, origin : Nodes]
           /\ Exception(n) # Nothing
           /\ Exception(n).type = "exception" /\ Exception(n).named = n /\ Exception(n).origin = n
  BY DEF Exception, Nothing

LEMMA TypedThrows ==
    ASSUME Typed, stack # <<>>, Throws
    PROVE  Typed'
<1>1. Me \in Nodes
  BY RunningFrame DEF Typed
<1>2. io' = io /\ stack' = stack /\ thrown' = Exception(Me)
  BY DEF Throws
<1>3. StackOK'
  BY <1>2 DEF Typed, StackOK, FrameOK, CalledBy
<1>4. QED
  BY <1>1, <1>2, <1>3, Thrown DEF Typed

\* The first event of a simulation call.
LEMMA TypedFirst ==
    ASSUME WellFormed, Typed, process_next_event
    PROVE  /\ Typed' /\ stack = <<>>
           /\ \E event \in Events(status) :
                 /\ event \in EventNames /\ event # "unplanned"
                 /\ io' = activate(io, Top, event)
                 /\ IF sim_timing THEN stack' = <<>> /\ thrown' = Exception(Top)
                    ELSE stack' = <<EnterFrame(Top, event)>> /\ thrown' = thrown
<1>1. PICK event \in Events(status) :
         /\ io' = activate(io, Top, event)
         /\ IF sim_timing THEN stack' = <<>> /\ thrown' = Exception(Top)
            ELSE stack' = <<EnterFrame(Top, event)>> /\ thrown' = thrown
  BY DEF process_next_event, start_throws, EnterFrame
<1>2. event \in EventNames /\ event # "unplanned"
  BY DEF Events, EventNames
<1>3. Top \in Nodes
  BY DEF WellFormed
<1>4. io' \in [Nodes -> Interfaces]
  BY <1>1, <1>2, <1>3, Operations DEF Typed, ChangedAt
<1>5. thrown' \in {Nothing} \cup [type : {"exception", "error"}, named : Nodes, origin : Nodes]
  BY <1>1, <1>3, Thrown DEF Typed
<1>6. StackOK'
  <2>1. CASE sim_timing
    <3>1. stack' = <<>> /\ <<>> \in Seq(Frames) /\ Len(<<>>) = 0
      BY <1>1, <2>1
    <3>2. QED
      BY <3>1 DEF StackOK
  <2>2. CASE ~sim_timing
    <3> DEFINE f == EnterFrame(Top, event)
    <3>1. f \in Frames /\ f.node = Top /\ f.event = event /\ f.pc = "enter" /\ f.todo = <<>>
      BY <1>2, <1>3 DEF EnterFrame, Frames
    <3>2. stack' = <<f>>
      BY <1>1, <2>2
    <3>3. FrameOK(f)
      <4>1. DOMAIN <<>> = {}
        OBVIOUS
      <4> HIDE DEF f
      <4>2. QED
        BY <3>1, <4>1 DEF FrameOK
    <3> HIDE DEF f
    <3>4. stack' \in Seq(Frames) /\ Len(stack') = 1 /\ stack'[1] = f
      BY <3>1, <3>2
    <3>5. \A i \in 1 .. Len(stack') : i = 1
      BY <3>4
    <3>6. \A i \in 1 .. Len(stack') : FrameOK(stack'[i])
      BY <3>3, <3>4, <3>5
    <3>7. 1 .. Len(stack') - 1 = {}
      BY <3>4
    <3>8. QED
      BY <1>2, <3>1, <3>4, <3>6, <3>7 DEF StackOK, FrameOK, CalledBy
  <2>3. QED
    BY <2>1, <2>2
<1>7. stack = <<>>
  BY DEF process_next_event
<1>8. QED
  BY <1>1, <1>2, <1>4, <1>5, <1>6, <1>7 DEF Typed

LEMMA TypedGoesOn ==
    ASSUME WellFormed, Typed, NEW f, GoesOn(f), io' \in [Nodes -> Interfaces],
           thrown' \in {Nothing} \cup [type : {"exception", "error"}, named : Nodes, origin : Nodes]
    PROVE  Typed'
  BY GoesOnStep DEF Typed

LEMMA TypedCalls ==
    ASSUME WellFormed, Typed, NEW n, NEW event, NEW f, Calling(n, event, f),
           NEW s \in [Nodes -> Interfaces], NEW running, Calls(n, event, s, f, running)
    PROVE  Typed'
<1>1. StackOK'
  BY CallStep DEF Typed
<1>2. n \in Nodes /\ event \in EventNames
  BY DEF Calling
<1>3. io' = activate(s, n, event) /\ thrown' = thrown
  BY DEF Calls, errorVars
<1>4. io' \in [Nodes -> Interfaces]
  BY <1>2, <1>3, Operations DEF ChangedAt
<1>5. QED
  BY <1>1, <1>3, <1>4 DEF Typed

LEMMA TypedFinishes ==
    ASSUME WellFormed, Typed, stack # <<>>, thrown = Nothing, NEW finite, Finishes(finite)
    PROVE  Typed'
<1>1. CASE Len(stack) = 1
  <2>1. stack' = <<>> /\ io' = deactivate(io, Top) /\ thrown' = thrown
    BY <1>1 DEF Finishes, FinishesTop, errorVars
  <2>2. io' \in [Nodes -> Interfaces]
    <3>1. Top \in Nodes
      BY DEF WellFormed
    <3>2. QED
      BY <2>1, <3>1, Operations DEF Typed, ChangedAt
  <2>3. StackOK'
    <3>1. <<>> \in Seq(Frames) /\ Len(<<>>) = 0
      OBVIOUS
    <3>2. QED
      BY <2>1, <3>1 DEF StackOK
  <2>4. QED
    BY <2>1, <2>2, <2>3 DEF Typed
<1>2. CASE Len(stack) # 1
  <2>1. FinishesComponent(finite)
    BY <1>2 DEF Finishes
  <2>2. /\ StackOK' /\ io' = Closed(Below.node, Me, Running.event)
        /\ thrown' = IF Missing THEN Exception(Below.node) ELSE Nothing
    BY <1>2, <2>1, FinishStep
  <2>3. Below.node \in Owners /\ Me \in Owned(Below.node) /\ Below.node \in Nodes
    BY <1>2, OwnerBelow
  <2>4. Running.event \in EventNames
    BY RunningFrame DEF Typed, Frames
  <2>5. io' \in [Nodes -> Interfaces]
    <3>1. io \in [Nodes -> Interfaces]
      BY DEF Typed
    <3>2. ClosedFor(Closed(Below.node, Me, Running.event), io, Below.node, Me, Running.event)
      BY <2>3, <2>4, <3>1, ClosedInterface
    <3>3. QED
      BY <2>2, <3>2 DEF ClosedFor
  <2>6. QED
    BY <2>2, <2>3, <2>5, Thrown DEF Typed
<1>3. QED
  BY <1>1, <1>2

\* What user code does with ports changes at most one interface.
LEMMA TypedPort ==
    ASSUME WellFormed, Typed, stack # <<>>, NEW allowed, NEW s \in [Nodes -> Interfaces],
           UsesPort(allowed, s)
    PROVE  Typed'
<1>1. CASE allowed
  <2>1. io' = s /\ stack' = stack /\ thrown' = thrown
    BY <1>1 DEF UsesPort, errorVars
  <2>2. StackOK'
    BY <2>1 DEF Typed, StackOK, FrameOK, CalledBy
  <2>3. QED
    BY <2>1, <2>2 DEF Typed
<1>2. CASE ~allowed
  BY <1>2, TypedThrows DEF UsesPort
<1>3. QED
  BY <1>1, <1>2

LEMMA TypedEnters ==
    ASSUME WellFormed, Typed, EntersUserCode \/ EntersAgentEvent \/ EntersComposite
    PROVE  Typed'
<1>1. CASE EntersUserCode
  <2>1. stack # <<>> /\ Me \notin CompositeNodes
    BY <1>1, RunsFacts DEF EntersUserCode
  <2>2. CASE Throws
    BY <2>1, <2>2, TypedThrows
  <2>3. CASE ~Throws
    <3>1. /\ stack' = WithRunning([Running EXCEPT !.pc = "user"])
          /\ io' = io /\ thrown' = thrown
      BY <1>1, <2>3 DEF EntersUserCode, errorVars
    <3>2. GoesOn([node |-> Me, event |-> Running.event, pc |-> "user", todo |-> Running.todo])
      BY <2>1, <3>1, GoesTo
    <3>3. QED
      BY <3>1, <3>2, TypedGoesOn DEF Typed
  <2>4. QED
    BY <2>2, <2>3
<1>2. CASE EntersAgentEvent
  <2>1. io' = io /\ thrown' = thrown
    BY <1>2 DEF EntersAgentEvent, errorVars
  <2>2. \E f : GoesOn(f)
    BY <1>2, AgentEventEntered
  <2>3. QED
    BY <2>1, <2>2, TypedGoesOn DEF Typed
<1>3. CASE EntersComposite
  <2>1. stack # <<>> /\ Me \in CompositeNodes
    BY <1>3, RunsFacts DEF EntersComposite
  <2>2. CASE Throws
    BY <2>1, <2>2, TypedThrows
  <2>3. CASE ~Throws
    <3>1. io' = io /\ thrown' = thrown
      BY <1>3, <2>3 DEF EntersComposite, errorVars
    <3>2. PICK todo \in ComponentSteps :
             stack' = WithRunning([Running EXCEPT !.pc = "call", !.todo = todo])
      BY <1>3, <2>3 DEF EntersComposite
    <3>3. /\ todo \in Seq(StepRecords)
          /\ FrameOK([node |-> Me, event |-> Running.event, pc |-> "call", todo |-> todo])
      BY <2>1, ComponentList
    <3>4. GoesOn([node |-> Me, event |-> Running.event, pc |-> "call", todo |-> todo])
      BY <2>1, <3>2, <3>3, GoesToCalls
    <3>5. QED
      BY <3>1, <3>4, TypedGoesOn DEF Typed
  <2>4. QED
    BY <2>2, <2>3
<1>4. QED
  BY <1>1, <1>2, <1>3

\* What is left of a list of calls.
LEMMA GoesToRest ==
    ASSUME WellFormed, Typed, NEW do, Next_is(do), stack' = WithRunning(Rest)
    PROVE  GoesOn(Rest)
<1>1. Runs("call") /\ Rest \in Frames /\ FrameOK(Rest) /\ Rest.node = Me /\ Rest.event = Running.event
  BY NextStep
<1>2. QED
  BY <1>1, RunsFacts DEF GoesOn

LEMMA MicroEntered ==
    ASSUME WellFormed, Typed, Next_is({"micro"}), stack' = WithRunning([Rest EXCEPT !.pc = "user"])
    PROVE  /\ GoesOn([node |-> Me, event |-> Running.event, pc |-> "user", todo |-> Tail(Running.todo)])
           /\ Me \in Collections /\ Running.event = "planned" /\ Prototype[Me] \in Nodes
<1>1. /\ Runs("call") /\ Rest \in Frames /\ FrameOK(Rest) /\ Rest.node = Me /\ Rest.event = Running.event
      /\ Rest.todo = Tail(Running.todo)
      /\ Me \in CompositeNodes => Head(Running.todo).do \in Within(Running.event)
      /\ Head(Running.todo).do \in {"micro"}
      /\ Me \in CompositeNodes \/ Me \in Collections
      /\ Me \in Collections => Running.event = "planned"
  BY NextStep
<1>2. Me \notin CompositeNodes
  <2>1. Running.event \in EventNames
    BY <1>1, RunsFacts
  <2>2. "micro" \notin Within(Running.event)
    BY <2>1 DEF Within, EventNames
  <2>3. QED
    BY <1>1, <2>2
<1>3. Me \in Collections /\ Running.event = "planned" /\ Me \in Nodes /\ stack # <<>>
      /\ Me \notin Atomics /\ Prototype[Me] \in Nodes
  <2>1. Me \in Collections /\ Running.event = "planned" /\ Me \in Nodes /\ stack # <<>>
    BY <1>1, <1>2, RunsFacts
  <2>2. QED
    BY <2>1, Kinds DEF WellFormed, Owners
<1> DEFINE f == [node |-> Me, event |-> Running.event, pc |-> "user", todo |-> Rest.todo]
<1>4. Rest.todo \in Seq(StepRecords)
  BY <1>1 DEF Frames
<1>5. [Rest EXCEPT !.pc = "user"] = f /\ f \in Frames
  <2>1. /\ [Rest EXCEPT !.pc = "user"] \in Frames
        /\ [Rest EXCEPT !.pc = "user"]
              = [node |-> Rest.node, event |-> Rest.event, pc |-> "user", todo |-> Rest.todo]
    BY <1>1, <1>4, SameFrame
  <2>2. QED
    BY <1>1, <2>1
<1>6. stack' = WithRunning(f)
  BY <1>5
<1>7. f.node = Me /\ f.event = Running.event /\ f.todo = Rest.todo /\ f.pc = "user"
  OBVIOUS
<1> HIDE DEF f
<1>8. FrameOK(f)
  BY <1>1, <1>2, <1>3, <1>7 DEF FrameOK
<1>9. GoesOn(f)
  BY <1>3, <1>5, <1>6, <1>7, <1>8 DEF GoesOn
<1>10. QED
  BY <1>1, <1>3, <1>9 DEF f

LEMMA TypedCalling ==
    ASSUME WellFormed, Typed,
           CallsComponent \/ SendsOutward \/ micro_planned_event \/ ClearsOutputs
    PROVE  Typed'
<1>1. CASE CallsComponent
  <2> DEFINE do == {"initialization", "planned", "unplanned", "finalization"}
  <2>1. Next_is(do)
    BY <1>1 DEF CallsComponent
  <2>2. stack # <<>>
    BY <2>1, RunsFacts DEF Next_is
  <2>3. CASE Throws
    BY <2>2, <2>3, TypedThrows
  <2>4. CASE ~Throws
    <3> DEFINE n == Head(Running.todo).node
               event == Head(Running.todo).do
               s == IF event = "unplanned" THEN set_message_input(io, n) ELSE io
    <3>1. Calls(n, event, s, Rest, timing \cup {Me})
      BY <1>1, <2>4 DEF CallsComponent
    <3>2. Calling(n, event, Rest)
      BY <2>1, ComponentCall
    <3>3. s \in [Nodes -> Interfaces]
      <4>1. n \in Nodes
        BY <3>2 DEF Calling
      <4>2. QED
        BY <4>1, Operations DEF Typed, ChangedAt
    <3> HIDE DEF n, event, s
    <3>4. QED
      BY <3>1, <3>2, <3>3, TypedCalls
  <2>5. QED
    BY <2>3, <2>4
<1>2. CASE SendsOutward
  <2>1. /\ Next_is({"outward"}) /\ stack' = WithRunning(Rest)
        /\ io' = append_message_output(io, Me) /\ thrown' = thrown
    BY <1>2 DEF SendsOutward, errorVars
  <2>2. Me \in Nodes
    BY <2>1, RunsFacts DEF Next_is
  <2>3. io' \in [Nodes -> Interfaces]
    <3>1. ChangedAt(append_message_output(io, Me), io, Me)
      BY <2>2, Operations DEF Typed
    <3>2. QED
      BY <2>1, <3>1 DEF ChangedAt
  <2>4. GoesOn(Rest)
    BY <2>1, GoesToRest
  <2>5. QED
    BY <2>1, <2>3, <2>4, TypedGoesOn DEF Typed
<1>3. CASE micro_planned_event
  <2>1. Next_is({"micro"})
    BY <1>3 DEF micro_planned_event
  <2>2. stack # <<>>
    BY <2>1, RunsFacts DEF Next_is
  <2>3. CASE Throws
    BY <2>2, <2>3, TypedThrows
  <2>4. CASE ~Throws
    <3>1. /\ stack' = WithRunning([Rest EXCEPT !.pc = "user"])
          /\ io' = append_message_output(io, Prototype[Me]) /\ thrown' = thrown
      BY <1>3, <2>4 DEF micro_planned_event, errorVars
    <3>2. /\ GoesOn([node |-> Me, event |-> Running.event, pc |-> "user", todo |-> Tail(Running.todo)])
          /\ Prototype[Me] \in Nodes
      BY <2>1, <3>1, MicroEntered
    <3>3. io' \in [Nodes -> Interfaces]
      BY <3>1, <3>2, Operations DEF Typed, ChangedAt
    <3>4. QED
      BY <3>1, <3>2, <3>3, TypedGoesOn DEF Typed
  <2>5. QED
    BY <2>3, <2>4
<1>4. CASE ClearsOutputs
  <2>1. /\ Next_is({"drain"}) /\ stack' = WithRunning(Rest)
        /\ io' = clear_message_outputs(io, Head(Running.todo).node) /\ thrown' = thrown
    BY <1>4 DEF ClearsOutputs, errorVars
  <2>2. Head(Running.todo).node \in Nodes
    BY <2>1, NextStep
  <2>3. io' \in [Nodes -> Interfaces]
    <3>1. ChangedAt(clear_message_outputs(io, Head(Running.todo).node), io, Head(Running.todo).node)
      BY <2>2, Operations DEF Typed
    <3>2. QED
      BY <2>1, <3>1 DEF ChangedAt
  <2>4. GoesOn(Rest)
    BY <2>1, GoesToRest
  <2>5. QED
    BY <2>1, <2>3, <2>4, TypedGoesOn DEF Typed
<1>5. QED
  BY <1>1, <1>2, <1>3, <1>4

LEMMA TypedUserCode ==
    ASSUME WellFormed, Typed, UserCode
    PROVE  Typed'
<1>1. stack # <<>> /\ Me \in Nodes
  <2>1. stack # <<>>
    BY RunsFacts DEF UserCode, InUserCode, send, assign, receive, UserThrows, UserCatches,
       get_flow_input, get_message_input, create_agent, affect_agent, remove_agent,
       InvalidDuration, AtomicReturns, MacroReturns, MacroFinalizationReturns
  <2>2. QED
    BY <2>1, RunningFrame DEF Typed
<1>2. Me \in Collections => Prototype[Me] \in Nodes /\ \A a \in Agents[Me] : a \in Nodes
  BY DEF WellFormed
<1>3. io \in [Nodes -> Interfaces]
  BY DEF Typed
<1>4. CASE send \/ assign \/ receive \/ get_flow_input \/ get_message_input
  <2>1. /\ append_message_output(io, Me) \in [Nodes -> Interfaces]
        /\ assign_flow_output(io, Me) \in [Nodes -> Interfaces]
        /\ Me \in Collections => /\ assign_flow_input(io, Prototype[Me]) \in [Nodes -> Interfaces]
                                 /\ set_message_input(io, Prototype[Me]) \in [Nodes -> Interfaces]
    BY <1>1, <1>2, <1>3, Operations DEF ChangedAt
  <2>2. \A allowed : \A s \in [Nodes -> Interfaces] : UsesPort(allowed, s) => Typed'
    BY <1>1, TypedPort
  <2>3. CASE send
    <3>1. UsesPort(CanSend(io[Me]), append_message_output(io, Me))
      BY <2>3 DEF send
    <3>2. QED
      BY <2>1, <2>2, <3>1
  <2>4. CASE assign
    <3>1. UsesPort(CanAssign(io[Me]), assign_flow_output(io, Me))
      BY <2>4 DEF assign
    <3>2. QED
      BY <2>1, <2>2, <3>1
  <2>5. CASE receive
    <3>1. UsesPort(CanReceive(io[Me]), io)
      BY <2>5 DEF receive
    <3>2. QED
      BY <1>3, <2>2, <3>1
  <2>6. CASE get_flow_input
    <3>1. Me \in Collections /\ UsesPort(io[Me].active, assign_flow_input(io, Prototype[Me]))
      BY <2>6 DEF get_flow_input
    <3>2. QED
      BY <2>1, <2>2, <3>1
  <2>7. CASE get_message_input
    <3>1. /\ Me \in Collections
          /\ UsesPort(io[Me].active /\ ~io[Prototype[Me]].received,
                      set_message_input(io, Prototype[Me]))
      BY <2>7 DEF get_message_input
    <3>2. QED
      BY <2>1, <2>2, <3>1
  <2>8. QED
    BY <1>4, <2>3, <2>4, <2>5, <2>6, <2>7
<1>5. CASE UserThrows
  BY <1>1, <1>5, TypedThrows DEF UserThrows
<1>6. CASE UserCatches
  <2>1. io' = io /\ stack' = stack /\ thrown' = Nothing
    BY <1>6 DEF UserCatches
  <2>2. StackOK'
    BY <2>1 DEF Typed, StackOK, FrameOK, CalledBy
  <2>3. QED
    BY <2>1, <2>2 DEF Typed
<1>7. CASE create_agent
  <2>1. Runs("user") /\ Me \in Collections
    BY <1>7 DEF create_agent, InUserCode
  <2>2. PICK a \in Agents[Me] :
          \/ Throws
          \/ Calls(a, "initialization", assign_flow_input(io, a), Running, timing)
          \/ io' = io /\ stack' = stack /\ thrown' = Exception(Me)
    BY <1>7 DEF create_agent
  <2>3. CASE Throws
    BY <1>1, <2>3, TypedThrows
  <2>4. CASE Calls(a, "initialization", assign_flow_input(io, a), Running, timing)
    <3>1. Calling(a, "initialization", Running)
      BY <2>1, AgentCall DEF EventNames
    <3>2. assign_flow_input(io, a) \in [Nodes -> Interfaces]
      BY <1>2, <1>3, <2>1, Operations DEF ChangedAt
    <3>3. QED
      BY <2>4, <3>1, <3>2, TypedCalls
  <2>5. CASE io' = io /\ stack' = stack /\ thrown' = Exception(Me)
    <3>1. StackOK'
      BY <2>5 DEF Typed, StackOK, FrameOK, CalledBy
    <3>2. QED
      BY <1>1, <2>5, <3>1, Thrown DEF Typed
  <2>6. QED
    BY <2>2, <2>3, <2>4, <2>5
<1>8. CASE affect_agent
  <2>1. Runs("user") /\ Me \in Collections
    BY <1>8 DEF affect_agent, InUserCode
  <2>2. PICK a \in Agents[Me] :
          Throws \/ Calls(a, "unplanned", set_message_input(io, a), Running, timing)
    BY <1>8 DEF affect_agent
  <2>3. Calling(a, "unplanned", Running)
    BY <2>1, AgentCall DEF EventNames
  <2>4. set_message_input(io, a) \in [Nodes -> Interfaces]
    BY <1>2, <1>3, <2>1, Operations DEF ChangedAt
  <2>5. QED
    BY <1>1, <2>2, <2>3, <2>4, TypedCalls, TypedThrows
<1>9. CASE remove_agent
  <2>1. Runs("user") /\ Me \in Collections
    BY <1>9 DEF remove_agent, InUserCode
  <2>2. PICK a \in Agents[Me] : Throws \/ Calls(a, "finalization", io, Running, timing)
    BY <1>9 DEF remove_agent
  <2>3. Calling(a, "finalization", Running)
    BY <2>1, AgentCall DEF EventNames
  <2>4. QED
    BY <1>1, <1>3, <2>2, <2>3, TypedCalls, TypedThrows
<1>10. CASE InvalidDuration
  <2>1. /\ Runs("user") /\ stack' = WithRunning([Running EXCEPT !.pc = "call"])
        /\ io' = IF Me \in Collections THEN cleared_prototype(io, Me) ELSE io
        /\ thrown' = Exception(Me)
    BY <1>10 DEF InvalidDuration, InUserCode
  <2>2. GoesOn([node |-> Me, event |-> Running.event, pc |-> "call", todo |-> Running.todo])
    BY <1>1, <2>1, GoesTo
  <2>3. io' \in [Nodes -> Interfaces]
    BY <1>3, <2>1, PrototypeCleared DEF ChangedAt
  <2>4. QED
    BY <1>1, <2>1, <2>2, <2>3, Thrown, TypedGoesOn
<1>11. CASE AtomicReturns
  BY <1>11, RunsFacts, TypedFinishes DEF AtomicReturns, InUserCode
<1>12. CASE MacroReturns
  <2>1. /\ Me \in Collections /\ stack' = WithRunning([Running EXCEPT !.pc = "call"])
        /\ io' = cleared_prototype(io, Me) /\ thrown' = thrown
    BY <1>12 DEF MacroReturns, InUserCode, errorVars
  <2>2. GoesOn([node |-> Me, event |-> Running.event, pc |-> "call", todo |-> Running.todo])
    BY <1>1, <2>1, GoesTo
  <2>3. io' \in [Nodes -> Interfaces]
    BY <1>3, <2>1, PrototypeCleared DEF ChangedAt
  <2>4. QED
    BY <2>1, <2>2, <2>3, TypedGoesOn DEF Typed
<1>13. CASE MacroFinalizationReturns
  <2>1. /\ Me \in Collections /\ Running.event = "finalization"
        /\ stack' = WithRunning([Running EXCEPT !.pc = "remove"])
        /\ io' = io /\ thrown' = thrown
    BY <1>13 DEF MacroFinalizationReturns, errorVars
  <2>2. Me \notin CompositeNodes
    BY <1>1, <2>1, Kinds
  <2>3. GoesOn([node |-> Me, event |-> Running.event, pc |-> "remove", todo |-> Running.todo])
    BY <1>1, <2>1, <2>2, GoesTo
  <2>4. QED
    BY <1>3, <2>1, <2>3, TypedGoesOn DEF Typed
<1>14. QED
  BY <1>4, <1>5, <1>6, <1>7, <1>8, <1>9, <1>10, <1>11, <1>12, <1>13 DEF UserCode

LEMMA TypedStep ==
    ASSUME WellFormed, Typed, [Next]_vars
    PROVE  Typed'
<1>1. CASE process_next_event
  BY <1>1, TypedFirst
<1>2. CASE ignore_next_event \/ UNCHANGED vars
  <2>1. io' = io /\ thrown' = thrown /\ stack' = stack
    BY <1>2 DEF ignore_next_event, vars, errorVars
  <2>2. QED
    BY <2>1 DEF Typed, StackOK, FrameOK, CalledBy
<1>3. CASE EntersUserCode \/ EntersAgentEvent \/ EntersComposite
  BY <1>3, TypedEnters
<1>4. CASE CallsComponent \/ SendsOutward \/ micro_planned_event \/ ClearsOutputs
  BY <1>4, TypedCalling
<1>5. CASE FinishesCalls
  BY <1>5, RunsFacts, TypedFinishes DEF FinishesCalls
<1>6. CASE UserCode
  BY <1>6, TypedUserCode
<1>7. CASE RemovesLeftAgents
  <2>1. Runs("remove")
    BY <1>7 DEF RemovesLeftAgents
  <2>2. stack # <<>> /\ thrown = Nothing /\ FrameOK(Running) /\ Running.pc = "remove"
        /\ Running.node = Me /\ Me \in Nodes
    BY <2>1, RunsFacts
  <2>3. Me \in Collections
    BY <2>2, Kinds DEF FrameOK
  <2>4. CASE Finishes(FALSE)
    BY <2>2, <2>4, TypedFinishes
  <2>5. CASE \E a \in Agents[Me] : Calls(a, "finalization", io, Running, timing)
    <3>1. PICK a \in Agents[Me] : Calls(a, "finalization", io, Running, timing)
      BY <2>5
    <3>2. Calling(a, "finalization", Running)
      BY <2>1, <2>3, AgentCall DEF EventNames
    <3>3. QED
      BY <3>1, <3>2, TypedCalls DEF Typed
  <2>6. QED
    BY <1>7, <2>4, <2>5 DEF RemovesLeftAgents
<1>8. CASE Unwinds
  <2>1. /\ StackOK'
        /\ thrown' \in [type : {"exception", "error"}, named : Nodes, origin : Nodes]
    BY <1>8, UnwindStep
  <2>2. io' = io
    BY <1>8 DEF Unwinds
  <2>3. QED
    BY <2>1, <2>2 DEF Typed
<1>9. QED
  BY <1>1, <1>2, <1>3, <1>4, <1>5, <1>6, <1>7, <1>8 DEF Next

LEMMA TypedInit ==
    ASSUME WellFormed, Init
    PROVE  Typed
<1>1. stack = <<>> /\ thrown = Nothing /\ io = [n \in Nodes |-> node_interface]
  BY DEF Init
<1>2. node_interface \in Interfaces
  BY DEF node_interface, Interfaces
<1>3. <<>> \in Seq(Frames) /\ Len(<<>>) = 0
  OBVIOUS
<1>4. QED
  BY <1>1, <1>2, <1>3 DEF Typed, StackOK

-----------------------------------------------------------------------------
(* What is printed, and when.                                              *)

\* A step prints in the time that it is, or it is time that goes on.
LEMMA PrintedStep ==
    ASSUME [Next]_vars
    PROVE  \/ UNCHANGED <<trace, t_index>>
           \/ print /\ UNCHANGED t_index
           \/ \E finite : advance_time(finite)
<1>1. CASE process_next_event
  BY <1>1 DEF process_next_event, PrintsIf
<1>2. CASE ignore_next_event \/ UNCHANGED vars
  BY <1>2 DEF ignore_next_event, vars, simVars
<1>3. ASSUME Throws PROVE UNCHANGED <<trace, t_index>>
  BY <1>3 DEF Throws, simVars
<1>4. CASE EntersUserCode \/ EntersAgentEvent \/ EntersComposite
  BY <1>3, <1>4 DEF EntersUserCode, EntersAgentEvent, EntersComposite, PrintsIf, simVars
<1>5. ASSUME NEW n, NEW event, NEW s, NEW f, NEW running, Calls(n, event, s, f, running)
      PROVE  UNCHANGED <<trace, t_index>> \/ (print /\ UNCHANGED t_index)
  BY <1>5 DEF Calls, PrintsIf, simVars
<1>6. CASE CallsComponent \/ SendsOutward \/ micro_planned_event \/ ClearsOutputs
  <2>1. CASE CallsComponent
    BY <1>3, <1>5, <2>1 DEF CallsComponent
  <2>2. CASE SendsOutward \/ micro_planned_event \/ ClearsOutputs
    BY <1>3, <2>2 DEF SendsOutward, micro_planned_event, ClearsOutputs, PrintsIf, simVars
  <2>3. QED
    BY <1>6, <2>1, <2>2
<1>7. ASSUME NEW finite, Finishes(finite)
      PROVE  \/ UNCHANGED <<trace, t_index>>
             \/ print /\ UNCHANGED t_index
             \/ advance_time(finite)
  <2>1. CASE FinishesTop(finite)
    BY <2>1 DEF FinishesTop
  <2>2. CASE FinishesComponent(finite)
    <3>1. UNCHANGED t_index
      BY <2>2 DEF FinishesComponent, simVars
    <3>2. trace' = trace \/ print
      BY <2>2 DEF FinishesComponent, PrintsIf
    <3>3. QED
      BY <3>1, <3>2
  <2>3. QED
    BY <1>7, <2>1, <2>2 DEF Finishes
<1>8. CASE FinishesCalls
  BY <1>7, <1>8 DEF FinishesCalls
<1>9. CASE UserCode
  <2>1. ASSUME NEW allowed, NEW s, UsesPort(allowed, s) PROVE UNCHANGED <<trace, t_index>>
    BY <1>3, <2>1 DEF UsesPort, simVars
  <2>2. CASE send \/ assign \/ receive \/ get_flow_input \/ get_message_input
    BY <2>1, <2>2 DEF send, assign, receive, get_flow_input, get_message_input
  <2>3. CASE UserThrows \/ UserCatches \/ InvalidDuration \/ MacroReturns \/ MacroFinalizationReturns
    BY <1>3, <2>3 DEF UserThrows, UserCatches, InvalidDuration, MacroReturns,
       MacroFinalizationReturns, PrintsIf, simVars
  <2>4. CASE create_agent \/ affect_agent \/ remove_agent
    <3>1. CASE create_agent
      BY <1>3, <1>5, <3>1 DEF create_agent, PrintsIf, simVars
    <3>2. CASE affect_agent \/ remove_agent
      BY <1>3, <1>5, <3>2 DEF affect_agent, remove_agent
    <3>3. QED
      BY <2>4, <3>1, <3>2
  <2>5. CASE AtomicReturns
    BY <1>7, <2>5 DEF AtomicReturns
  <2>6. QED
    BY <1>9, <2>2, <2>3, <2>4, <2>5 DEF UserCode
<1>10. CASE RemovesLeftAgents
  BY <1>5, <1>7, <1>10 DEF RemovesLeftAgents
<1>11. CASE Unwinds
  BY <1>11 DEF Unwinds, simVars
<1>12. QED
  BY <1>1, <1>2, <1>4, <1>6, <1>8, <1>9, <1>10, <1>11 DEF Next

\* The inductive invariant: the last time line is never ahead of the time.
LinesPrinted ==
    /\ LinesUnderTheirTime
    /\ t_index \in Nat /\ trace.header \in Int /\ trace.header <= t_index
    /\ trace = [time_printed |-> trace.time_printed, header |-> trace.header, line |-> trace.line]

LEMMA LinesPrintedStep ==
    ASSUME LinesPrinted, [Next]_vars
    PROVE  LinesPrinted'
<1>1. CASE UNCHANGED <<trace, t_index>>
  BY <1>1 DEF LinesPrinted, LinesUnderTheirTime
<1>2. CASE print /\ UNCHANGED t_index
  <2>1. trace' = [time_printed |-> TRUE, line |-> t_index,
                  header |-> IF trace.time_printed THEN trace.header ELSE t_index]
        /\ t_index' = t_index
    BY <1>2 DEF print
  <2>2. trace.time_printed => trace.header = t_index
    BY DEF LinesPrinted, LinesUnderTheirTime
  <2>3. trace' = [time_printed |-> TRUE, line |-> t_index, header |-> t_index]
    BY <2>1, <2>2
  <2>4. trace'.time_printed = TRUE /\ trace'.line = t_index /\ trace'.header = t_index
    BY <2>3
  <2>5. QED
    BY <2>1, <2>3, <2>4 DEF LinesPrinted, LinesUnderTheirTime
<1>3. CASE \E finite : advance_time(finite)
  <2>1. PICK steps \in 0 .. 1 :
           /\ t_index' = t_index + steps
           /\ trace' = [trace EXCEPT !.time_printed = @ /\ steps = 0]
    BY <1>3 DEF advance_time
  <2> DEFINE flag == trace.time_printed /\ steps = 0
  <2>2. trace' = [time_printed |-> flag, header |-> trace.header, line |-> trace.line]
    BY <2>1 DEF LinesPrinted
  <2>3. trace'.time_printed = flag /\ trace'.line = trace.line /\ trace'.header = trace.header
    BY <2>2
  <2>4. /\ t_index \in Nat /\ trace.header \in Int /\ trace.header <= t_index
        /\ trace.line = trace.header
        /\ trace.time_printed <=> trace.header = t_index
    BY DEF LinesPrinted, LinesUnderTheirTime
  <2>5. /\ t_index' \in Nat /\ trace.header <= t_index'
        /\ trace.header = t_index' <=> trace.header = t_index /\ steps = 0
    BY <2>1, <2>4
  <2>6. flag <=> trace.header = t_index'
    BY <2>4, <2>5
  <2>7. QED
    BY <2>2, <2>3, <2>4, <2>5, <2>6 DEF LinesPrinted, LinesUnderTheirTime
<1>4. QED
  BY <1>1, <1>2, <1>3, PrintedStep

\* Printed lines stand under the time line of their time index, one to a time
\* index, whichever nodes print (node_interface::print).
THEOREM PrintedUnderTheirTime == Spec => []LinesUnderTheirTime
<1>1. ASSUME Init PROVE LinesPrinted
  <2>1. t_index = 0 /\ trace = [time_printed |-> FALSE, header |-> -1, line |-> -1]
    BY <1>1 DEF Init
  <2>2. trace.time_printed = FALSE /\ trace.header = -1 /\ trace.line = -1
    BY <2>1
  <2>3. QED
    BY <2>1, <2>2 DEF LinesPrinted, LinesUnderTheirTime
<1>2. LinesPrinted /\ [Next]_vars => LinesPrinted'
  BY LinesPrintedStep
<1>3. LinesPrinted => LinesUnderTheirTime
  BY DEF LinesPrinted
<1>4. QED
  BY <1>1, <1>2, <1>3, PTL DEF Spec

-----------------------------------------------------------------------------
(* The kinds of step there are, with what all steps of a kind have in      *)
(* common.                                                                 *)

\* Which interfaces are open, and how.
SameViews(u, s) ==
    \A m \in Nodes :
        u[m].active = s[m].active /\ u[m].dmode = s[m].dmode /\ u[m].dgoal = s[m].dgoal

LEMMA NothingOpened ==
    ASSUME NEW s \in [Nodes -> Interfaces], NEW n \in Nodes
    PROVE  /\ SameViews(s, s)
           /\ SameViews(assign_flow_input(s, n), s)
           /\ SameViews(set_message_input(s, n), s)
           /\ SameViews(append_message_output(s, n), s)
           /\ SameViews(clear_message_outputs(s, n), s)
           /\ SameViews(assign_flow_output(s, n), s)
<1>1. ASSUME NEW u, ChangedAt(u, s, n),
             u[n].active = s[n].active, u[n].dmode = s[n].dmode, u[n].dgoal = s[n].dgoal
      PROVE  SameViews(u, s)
  BY <1>1 DEF ChangedAt, SameViews
<1>2. s[n] \in Interfaces
  OBVIOUS
<1>3. SameViews(s, s)
  BY DEF SameViews
<1>4. SameViews(assign_flow_input(s, n), s)
  <2>1. assign_flow_input(s, n)[n] = [s[n] EXCEPT !.given = TRUE]
        /\ ChangedAt(assign_flow_input(s, n), s, n)
    BY Operations
  <2>2. QED
    BY <1>1, <1>2, <2>1 DEF Interfaces
<1>5. SameViews(set_message_input(s, n), s)
  <2>1. set_message_input(s, n)[n] = [s[n] EXCEPT !.received = TRUE]
        /\ ChangedAt(set_message_input(s, n), s, n)
    BY Operations
  <2>2. QED
    BY <1>1, <1>2, <2>1 DEF Interfaces
<1>6. SameViews(append_message_output(s, n), s)
  <2>1. append_message_output(s, n)[n] = [s[n] EXCEPT !.outputs = @ + 1]
        /\ ChangedAt(append_message_output(s, n), s, n)
    BY Operations
  <2>2. QED
    BY <1>1, <1>2, <2>1 DEF Interfaces
<1>7. SameViews(clear_message_outputs(s, n), s)
  <2>1. clear_message_outputs(s, n)[n] = [s[n] EXCEPT !.outputs = 0]
        /\ ChangedAt(clear_message_outputs(s, n), s, n)
    BY Operations
  <2>2. QED
    BY <1>1, <1>2, <2>1 DEF Interfaces
<1>8. SameViews(assign_flow_output(s, n), s)
  <2>1. assign_flow_output(s, n)[n] = [s[n] EXCEPT !.assigned = TRUE]
        /\ ChangedAt(assign_flow_output(s, n), s, n)
    BY Operations
  <2>2. QED
    BY <1>1, <1>2, <2>1 DEF Interfaces
<1>9. QED
  BY <1>3, <1>4, <1>5, <1>6, <1>7, <1>8

LEMMA PrototypeUnopened ==
    ASSUME WellFormed, NEW s \in [Nodes -> Interfaces], NEW c \in Collections
    PROVE  SameViews(cleared_prototype(s, c), s)
<1> DEFINE n == Prototype[c]
           u == cleared_prototype(s, c)
<1>1. /\ n \in Nodes /\ ChangedAt(u, s, n)
      /\ u[n] = [s[n] EXCEPT !.given = FALSE, !.received = FALSE, !.outputs = 0]
  BY PrototypeCleared
<1>2. s[n] \in Interfaces
  BY <1>1
<1> HIDE DEF n, u
<1>3. u[n].active = s[n].active /\ u[n].dmode = s[n].dmode /\ u[n].dgoal = s[n].dgoal
  BY <1>1, <1>2 DEF Interfaces
<1>4. SameViews(u, s)
  BY <1>1, <1>3 DEF ChangedAt, SameViews
<1>5. QED
  BY <1>4 DEF u

\* The same messages wait, for sending and to be received.
SameMessages(u, s) ==
    \A m \in Nodes : u[m].outputs = s[m].outputs /\ u[m].received = s[m].received

LEMMA NothingSent ==
    ASSUME NEW s \in [Nodes -> Interfaces], NEW n \in Nodes
    PROVE  /\ SameMessages(s, s)
           /\ SameMessages(assign_flow_input(s, n), s)
           /\ SameMessages(assign_flow_output(s, n), s)
<1>1. ASSUME NEW u, ChangedAt(u, s, n),
             u[n].outputs = s[n].outputs, u[n].received = s[n].received
      PROVE  SameMessages(u, s)
  BY <1>1 DEF ChangedAt, SameMessages
<1>2. s[n] \in Interfaces
  OBVIOUS
<1>3. SameMessages(s, s)
  BY DEF SameMessages
<1>4. SameMessages(assign_flow_input(s, n), s)
  <2>1. assign_flow_input(s, n)[n] = [s[n] EXCEPT !.given = TRUE]
        /\ ChangedAt(assign_flow_input(s, n), s, n)
    BY Operations
  <2>2. QED
    BY <1>1, <1>2, <2>1 DEF Interfaces
<1>5. SameMessages(assign_flow_output(s, n), s)
  <2>1. assign_flow_output(s, n)[n] = [s[n] EXCEPT !.assigned = TRUE]
        /\ ChangedAt(assign_flow_output(s, n), s, n)
    BY Operations
  <2>2. QED
    BY <1>1, <1>2, <2>1 DEF Interfaces
<1>6. QED
  BY <1>3, <1>4, <1>5

\* What sending, receiving and clearing change.
SentAs(u, s, n, number) ==
    /\ \A m \in Nodes : m # n => u[m] = s[m]
    /\ u[n].outputs = number /\ u[n].received = s[n].received

ReceivedAs(u, s, n, value) ==
    /\ \A m \in Nodes : m # n => u[m] = s[m]
    /\ u[n].outputs = s[n].outputs /\ u[n].received = value

LEMMA MessagesSet ==
    ASSUME NEW s \in [Nodes -> Interfaces], NEW n \in Nodes
    PROVE  /\ SentAs(append_message_output(s, n), s, n, s[n].outputs + 1)
           /\ SentAs(clear_message_outputs(s, n), s, n, 0)
           /\ ReceivedAs(set_message_input(s, n), s, n, TRUE)
<1>1. s[n] \in Interfaces
  OBVIOUS
<1>2. SentAs(append_message_output(s, n), s, n, s[n].outputs + 1)
  <2>1. append_message_output(s, n)[n] = [s[n] EXCEPT !.outputs = @ + 1]
        /\ ChangedAt(append_message_output(s, n), s, n)
    BY Operations
  <2>2. QED
    BY <1>1, <2>1 DEF Interfaces, ChangedAt, SentAs
<1>3. SentAs(clear_message_outputs(s, n), s, n, 0)
  <2>1. clear_message_outputs(s, n)[n] = [s[n] EXCEPT !.outputs = 0]
        /\ ChangedAt(clear_message_outputs(s, n), s, n)
    BY Operations
  <2>2. QED
    BY <1>1, <2>1 DEF Interfaces, ChangedAt, SentAs
<1>4. ReceivedAs(set_message_input(s, n), s, n, TRUE)
  <2>1. set_message_input(s, n)[n] = [s[n] EXCEPT !.received = TRUE]
        /\ ChangedAt(set_message_input(s, n), s, n)
    BY Operations
  <2>2. QED
    BY <1>1, <2>1 DEF Interfaces, ChangedAt, ReceivedAs
<1>5. QED
  BY <1>2, <1>3, <1>4

\* A prototype's interface is empty after user code.
Emptied(u, s, p) ==
    /\ \A m \in Nodes : m # p => u[m] = s[m]
    /\ u[p].outputs = 0 /\ u[p].received = FALSE

LEMMA PrototypeEmptied ==
    ASSUME WellFormed, NEW s \in [Nodes -> Interfaces], NEW c \in Collections
    PROVE  Emptied(cleared_prototype(s, c), s, Prototype[c])
<1> DEFINE n == Prototype[c]
           u == cleared_prototype(s, c)
<1>1. /\ n \in Nodes /\ ChangedAt(u, s, n)
      /\ u[n] = [s[n] EXCEPT !.given = FALSE, !.received = FALSE, !.outputs = 0]
  BY PrototypeCleared
<1>2. s[n] \in Interfaces
  BY <1>1
<1> HIDE DEF n, u
<1>3. u[n].outputs = 0 /\ u[n].received = FALSE
  BY <1>1, <1>2 DEF Interfaces
<1>4. Emptied(u, s, n)
  BY <1>1, <1>3 DEF ChangedAt, Emptied
<1>5. QED
  BY <1>4 DEF u, n

\* Only a port of the node that runs may be used, or, by a collection, the
\* message input of its prototype.
PortUsed(u) ==
    \A m \in Nodes :
        /\ u[m].outputs = io[m].outputs \/ (m = Me /\ Me # Top /\ CanSend(io[Me]))
        /\ u[m].received = io[m].received
              \/ (Me \in Collections /\ m = Prototype[Me] /\ Running.pc = "user")

\* No event begins or ends.  Code that runs throws or uses a port, or it
\* catches what was thrown.
Stays ==
    /\ stack # <<>> /\ UNCHANGED <<stack, timing, told, initialized, finalized, plans, simVars>>
    /\ SameViews(io', io) /\ PortUsed(io')
    /\ \/ thrown' = thrown
       \/ thrown = Nothing /\ thrown' = Exception(Me)
       \/ thrown' = Nothing /\ Me \in Collections /\ Running.pc = "user"
    /\ \/ UNCHANGED <<registered, broken>>
       \/ \E a \in Owned(Me) :
             /\ Me \in Collections
             /\ registered' = registered \cup {a} /\ broken' = broken \cup {a}

\* The frame that runs goes on: how its timer and its list follow.
TimedOn(f) ==
    \/ f.pc = "user" /\ Running.pc \in {"enter", "call"} /\ timing' = timing \cup {Me}
    \/ f.pc = "remove" /\ Running.pc = "user" /\ timing' = timing
    \/ f.pc = "call" /\ Running.pc = "user" /\ timing' = timing \ {Me}
          /\ (Me \in Collections => Emptied(io', io, Prototype[Me]))
    \/ f.pc = "call" /\ Running.pc \in {"enter", "call"} /\ timing' = timing

ListedOn(f) ==
    \/ f.todo = Running.todo /\ Running.pc # "call"
    \/ Running.todo # <<>> /\ f.todo = Tail(Running.todo)
          /\ Head(Running.todo).do \in {"micro", "outward", "drain"} /\ Running.pc = "call"
          /\ (Head(Running.todo).do = "drain" => SentAs(io', io, Head(Running.todo).node, 0))
    \/ Me \in CompositeNodes /\ ~AlreadyDone /\ Running.pc = "enter" /\ f.pc = "call"
          /\ f.todo \in ComponentSteps
    \/ \E a \in Owned(Me) \cap plans :
          /\ Me \in Collections /\ Running.pc = "enter" /\ f.pc = "call"
          /\ f.todo = <<Step("planned", a)>>

MessagesOn(f) ==
    \A m \in Nodes :
        /\ \/ io'[m].outputs \in {io[m].outputs, 0}
           \/ m = Me /\ Running.todo # <<>> /\ Head(Running.todo).do = "outward"
           \/ Me \in Collections /\ m = Prototype[Me] /\ Running.event = "planned" /\ f.pc = "user"
        /\ io'[m].received => io[m].received

GoesOnTo(f) ==
    /\ GoesOn(f) /\ TimedOn(f) /\ ListedOn(f)
    /\ Me \in CompositeNodes =>
          f.pc = Running.pc \/ (Running.pc = "enter" /\ f.todo \in ComponentSteps /\ ~AlreadyDone)
    /\ thrown = Nothing /\ thrown' \in {Nothing, Exception(Me)}
    /\ UNCHANGED <<initialized, finalized, registered, broken, told, simVars>>
    /\ \/ plans' = plans
       \/ \E finite : Me \in Collections /\ plans' = WithPlan(Prototype[Me], finite)
    /\ SameViews(io', io) /\ MessagesOn(f)

\* A node is handed an event, by a composite or by a collection, and a message
\* if the event is unplanned.
MessageFor(s, n, event) ==
    \A m \in Nodes :
        /\ s[m].outputs = io[m].outputs
        /\ s[m].received => io[m].received \/ (m = n /\ event = "unplanned")

Called(n, event, f, s) ==
    /\ Calling(n, event, f)
    /\ \E running : Calls(n, event, s, f, running)
    /\ thrown = Nothing /\ timing' = timing \cup (IF Running.pc = "call" THEN {Me} ELSE {})
    /\ s \in [Nodes -> Interfaces] /\ SameViews(s, io) /\ MessageFor(s, n, event)
    /\ \/ /\ f = Rest /\ Running.todo # <<>> /\ Running.pc = "call"
          /\ Head(Running.todo) = Step(event, n)
          /\ registered' = registered
       \/ /\ f = Running /\ Me \in Collections /\ Running.pc \in {"user", "remove"}
          /\ event = "initialization"
          /\ n \notin initialized \cup finalized
          /\ registered' = registered \cup {n}
       \/ /\ f = Running /\ Me \in Collections /\ Running.pc \in {"user", "remove"}
          /\ event \in {"unplanned", "finalization"}
          /\ n \in registered
          /\ registered' = registered

\* An event is over.
Finished(finite) ==
    /\ stack # <<>> /\ thrown = Nothing /\ Finishes(finite)
    /\ Running.todo = <<>>
    /\ Me \in CompositeNodes => Running.pc = "call"
    /\ Me \in Collections => Running.pc \in {"call", "remove"}

LEMMA StaysByThrowing ==
    ASSUME Typed, stack # <<>>, thrown = Nothing, Throws
    PROVE  Stays
  BY DEF Throws, Stays, SameViews, PortUsed, eventVars, simVars

LEMMA StaysAtPort ==
    ASSUME Typed, stack # <<>>, thrown = Nothing, NEW allowed, NEW s, SameViews(s, io),
           allowed => PortUsed(s), UsesPort(allowed, s)
    PROVE  Stays
<1>1. CASE allowed
  BY <1>1 DEF UsesPort, Stays, eventVars, errorVars, simVars
<1>2. CASE ~allowed
  BY <1>2, StaysByThrowing DEF UsesPort
<1>3. QED
  BY <1>1, <1>2

KindOfStep ==
    \/ process_next_event
    \/ UNCHANGED vars
    \/ Stays
    \/ \E f : GoesOnTo(f)
    \/ \E n, event, f, s : Called(n, event, f, s)
    \/ \E finite : Finished(finite)
    \/ Unwinds

LEMMA KindOfEnter ==
    ASSUME WellFormed, Typed, EntersUserCode \/ EntersAgentEvent \/ EntersComposite
    PROVE  KindOfStep
<1>0. io \in [Nodes -> Interfaces] /\ SameViews(io, io)
  BY DEF Typed, SameViews
<1>1. CASE EntersUserCode
  <2>1. stack # <<>> /\ Me \notin CompositeNodes /\ thrown = Nothing /\ Running.pc = "enter"
    BY <1>1, RunsFacts DEF EntersUserCode
  <2>2. CASE Throws
    BY <2>1, <2>2, StaysByThrowing DEF KindOfStep
  <2>3. CASE ~Throws
    <3>1. /\ stack' = WithRunning([Running EXCEPT !.pc = "user"])
          /\ io' = io /\ thrown' = thrown /\ timing' = timing \cup {Me}
          /\ UNCHANGED <<initialized, finalized, plans, registered, broken, told, simVars>>
      BY <1>1, <2>3 DEF EntersUserCode, errorVars, eventVars
    <3> DEFINE f == [node |-> Me, event |-> Running.event, pc |-> "user", todo |-> Running.todo]
    <3>2. GoesOn(f)
      BY <2>1, <3>1, GoesTo
    <3>3. f.pc = "user" /\ f.todo = Running.todo
      OBVIOUS
    <3> HIDE DEF f
    <3>4. TimedOn(f) /\ ListedOn(f)
      BY <2>1, <3>1, <3>3 DEF TimedOn, ListedOn
    <3>5. GoesOnTo(f)
      BY <1>0, <2>1, <3>1, <3>2, <3>4 DEF GoesOnTo, MessagesOn
    <3>6. QED
      BY <3>5 DEF KindOfStep
  <2>4. QED
    BY <2>2, <2>3
<1>2. CASE EntersAgentEvent
  <2>1. /\ io' = io /\ thrown' = thrown /\ timing' = timing
        /\ UNCHANGED <<initialized, finalized, plans, registered, broken, told, simVars>>
        /\ Runs("enter") /\ Me \in Collections
    BY <1>2 DEF EntersAgentEvent, errorVars, eventVars
  <2>2. PICK a \in Agents[Me] \cap plans :
           GoesOn([node |-> Me, event |-> "planned", pc |-> "call", todo |-> <<Step("planned", a)>>])
    BY <1>2, AgentEventEntered
  <2>3. thrown = Nothing /\ Running.pc = "enter" /\ Me \in Nodes
    BY <2>1, RunsFacts
  <2>4. a \in Owned(Me) \cap plans /\ Me \notin CompositeNodes
    BY <2>1, <2>2, <2>3, Kinds
  <2> DEFINE l == <<Step("planned", a)>>
             f == [node |-> Me, event |-> "planned", pc |-> "call", todo |-> l]
  <2>5. f.pc = "call" /\ f.todo = l /\ GoesOn(f)
    BY <2>2
  <2> HIDE DEF f
  <2>6. ListedOn(f)
    BY <2>1, <2>3, <2>4, <2>5 DEF ListedOn
  <2>7. TimedOn(f)
    BY <2>1, <2>3, <2>5 DEF TimedOn
  <2>8. GoesOnTo(f)
    BY <1>0, <2>1, <2>3, <2>4, <2>5, <2>6, <2>7 DEF GoesOnTo, MessagesOn
  <2>9. QED
    BY <2>8 DEF KindOfStep
<1>3. CASE EntersComposite
  <2>1. stack # <<>> /\ Me \in CompositeNodes /\ thrown = Nothing /\ Running.pc = "enter"
    BY <1>3, RunsFacts DEF EntersComposite
  <2>2. CASE Throws
    BY <2>1, <2>2, StaysByThrowing DEF KindOfStep
  <2>3. CASE ~Throws
    <3>1. /\ io' = io /\ thrown' = thrown /\ timing' = timing
          /\ UNCHANGED <<initialized, finalized, plans, registered, broken, told, simVars>>
          /\ ~AlreadyDone
      BY <1>3, <2>3 DEF EntersComposite, errorVars, eventVars
    <3>2. PICK todo \in ComponentSteps :
             stack' = WithRunning([Running EXCEPT !.pc = "call", !.todo = todo])
      BY <1>3, <2>3 DEF EntersComposite
    <3>3. /\ todo \in Seq(StepRecords)
          /\ FrameOK([node |-> Me, event |-> Running.event, pc |-> "call", todo |-> todo])
      BY <2>1, ComponentList
    <3> DEFINE f == [node |-> Me, event |-> Running.event, pc |-> "call", todo |-> todo]
    <3>4. GoesOn(f)
      BY <2>1, <3>2, <3>3, GoesToCalls
    <3>5. f.pc = "call" /\ f.todo = todo
      OBVIOUS
    <3> HIDE DEF f
    <3>6. TimedOn(f) /\ ListedOn(f)
      BY <2>1, <3>1, <3>5 DEF TimedOn, ListedOn
    <3>7. GoesOnTo(f)
      BY <1>0, <2>1, <3>1, <3>4, <3>5, <3>6 DEF GoesOnTo, MessagesOn
    <3>8. QED
      BY <3>7 DEF KindOfStep
  <2>4. QED
    BY <2>2, <2>3
<1>4. QED
  BY <1>1, <1>2, <1>3

LEMMA KindOfCall ==
    ASSUME WellFormed, Typed,
           CallsComponent \/ SendsOutward \/ micro_planned_event \/ ClearsOutputs
    PROVE  KindOfStep
<1>0. io \in [Nodes -> Interfaces] /\ SameViews(io, io)
  BY DEF Typed, SameViews
<1>1. CASE CallsComponent
  <2> DEFINE do == {"initialization", "planned", "unplanned", "finalization"}
  <2>1. Next_is(do)
    BY <1>1 DEF CallsComponent
  <2>2. stack # <<>> /\ thrown = Nothing /\ Running.pc = "call"
    BY <2>1, RunsFacts DEF Next_is
  <2>3. CASE Throws
    BY <2>2, <2>3, StaysByThrowing DEF KindOfStep
  <2>4. CASE ~Throws
    <3> DEFINE n == Head(Running.todo).node
               event == Head(Running.todo).do
               s == IF event = "unplanned" THEN set_message_input(io, n) ELSE io
    <3>1. Calls(n, event, s, Rest, timing \cup {Me}) /\ registered' = registered
          /\ timing' = timing \cup {Me}
      BY <1>1, <2>4 DEF CallsComponent, Calls
    <3>2. Calling(n, event, Rest)
      BY <2>1, ComponentCall
    <3>3. s \in [Nodes -> Interfaces] /\ SameViews(s, io)
      <4>1. n \in Nodes
        BY <3>2 DEF Calling
      <4>2. QED
        BY <1>0, <4>1, Operations, NothingOpened DEF ChangedAt
    <3>4. Running.todo # <<>> /\ Head(Running.todo) = Step(event, n)
      <4>1. Running.todo # <<>>
        BY <2>1 DEF Next_is
      <4>2. Head(Running.todo) \in StepRecords
        BY <2>2, <4>1, RestOfFrame DEF Typed
      <4>3. QED
        BY <4>1, <4>2 DEF Step, StepRecords
    <3>a. MessageFor(s, n, event)
      <4>1. n \in Nodes
        BY <3>2 DEF Calling
      <4>2. ReceivedAs(set_message_input(io, n), io, n, TRUE)
        BY <1>0, <4>1, MessagesSet
      <4>3. QED
        BY <4>2 DEF MessageFor, ReceivedAs
    <3> HIDE DEF n, event, s
    <3>5. \E running : Calls(n, event, s, Rest, running)
      BY <3>1
    <3>6. Called(n, event, Rest, s)
      BY <2>2, <3>1, <3>2, <3>3, <3>4, <3>5, <3>a DEF Called
    <3>7. QED
      BY <3>6 DEF KindOfStep
  <2>5. QED
    BY <2>3, <2>4
<1>2. CASE SendsOutward
  <2>1. /\ Next_is({"outward"}) /\ stack' = WithRunning(Rest)
        /\ io' = append_message_output(io, Me) /\ thrown' = thrown /\ timing' = timing
        /\ UNCHANGED <<initialized, finalized, plans, registered, broken, told, simVars>>
    BY <1>2 DEF SendsOutward, errorVars, eventVars
  <2>2. GoesOn(Rest) /\ Rest.pc = "call" /\ Rest.todo = Tail(Running.todo)
        /\ Running.todo # <<>> /\ Head(Running.todo).do \in {"outward"}
    BY <2>1, GoesToRest, NextStep
  <2>3. thrown = Nothing /\ Running.pc = "call" /\ Me \in Nodes
    BY <2>1, RunsFacts DEF Next_is
  <2>4. SameViews(io', io)
    BY <1>0, <2>1, <2>3, NothingOpened
  <2>5. TimedOn(Rest) /\ ListedOn(Rest)
    BY <2>1, <2>2, <2>3 DEF TimedOn, ListedOn
  <2>a. MessagesOn(Rest)
    <3>1. SentAs(io', io, Me, io[Me].outputs + 1)
      BY <1>0, <2>1, <2>3, MessagesSet
    <3>2. QED
      BY <2>2, <3>1 DEF MessagesOn, SentAs
  <2>6. GoesOnTo(Rest)
    BY <2>1, <2>2, <2>3, <2>4, <2>5, <2>a DEF GoesOnTo
  <2>7. QED
    BY <2>6 DEF KindOfStep
<1>3. CASE micro_planned_event
  <2>1. Next_is({"micro"})
    BY <1>3 DEF micro_planned_event
  <2>2. stack # <<>> /\ thrown = Nothing /\ Running.pc = "call" /\ Running.todo # <<>>
        /\ Head(Running.todo).do \in {"micro"}
    BY <2>1, RunsFacts DEF Next_is
  <2>3. CASE Throws
    BY <2>2, <2>3, StaysByThrowing DEF KindOfStep
  <2>4. CASE ~Throws
    <3>1. /\ stack' = WithRunning([Rest EXCEPT !.pc = "user"])
          /\ io' = append_message_output(io, Prototype[Me]) /\ thrown' = thrown
          /\ timing' = timing \cup {Me}
          /\ UNCHANGED <<initialized, finalized, plans, registered, broken, told, simVars>>
      BY <1>3, <2>4 DEF micro_planned_event, errorVars, eventVars
    <3> DEFINE f == [node |-> Me, event |-> Running.event, pc |-> "user", todo |-> Tail(Running.todo)]
    <3>2. GoesOn(f) /\ Prototype[Me] \in Nodes /\ Me \in Collections
      BY <2>1, <3>1, MicroEntered
    <3>3. f.pc = "user" /\ f.todo = Tail(Running.todo)
      OBVIOUS
    <3> HIDE DEF f
    <3>4. SameViews(io', io)
      BY <1>0, <3>1, <3>2, NothingOpened
    <3>5. Me \notin CompositeNodes
      BY <3>2 DEF WellFormed
    <3>6. TimedOn(f) /\ ListedOn(f)
      BY <2>2, <3>1, <3>3 DEF TimedOn, ListedOn
    <3>a. MessagesOn(f)
      <4>1. SentAs(io', io, Prototype[Me], io[Prototype[Me]].outputs + 1)
        BY <1>0, <3>1, <3>2, MessagesSet
      <4>2. Running.event = "planned"
        BY <2>1, <3>2, NextStep
      <4>3. QED
        BY <3>2, <3>3, <4>1, <4>2 DEF MessagesOn, SentAs
    <3>7. GoesOnTo(f)
      BY <2>2, <3>1, <3>2, <3>4, <3>5, <3>6, <3>a DEF GoesOnTo
    <3>8. QED
      BY <3>7 DEF KindOfStep
  <2>5. QED
    BY <2>3, <2>4
<1>4. CASE ClearsOutputs
  <2>1. /\ Next_is({"drain"}) /\ stack' = WithRunning(Rest)
        /\ io' = clear_message_outputs(io, Head(Running.todo).node) /\ thrown' = thrown
        /\ timing' = timing
        /\ UNCHANGED <<initialized, finalized, plans, registered, broken, told, simVars>>
    BY <1>4 DEF ClearsOutputs, errorVars, eventVars
  <2>2. GoesOn(Rest) /\ Rest.pc = "call" /\ Rest.todo = Tail(Running.todo)
        /\ Running.todo # <<>> /\ Head(Running.todo).do \in {"drain"}
        /\ Head(Running.todo).node \in Nodes
    BY <2>1, GoesToRest, NextStep
  <2>3. thrown = Nothing /\ Running.pc = "call"
    BY <2>1, RunsFacts DEF Next_is
  <2>4. SameViews(io', io)
    BY <1>0, <2>1, <2>2, NothingOpened
  <2>a. SentAs(io', io, Head(Running.todo).node, 0)
    BY <1>0, <2>1, <2>2, MessagesSet
  <2>5. TimedOn(Rest) /\ ListedOn(Rest)
    BY <2>1, <2>2, <2>3, <2>a DEF TimedOn, ListedOn
  <2>b. MessagesOn(Rest)
    BY <2>a DEF MessagesOn, SentAs
  <2>6. GoesOnTo(Rest)
    BY <2>1, <2>2, <2>3, <2>4, <2>5, <2>b DEF GoesOnTo
  <2>7. QED
    BY <2>6 DEF KindOfStep
<1>5. QED
  BY <1>1, <1>2, <1>3, <1>4

\* A collection calls one of its agents, or throws.
LEMMA KindOfAgentCall ==
    ASSUME WellFormed, Typed, NEW pc \in {"user", "remove"}, Runs(pc), Me \in Collections,
           NEW a \in Agents[Me], NEW event \in {"initialization", "unplanned", "finalization"},
           NEW s \in [Nodes -> Interfaces], SameViews(s, io), MessageFor(s, a, event),
           Calls(a, event, s, Running, timing),
           \/ event = "initialization" /\ a \notin initialized \cup finalized
                /\ registered' = registered \cup {a}
           \/ event # "initialization" /\ a \in registered /\ registered' = registered
    PROVE  KindOfStep
<1>1. Calling(a, event, Running)
  BY AgentCall DEF EventNames
<1>2. thrown = Nothing /\ Running.pc = pc
  BY RunsFacts
<1>3. \E running : Calls(a, event, s, Running, running)
  OBVIOUS
<1>4. timing' = timing
  BY DEF Calls
<1>5. Called(a, event, Running, s)
  BY <1>1, <1>2, <1>3, <1>4 DEF Called
<1>6. QED
  BY <1>5 DEF KindOfStep

LEMMA KindOfUserCode ==
    ASSUME WellFormed, Typed, UserCode
    PROVE  KindOfStep
<1>0. io \in [Nodes -> Interfaces] /\ SameViews(io, io)
  BY DEF Typed, SameViews
<1>1. CASE UserCatches
  <2>1. Stays
    BY <1>1 DEF UserCatches, Stays, SameViews, PortUsed, eventVars
  <2>2. QED
    BY <2>1 DEF KindOfStep
<1>2. ASSUME ~UserCatches
      PROVE  Runs("user")
  BY <1>2 DEF UserCode, InUserCode, send, assign, receive, UserThrows,
     get_flow_input, get_message_input, create_agent, affect_agent, remove_agent,
     InvalidDuration, AtomicReturns, MacroReturns, MacroFinalizationReturns
<1> SUFFICES ASSUME ~UserCatches PROVE KindOfStep
  BY <1>1
<1>3. /\ Runs("user") /\ stack # <<>> /\ thrown = Nothing /\ Running.pc = "user" /\ Me \in Nodes
      /\ FrameOK(Running) /\ Running.node = Me /\ Me \notin CompositeNodes
  <2>1. /\ Runs("user") /\ stack # <<>> /\ thrown = Nothing /\ Running.pc = "user" /\ Me \in Nodes
        /\ FrameOK(Running) /\ Running.node = Me
    BY <1>2, RunsFacts
  <2>2. QED
    BY <2>1 DEF FrameOK
<1>4. Me \in Collections => Prototype[Me] \in Nodes /\ Owned(Me) = Agents[Me]
                            /\ Owned(Me) \subseteq Nodes
  BY <1>3, Kinds DEF WellFormed
<1>5. CASE send \/ assign \/ receive \/ get_flow_input \/ get_message_input
  <2>1. /\ SameViews(append_message_output(io, Me), io)
        /\ SameViews(assign_flow_output(io, Me), io)
        /\ Me \in Collections => /\ SameViews(assign_flow_input(io, Prototype[Me]), io)
                                 /\ SameViews(set_message_input(io, Prototype[Me]), io)
    BY <1>0, <1>3, <1>4, NothingOpened
  <2>a. CASE send
    <3>1. PortUsed(append_message_output(io, Me)) \/ ~CanSend(io[Me])
      <4>1. SentAs(append_message_output(io, Me), io, Me, io[Me].outputs + 1)
        BY <1>0, <1>3, MessagesSet
      <4>2. QED
        BY <2>a, <4>1 DEF PortUsed, SentAs, send, HasPorts
    <3>2. QED
      BY <1>3, <2>1, <2>a, <3>1, StaysAtPort DEF send, KindOfStep
  <2>b. CASE assign
    <3>1. PortUsed(assign_flow_output(io, Me))
      BY <1>0, <1>3, NothingSent DEF PortUsed, SameMessages
    <3>2. QED
      BY <1>3, <2>1, <2>b, <3>1, StaysAtPort DEF assign, KindOfStep
  <2>c. CASE receive
    BY <1>0, <1>3, <2>c, StaysAtPort DEF receive, PortUsed, KindOfStep
  <2>d. CASE get_flow_input
    <3>1. Me \in Collections
      BY <2>d DEF get_flow_input
    <3>2. PortUsed(assign_flow_input(io, Prototype[Me]))
      BY <1>0, <1>4, <3>1, NothingSent DEF PortUsed, SameMessages
    <3>3. QED
      BY <1>3, <2>1, <2>d, <3>1, <3>2, StaysAtPort DEF get_flow_input, KindOfStep
  <2>e. CASE get_message_input
    <3>1. Me \in Collections
      BY <2>e DEF get_message_input
    <3>2. PortUsed(set_message_input(io, Prototype[Me]))
      <4>1. ReceivedAs(set_message_input(io, Prototype[Me]), io, Prototype[Me], TRUE)
        BY <1>0, <1>4, <3>1, MessagesSet
      <4>2. QED
        BY <1>3, <3>1, <4>1 DEF PortUsed, ReceivedAs
    <3>3. QED
      BY <1>3, <2>1, <2>e, <3>1, <3>2, StaysAtPort DEF get_message_input, KindOfStep
  <2>2. QED
    BY <1>5, <2>a, <2>b, <2>c, <2>d, <2>e
<1>6. ASSUME Throws PROVE KindOfStep
  BY <1>3, <1>6, StaysByThrowing DEF KindOfStep
<1>7. CASE UserThrows
  BY <1>6, <1>7 DEF UserThrows
<1>8. CASE create_agent
  <2>1. Me \in Collections
    BY <1>8 DEF create_agent
  <2>2. PICK a \in Agents[Me] :
          \/ Throws
          \/ /\ a \notin initialized \cup finalized /\ registered' = registered \cup {a}
             /\ \/ Calls(a, "initialization", assign_flow_input(io, a), Running, timing)
                \/ /\ thrown' = Exception(Me) /\ broken' = broken \cup {a}
                   /\ UNCHANGED <<io, timing, stack, initialized, finalized, plans, simVars, told>>
    BY <1>8 DEF create_agent
  <2>3. CASE Throws
    BY <1>6, <2>3
  <2>4. CASE /\ a \notin initialized \cup finalized /\ registered' = registered \cup {a}
             /\ Calls(a, "initialization", assign_flow_input(io, a), Running, timing)
    <3>1. assign_flow_input(io, a) \in [Nodes -> Interfaces] /\ SameViews(assign_flow_input(io, a), io)
      <4>1. ChangedAt(assign_flow_input(io, a), io, a)
        BY <1>0, <1>4, <2>1, Operations
      <4>2. SameViews(assign_flow_input(io, a), io)
        BY <1>0, <1>4, <2>1, NothingOpened
      <4>3. QED
        BY <4>1, <4>2 DEF ChangedAt
    <3>2. MessageFor(assign_flow_input(io, a), a, "initialization")
      BY <1>0, <1>4, <2>1, NothingSent DEF MessageFor, SameMessages
    <3>3. QED
      BY <1>3, <2>1, <2>4, <3>1, <3>2, KindOfAgentCall
  <2>5. CASE /\ registered' = registered \cup {a}
             /\ thrown' = Exception(Me) /\ broken' = broken \cup {a}
             /\ UNCHANGED <<io, timing, stack, initialized, finalized, plans, simVars, told>>
    <3>1. a \in Owned(Me)
      BY <1>4, <2>1
    <3>2. Stays
      BY <1>0, <1>3, <2>1, <2>5, <3>1 DEF Stays, PortUsed
    <3>3. QED
      BY <3>2 DEF KindOfStep
  <2>6. QED
    BY <2>2, <2>3, <2>4, <2>5
<1>9. CASE affect_agent
  <2>1. Me \in Collections
    BY <1>9 DEF affect_agent
  <2>2. PICK a \in Agents[Me] :
          \/ Throws
          \/ /\ a \in registered /\ registered' = registered
             /\ Calls(a, "unplanned", set_message_input(io, a), Running, timing)
    BY <1>9 DEF affect_agent
  <2>3. set_message_input(io, a) \in [Nodes -> Interfaces] /\ SameViews(set_message_input(io, a), io)
    <3>1. ChangedAt(set_message_input(io, a), io, a)
      BY <1>0, <1>4, <2>1, Operations
    <3>2. SameViews(set_message_input(io, a), io)
      BY <1>0, <1>4, <2>1, NothingOpened
    <3>3. QED
      BY <3>1, <3>2 DEF ChangedAt
  <2>4. MessageFor(set_message_input(io, a), a, "unplanned")
    <3>1. ReceivedAs(set_message_input(io, a), io, a, TRUE)
      BY <1>0, <1>4, <2>1, MessagesSet
    <3>2. QED
      BY <3>1 DEF MessageFor, ReceivedAs
  <2>5. QED
    BY <1>3, <1>6, <2>1, <2>2, <2>3, <2>4, KindOfAgentCall
<1>10. CASE remove_agent
  <2>1. Me \in Collections
    BY <1>10 DEF remove_agent
  <2>2. PICK a \in Agents[Me] :
          \/ Throws
          \/ /\ a \in registered /\ registered' = registered
             /\ Calls(a, "finalization", io, Running, timing)
    BY <1>10 DEF remove_agent
  <2>3. MessageFor(io, a, "finalization")
    BY DEF MessageFor
  <2>4. QED
    BY <1>0, <1>3, <1>6, <2>1, <2>2, <2>3, KindOfAgentCall
<1>11. CASE InvalidDuration \/ MacroReturns
  <2>0. Running.pc = "user"
    BY <1>11, RunsFacts DEF InvalidDuration, MacroReturns, InUserCode
  <2>1. /\ stack' = WithRunning([Running EXCEPT !.pc = "call"])
        /\ thrown' \in {Nothing, Exception(Me)} /\ timing' = timing \ {Me}
        /\ io' = (IF Me \in Collections THEN cleared_prototype(io, Me) ELSE io)
        /\ UNCHANGED <<initialized, finalized, registered, broken, told, simVars>>
        /\ \/ plans' = plans
           \/ \E finite : Me \in Collections /\ plans' = WithPlan(Prototype[Me], finite)
    BY <1>3, <1>11 DEF InvalidDuration, MacroReturns, eventVars, errorVars
  <2> DEFINE f == [node |-> Me, event |-> Running.event, pc |-> "call", todo |-> Running.todo]
  <2>2. GoesOn(f)
    BY <1>3, <2>1, GoesTo
  <2>3. f.pc = "call" /\ f.todo = Running.todo
    OBVIOUS
  <2> HIDE DEF f
  <2>4. SameViews(io', io)
    BY <1>0, <2>1, PrototypeUnopened
  <2>a. Me \in Collections => Emptied(io', io, Prototype[Me])
    BY <1>0, <2>1, PrototypeEmptied
  <2>b. MessagesOn(f)
    BY <2>1, <2>a DEF MessagesOn, Emptied
  <2>5. TimedOn(f) /\ ListedOn(f)
    BY <2>0, <2>1, <2>3, <2>a DEF TimedOn, ListedOn
  <2>6. GoesOnTo(f)
    BY <1>3, <2>1, <2>2, <2>4, <2>5, <2>b DEF GoesOnTo
  <2>7. QED
    BY <2>6 DEF KindOfStep
<1>12. CASE AtomicReturns
  <2>1. PICK finite : Finishes(finite)
    BY <1>12 DEF AtomicReturns
  <2>2. Me \in Atomics /\ Me \notin Collections /\ Running.todo = <<>>
    BY <1>3, <1>12, Kinds DEF AtomicReturns, FrameOK, Atomics
  <2>3. Finished(finite)
    BY <1>3, <2>1, <2>2 DEF Finished
  <2>4. QED
    BY <2>3 DEF KindOfStep
<1>13. CASE MacroFinalizationReturns
  <2>1. /\ Me \in Collections /\ Running.event = "finalization"
        /\ stack' = WithRunning([Running EXCEPT !.pc = "remove"])
        /\ io' = io /\ thrown' = thrown /\ timing' = timing
        /\ UNCHANGED <<initialized, finalized, plans, registered, broken, told, simVars>>
    BY <1>13 DEF MacroFinalizationReturns, errorVars, eventVars
  <2> DEFINE f == [node |-> Me, event |-> Running.event, pc |-> "remove", todo |-> Running.todo]
  <2>2. GoesOn(f)
    BY <1>3, <2>1, GoesTo
  <2>3. f.pc = "remove" /\ f.todo = Running.todo
    OBVIOUS
  <2> HIDE DEF f
  <2>4. TimedOn(f) /\ ListedOn(f)
    BY <1>3, <2>1, <2>3 DEF TimedOn, ListedOn
  <2>5. GoesOnTo(f)
    BY <1>0, <1>3, <2>1, <2>2, <2>4 DEF GoesOnTo, MessagesOn
  <2>6. QED
    BY <2>5 DEF KindOfStep
<1>14. QED
  BY <1>5, <1>7, <1>8, <1>9, <1>10, <1>11, <1>12, <1>13 DEF UserCode

LEMMA StepKind ==
    ASSUME WellFormed, Typed, [Next]_vars
    PROVE  KindOfStep
<1>1. CASE process_next_event \/ ignore_next_event \/ UNCHANGED vars \/ Unwinds
  BY <1>1 DEF KindOfStep, ignore_next_event
<1>2. CASE EntersUserCode \/ EntersAgentEvent \/ EntersComposite
  BY <1>2, KindOfEnter
<1>3. CASE CallsComponent \/ SendsOutward \/ micro_planned_event \/ ClearsOutputs
  BY <1>3, KindOfCall
<1>4. CASE FinishesCalls
  <2>1. stack # <<>> /\ thrown = Nothing
    BY <1>4, RunsFacts DEF FinishesCalls
  <2>2. Finished(PlansIn(Me))
    BY <1>4, <2>1 DEF Finished, FinishesCalls, Runs
  <2>3. QED
    BY <2>2 DEF KindOfStep
<1>5. CASE UserCode
  BY <1>5, KindOfUserCode
<1>6. CASE RemovesLeftAgents
  <2>1. Runs("remove")
    BY <1>6 DEF RemovesLeftAgents
  <2>2. stack # <<>> /\ thrown = Nothing /\ FrameOK(Running) /\ Running.pc = "remove"
        /\ Running.node = Me /\ Me \in Nodes
    BY <2>1, RunsFacts
  <2>3. Me \in Collections /\ Me \notin CompositeNodes
    BY <2>2, Kinds DEF FrameOK
  <2>a. Running.todo = <<>>
    BY <2>2, <2>3 DEF FrameOK
  <2>4. CASE Finishes(FALSE)
    <3>1. Finished(FALSE)
      BY <2>2, <2>3, <2>4, <2>a DEF Finished
    <3>2. QED
      BY <3>1 DEF KindOfStep
  <2>5. CASE ~Finishes(FALSE)
    <3>1. PICK a \in Agents[Me] :
             a \in registered /\ registered' = registered /\ Calls(a, "finalization", io, Running, timing)
      BY <1>6, <2>5 DEF RemovesLeftAgents
    <3>2. io \in [Nodes -> Interfaces] /\ SameViews(io, io) /\ MessageFor(io, a, "finalization")
      BY DEF Typed, SameViews, MessageFor
    <3>3. QED
      BY <2>1, <2>3, <3>1, <3>2, KindOfAgentCall
  <2>6. QED
    BY <2>4, <2>5
<1>7. QED
  BY <1>1, <1>2, <1>3, <1>4, <1>5, <1>6 DEF Next

\* What the kinds of step do to the stack, and to what all of them share.
LEMMA GoesOnToStep ==
    ASSUME WellFormed, Typed, NEW f, GoesOnTo(f)
    PROVE  /\ Len(stack') = Len(stack) /\ Len(stack) \in Nat /\ Len(stack) > 0
           /\ stack # <<>> /\ stack' # <<>> /\ Running = stack[Len(stack)] /\ Running.node = Me
           /\ stack'[Len(stack)] = f /\ f.node = Me /\ f.event = Running.event
           /\ \A i \in 1 .. Len(stack) - 1 : stack'[i] = stack[i]
           /\ \A i \in 1 .. Len(stack) :
                 stack'[i].node = stack[i].node /\ stack'[i].event = stack[i].event
           /\ UNCHANGED simVars
<1>1. GoesOn(f) /\ UNCHANGED simVars /\ StackOK
  BY DEF GoesOnTo, Typed
<1>2. f.node = Me /\ f.event = Running.event /\ stack # <<>> /\ Running.node = Me
  BY <1>1 DEF GoesOn, Me
<1>3. QED
  BY <1>1, <1>2, GoesOnStep

LEMMA CalledStep ==
    ASSUME WellFormed, Typed, NEW n, NEW event, NEW f, NEW s, Called(n, event, f, s)
    PROVE  /\ Len(stack') = Len(stack) + 1 /\ Len(stack) \in Nat /\ Len(stack) > 0
           /\ stack # <<>> /\ stack' # <<>> /\ Running = stack[Len(stack)] /\ Running.node = Me
           /\ stack'[Len(stack)] = f /\ stack'[Len(stack) + 1] = EnterFrame(n, event)
           /\ f.node = Me /\ f.event = Running.event /\ f.pc = Running.pc
           /\ \A i \in 1 .. Len(stack) - 1 : stack'[i] = stack[i]
           /\ \A i \in 1 .. Len(stack) :
                 stack'[i].node = stack[i].node /\ stack'[i].event = stack[i].event
           /\ n \in Nodes /\ event \in EventNames /\ n \in Owned(Me) /\ Me \in Owners
           /\ CalledBy(f, EnterFrame(n, event))
           /\ io' = activate(s, n, event) /\ thrown' = thrown
           /\ UNCHANGED <<initialized, finalized, plans, broken, told, simVars>>
<1>1. PICK running : Calls(n, event, s, f, running)
  BY DEF Called
<1>2. Calling(n, event, f) /\ StackOK
  BY DEF Called, Typed
<1>3. /\ f.node = Me /\ f.event = Running.event /\ f.pc = Running.pc /\ stack # <<>>
      /\ n \in Nodes /\ event \in EventNames /\ CalledBy(f, EnterFrame(n, event))
      /\ Running.node = Me
  BY <1>2 DEF Calling, Me
<1>4. n \in Owned(Me) /\ Me \in Owners
  <2>1. EnterFrame(n, event).node = n
    BY DEF EnterFrame
  <2>2. QED
    BY <1>3, <2>1 DEF CalledBy
<1>5. /\ io' = activate(s, n, event) /\ thrown' = thrown
      /\ UNCHANGED <<initialized, finalized, plans, broken, told, simVars>>
  BY <1>1 DEF Calls, errorVars
<1>6. /\ Len(stack') = Len(stack) + 1 /\ Len(stack) \in Nat /\ Len(stack) > 0
      /\ Running = stack[Len(stack)]
      /\ stack'[Len(stack)] = f /\ stack'[Len(stack) + 1] = EnterFrame(n, event)
      /\ \A i \in 1 .. Len(stack) - 1 : stack'[i] = stack[i]
      /\ \A i \in 1 .. Len(stack) :
            stack'[i].node = stack[i].node /\ stack'[i].event = stack[i].event
      /\ stack' # <<>>
  BY <1>1, <1>2, CallStep
<1>7. QED
  BY <1>3, <1>4, <1>5, <1>6

LEMMA TopFinished ==
    ASSUME WellFormed, Typed, NEW finite, Finished(finite), Len(stack) = 1
    PROVE  /\ Me = Top /\ Running = stack[1] /\ stack' = <<>> /\ thrown' = Nothing
           /\ io' = deactivate(io, Top) /\ timing' = timing \ {Top} /\ sim_timing' = FALSE
           /\ IF Running.event = "finalization" THEN status' = "finished" /\ plans' = plans
              ELSE status' \in {"started", "finishing"} /\ plans' = WithPlan(Top, finite)
           /\ initialized' = IF Running.event = "initialization" THEN initialized \cup {Top}
                             ELSE initialized
           /\ finalized' = IF Running.event = "finalization" THEN finalized \cup {Top}
                           ELSE finalized
           /\ UNCHANGED <<registered, broken, told>>
<1>1. /\ Running = stack[Len(stack)] /\ stack # <<>> /\ Finishes(finite) /\ thrown = Nothing
      /\ StackOK
  BY RunningFrame DEF Finished, Typed
<1>2. Running = stack[1] /\ stack[1].node = Top
  BY <1>1 DEF StackOK
<1>3. Me = Top
  BY <1>2 DEF Me
<1>4. FinishesTop(finite)
  BY <1>1 DEF Finishes
<1>5. /\ stack' = <<>> /\ io' = deactivate(io, Top) /\ timing' = timing \ {Top}
      /\ sim_timing' = FALSE /\ UNCHANGED <<registered, errorVars>>
      /\ IF Running.event = "finalization" THEN status' = "finished" /\ plans' = plans
         ELSE advance_time(finite) /\ plans' = WithPlan(Top, finite)
  BY <1>4 DEF FinishesTop
<1>6. advance_time(finite) => status' \in {"started", "finishing"}
  BY DEF advance_time
<1>7. /\ initialized' = IF Running.event = "initialization" THEN initialized \cup {Top}
                        ELSE initialized
      /\ finalized' = IF Running.event = "finalization" THEN finalized \cup {Top}
                      ELSE finalized
  BY <1>1, <1>3 DEF Finishes
<1>8. thrown' = Nothing /\ UNCHANGED <<registered, broken, told>>
  BY <1>1, <1>5 DEF errorVars
<1>9. QED
  BY <1>2, <1>3, <1>5, <1>6, <1>7, <1>8

LEMMA ComponentFinished ==
    ASSUME WellFormed, Typed, NEW finite, Finished(finite), Len(stack) # 1
    PROVE  /\ Len(stack) \in Nat /\ Len(stack) > 1 /\ Len(stack') = Len(stack) - 1
           /\ stack # <<>> /\ stack' # <<>> /\ Running = stack[Len(stack)] /\ Running.node = Me
           /\ stack'[Len(stack) - 1] = AfterEvent
           /\ \A i \in 1 .. Len(stack) - 2 : stack'[i] = stack[i]
           /\ \A i \in 1 .. Len(stack) - 1 :
                 stack'[i].node = stack[i].node /\ stack'[i].event = stack[i].event
           /\ Me \in Owned(Below.node) /\ Below.node \in Owners /\ Me \in Nodes
           /\ Below.node \in Nodes /\ Below.node # Me
           /\ FrameOK(Below) /\ CalledBy(Below, Running)
           /\ io' = Closed(Below.node, Me, Running.event)
           /\ timing' = timing \ ({Me} \cup Stopped(Below.node, Running.event))
           /\ plans' = IF Running.event = "finalization" THEN IF Removed THEN plans \ {Me} ELSE plans
                       ELSE WithPlan(Me, finite)
           /\ registered' = IF Removed THEN registered \ {Me} ELSE registered
           /\ thrown' = IF Missing THEN Exception(Below.node) ELSE Nothing
           /\ broken' = IF Missing THEN broken \cup {Me} ELSE broken
           /\ initialized' = IF Running.event = "initialization" THEN initialized \cup {Me}
                             ELSE initialized
           /\ finalized' = IF Running.event = "finalization" THEN finalized \cup {Me}
                           ELSE finalized
           /\ UNCHANGED <<told, simVars>>
<1>1. stack # <<>> /\ Finishes(finite) /\ StackOK
  BY DEF Finished, Typed
<1>2. FinishesComponent(finite)
  BY <1>1 DEF Finishes
<1>3. /\ initialized' = IF Running.event = "initialization" THEN initialized \cup {Me}
                        ELSE initialized
      /\ finalized' = IF Running.event = "finalization" THEN finalized \cup {Me}
                      ELSE finalized
  BY <1>1 DEF Finishes
<1>4. /\ Len(stack) \in Nat /\ Len(stack) > 1
      /\ Me \in Owned(Below.node) /\ Below.node \in Owners /\ Me \in Nodes
      /\ Below.node \in Nodes /\ Below.node # Me
      /\ FrameOK(Below) /\ CalledBy(Below, Running)
  BY <1>1, OwnerBelow
<1>5. Running = stack[Len(stack)] /\ Running.node = Me
  BY <1>1, RunningFrame DEF Me
<1>6. /\ Len(stack') = Len(stack) - 1 /\ stack' # <<>>
      /\ stack'[Len(stack) - 1] = AfterEvent
      /\ \A i \in 1 .. Len(stack) - 2 : stack'[i] = stack[i]
      /\ \A i \in 1 .. Len(stack) - 1 :
            stack'[i].node = stack[i].node /\ stack'[i].event = stack[i].event
  BY <1>1, <1>2, FinishStep
<1>7. /\ io' = Closed(Below.node, Me, Running.event)
      /\ timing' = timing \ ({Me} \cup Stopped(Below.node, Running.event))
      /\ plans' = IF Running.event = "finalization" THEN IF Removed THEN plans \ {Me} ELSE plans
                  ELSE WithPlan(Me, finite)
      /\ registered' = IF Removed THEN registered \ {Me} ELSE registered
      /\ thrown' = IF Missing THEN Exception(Below.node) ELSE Nothing
      /\ broken' = IF Missing THEN broken \cup {Me} ELSE broken
      /\ UNCHANGED <<told, simVars>>
  BY <1>1, <1>2, FinishStep
<1>8. QED
  BY <1>1, <1>3, <1>4, <1>5, <1>6, <1>7

-----------------------------------------------------------------------------
(* After an error.                                                         *)

\* The simulation's own timer runs until the event of the top node is over.
SimulationTimed == sim_timing <=> stack # <<>> \/ thrown # Nothing

LEMMA SimulationTimedStep ==
    ASSUME WellFormed, Typed, SimulationTimed, [Next]_vars
    PROVE  SimulationTimed' /\ (stack = <<>> /\ thrown # Nothing => stack' = <<>>)
<1>0. ASSUME stack # <<>>, stack' # <<>> \/ thrown' # Nothing, UNCHANGED simVars
      PROVE  SimulationTimed' /\ (stack = <<>> /\ thrown # Nothing => stack' = <<>>)
  BY <1>0 DEF SimulationTimed, simVars
<1>1. CASE process_next_event
  <2>1. PICK event \in Events(status) :
           IF sim_timing THEN stack' = <<>> /\ thrown' = Exception(Top)
           ELSE stack' = <<EnterFrame(Top, event)>> /\ thrown' = thrown
    BY <1>1, TypedFirst
  <2>2. sim_timing' = TRUE /\ stack = <<>>
    BY <1>1 DEF process_next_event
  <2>3. CASE sim_timing
    BY <2>1, <2>2, <2>3, Thrown DEF SimulationTimed, WellFormed
  <2>4. CASE ~sim_timing
    <3>1. stack' # <<>>
      BY <2>1, <2>4
    <3>2. thrown = Nothing
      BY <2>4 DEF SimulationTimed
    <3>3. QED
      BY <2>2, <3>1, <3>2 DEF SimulationTimed
  <2>5. QED
    BY <2>3, <2>4
<1>2. CASE UNCHANGED vars
  <2>1. sim_timing' = sim_timing /\ thrown' = thrown /\ stack' = stack
    BY <1>2 DEF vars, errorVars, simVars
  <2>2. QED
    BY <2>1 DEF SimulationTimed
<1>3. CASE Stays
  BY <1>0, <1>3 DEF Stays
<1>4. CASE \E f : GoesOnTo(f)
  BY <1>0, <1>4, GoesOnToStep
<1>5. CASE \E n, event, f, s : Called(n, event, f, s)
  BY <1>0, <1>5, CalledStep
<1>6. CASE \E finite : Finished(finite)
  <2>1. PICK finite : Finished(finite)
    BY <1>6
  <2>2. CASE Len(stack) = 1
    <3>1. stack' = <<>> /\ thrown' = Nothing /\ sim_timing' = FALSE
      BY <2>1, <2>2, TopFinished
    <3>2. QED
      BY <3>1 DEF SimulationTimed
  <2>3. CASE Len(stack) # 1
    BY <1>0, <2>1, <2>3, ComponentFinished
  <2>4. QED
    BY <2>2, <2>3
<1>7. CASE Unwinds
  <2>1. stack # <<>> /\ thrown' # Nothing
    BY <1>7, UnwindStep
  <2>2. UNCHANGED simVars
    BY <1>7 DEF Unwinds
  <2>3. QED
    BY <1>0, <2>1, <2>2
<1>8. QED
  BY <1>1, <1>2, <1>3, <1>4, <1>5, <1>6, <1>7, StepKind DEF KindOfStep

\* After an error has come out of the simulation no node processes an event
\* again: the timer that was never stopped makes every further call throw.
THEOREM ErrorsAreFinal == Spec => NoEventAfterError
<1> USE NodesAssumption
<1>1. Init => Typed /\ SimulationTimed
  <2>1. Init => SimulationTimed
    BY DEF Init, SimulationTimed
  <2>2. QED
    BY <2>1, TypedInit
<1>2. Typed /\ SimulationTimed /\ [Next]_vars =>
         /\ Typed' /\ SimulationTimed'
         /\ [stack = <<>> /\ thrown # Nothing => stack' = <<>>]_vars
  BY TypedStep, SimulationTimedStep
<1>3. QED
  BY <1>1, <1>2, PTL DEF Spec, NoEventAfterError

-----------------------------------------------------------------------------
(* The timers                                                              *)

\* Which nodes are on the stack after a step.
LEMMA OnStackBelow ==
    ASSUME Typed, stack # <<>>
    PROVE  /\ Me \in OnStack
           /\ \A i \in 1 .. Len(stack) : stack[i].node \in OnStack
           /\ OnStack = {stack[i].node : i \in 1 .. Len(stack) - 1} \cup {Me}
<1>1. Len(stack) \in Nat /\ Len(stack) > 0 /\ Running = stack[Len(stack)]
  BY RunningFrame DEF Typed
<1>2. \A i \in 1 .. Len(stack) : i \in 1 .. Len(stack) - 1 \/ i = Len(stack)
  BY <1>1
<1>3. Len(stack) \in 1 .. Len(stack) /\ \A i \in 1 .. Len(stack) - 1 : i \in 1 .. Len(stack)
  BY <1>1
<1>4. QED
  BY <1>1, <1>2, <1>3 DEF OnStack, Me

\* A node that is handed an event has none in progress.
LEMMA CalledNew ==
    ASSUME WellFormed, Typed, NEW n, NEW event, NEW f, NEW s, Called(n, event, f, s)
    PROVE  n \notin OnStack
<1>1. /\ Len(stack') = Len(stack) + 1 /\ Len(stack) \in Nat
      /\ stack'[Len(stack) + 1] = EnterFrame(n, event)
      /\ \A i \in 1 .. Len(stack) : stack'[i].node = stack[i].node
  BY CalledStep
<1>2. Len(stack) + 1 \in 1 .. Len(stack')
      /\ \A i \in 1 .. Len(stack) : i \in 1 .. Len(stack') /\ i # Len(stack) + 1
  BY <1>1
<1>3. StackOK'
  <2>1. PICK running : Calls(n, event, s, f, running)
    BY DEF Called
  <2>2. Calling(n, event, f) /\ StackOK
    BY DEF Called, Typed
  <2>3. QED
    BY <2>1, <2>2, CallStep
<1>4. \A i, j \in 1 .. Len(stack') : i # j => stack'[i].node # stack'[j].node
  <2>1. stack' \in Seq(Frames) /\ \A i \in 1 .. Len(stack') - 1 : CalledBy(stack'[i], stack'[i + 1])
    BY <1>3 DEF StackOK, CalledBy
  <2>2. QED
    BY <2>1, OnceOnPath
<1>5. \A i \in 1 .. Len(stack) : stack'[i].node # stack'[Len(stack) + 1].node
  BY <1>2, <1>4
<1>6. QED
  BY <1>1, <1>5 DEF OnStack, EnterFrame

\* The frame that runs is the only one of its node.
LEMMA RunningOnce ==
    ASSUME WellFormed, Typed, stack # <<>>
    PROVE  \A i \in 1 .. Len(stack) - 1 : stack[i].node # Me
<1>1. Len(stack) \in Nat /\ Len(stack) > 0 /\ Running = stack[Len(stack)] /\ StackOK
  BY RunningFrame DEF Typed
<1>2. Len(stack) \in 1 .. Len(stack)
      /\ \A i \in 1 .. Len(stack) - 1 : i \in 1 .. Len(stack) /\ i # Len(stack)
  BY <1>1
<1>3. \A i \in 1 .. Len(stack) - 1 : stack[i].node # stack[Len(stack)].node
  BY <1>1, <1>2, OnceOnStack
<1>4. QED
  BY <1>1, <1>3 DEF Me

\* The inductive invariant.  A collection whose user code made a call that
\* threw is still being timed; a composite is too, until it is unwound.
TimersKept ==
    /\ timing \subseteq OnStack
    /\ \A i \in 1 .. Len(stack) - 1 : stack[i].node \in timing
    /\ stack # <<>> /\ Running.pc \in {"user", "remove"} => Me \in timing
    /\ stack # <<>> /\ thrown = Nothing /\ Me \in timing => Running.pc \in {"user", "remove"}

LEMMA TimersStay ==
    ASSUME WellFormed, Typed, TimersKept, UNCHANGED <<stack, timing>>,
           \/ thrown' = thrown
           \/ thrown' # Nothing
           \/ stack # <<>> /\ Running.pc = "user"
    PROVE  TimersKept'
  BY DEF TimersKept, OnStack, Running, Me

LEMMA TimersGoOn ==
    ASSUME WellFormed, Typed, TimersKept, NEW f, GoesOnTo(f)
    PROVE  TimersKept'
<1>1. /\ Len(stack') = Len(stack) /\ Len(stack) \in Nat /\ Len(stack) > 0
      /\ stack # <<>> /\ Running = stack[Len(stack)]
      /\ stack'[Len(stack)] = f /\ f.node = Me
      /\ \A i \in 1 .. Len(stack) - 1 : stack'[i] = stack[i]
      /\ \A i \in 1 .. Len(stack) : stack'[i].node = stack[i].node
  BY GoesOnToStep
<1>2. Running' = f /\ Me' = Me
  BY <1>1 DEF Running, Last, Me
<1>3. OnStack' = OnStack
  BY <1>1 DEF OnStack
<1>4. thrown = Nothing /\ TimedOn(f)
  BY DEF GoesOnTo
<1>5. Me \in OnStack
  BY <1>1, OnStackBelow
<1>6. \A i \in 1 .. Len(stack) - 1 : stack[i].node # Me
  BY <1>1, RunningOnce
<1>7. /\ timing' \subseteq OnStack
      /\ \A i \in 1 .. Len(stack) - 1 : stack[i].node \in timing'
      /\ f.pc \in {"user", "remove"} <=> Me \in timing'
  BY <1>1, <1>4, <1>5, <1>6 DEF TimersKept, TimedOn
<1>8. QED
  BY <1>1, <1>2, <1>3, <1>7 DEF TimersKept

LEMMA TimersCall ==
    ASSUME WellFormed, Typed, TimersKept, NEW n, NEW event, NEW f, NEW s, Called(n, event, f, s)
    PROVE  TimersKept'
<1>1. /\ Len(stack') = Len(stack) + 1 /\ Len(stack) \in Nat /\ Len(stack) > 0
      /\ stack # <<>> /\ Running = stack[Len(stack)]
      /\ stack'[Len(stack)] = f /\ stack'[Len(stack) + 1] = EnterFrame(n, event)
      /\ f.node = Me /\ f.pc = Running.pc
      /\ \A i \in 1 .. Len(stack) - 1 : stack'[i] = stack[i]
      /\ \A i \in 1 .. Len(stack) : stack'[i].node = stack[i].node
      /\ n \in Owned(Me) /\ Me \in Owners
  BY CalledStep
<1>2. Running' = EnterFrame(n, event) /\ Me' = n
  BY <1>1 DEF Running, Last, Me, EnterFrame
<1>3. OnStack \subseteq OnStack'
  <2>1. \A i \in 1 .. Len(stack) : i \in 1 .. Len(stack')
    BY <1>1
  <2>2. QED
    BY <1>1, <2>1 DEF OnStack
<1>4. n \notin OnStack
  BY CalledNew
<1>5. timing' = timing \cup (IF Running.pc = "call" THEN {Me} ELSE {})
  BY DEF Called
<1>6. Running.pc \in {"call", "user", "remove"}
  BY DEF Called
<1>7. Me \in OnStack
  BY <1>1, OnStackBelow
<1>8. /\ timing' \subseteq OnStack /\ Me \in timing' /\ timing \subseteq timing'
  BY <1>1, <1>5, <1>6, <1>7 DEF TimersKept
<1>9. \A i \in 1 .. Len(stack') - 1 : stack'[i].node \in timing'
  <2>1. \A i \in 1 .. Len(stack) : i \in 1 .. Len(stack) - 1 \/ i = Len(stack)
    BY <1>1
  <2>2. \A i \in 1 .. Len(stack) : stack'[i].node \in timing'
    BY <1>1, <1>8, <2>1 DEF TimersKept, Me
  <2>3. QED
    BY <1>1, <2>2
<1>10. n \notin timing' /\ EnterFrame(n, event).pc = "enter"
  BY <1>4, <1>8 DEF EnterFrame
<1>11. QED
  BY <1>2, <1>3, <1>8, <1>9, <1>10 DEF TimersKept

LEMMA TimersFinish ==
    ASSUME WellFormed, Typed, TimersKept, NEW finite, Finished(finite)
    PROVE  TimersKept'
<1>1. CASE Len(stack) = 1
  <2>1. stack' = <<>> /\ timing' = timing \ {Top} /\ Me = Top
    BY <1>1, TopFinished
  <2>2. OnStack = {Top}
    <3>1. stack # <<>> /\ 1 .. Len(stack) - 1 = {}
      BY <1>1 DEF Finished
    <3>2. QED
      BY <2>1, <3>1, OnStackBelow
  <2>3. Len(stack') = 0 /\ timing' = {}
    BY <2>1, <2>2 DEF TimersKept
  <2>4. QED
    BY <2>1, <2>3 DEF TimersKept
<1>2. CASE Len(stack) # 1
  <2>1. /\ Len(stack) \in Nat /\ Len(stack) > 1 /\ Len(stack') = Len(stack) - 1
        /\ stack # <<>> /\ stack' # <<>>
        /\ stack'[Len(stack) - 1] = AfterEvent
        /\ \A i \in 1 .. Len(stack) - 1 : stack'[i].node = stack[i].node
        /\ Below.node # Me /\ Below.node \in Owners /\ Below.node \in Nodes
        /\ CalledBy(Below, Running)
        /\ timing' = timing \ ({Me} \cup Stopped(Below.node, Running.event))
    BY <1>2, ComponentFinished
  <2>2. AfterEvent.pc = Below.pc /\ AfterEvent.node = Below.node
    BY <1>2, <2>1, AfterEventList
  <2>3. Running' = AfterEvent /\ Me' = Below.node
    BY <2>1, <2>2 DEF Running, Last, Me
  <2>4. OnStack' = {stack[i].node : i \in 1 .. Len(stack) - 1}
    BY <2>1 DEF OnStack
  <2>5. OnStack = OnStack' \cup {Me} /\ \A i \in 1 .. Len(stack) - 1 : stack[i].node # Me
    BY <2>1, <2>4, OnStackBelow, RunningOnce
  <2>6. Len(stack) - 1 \in 1 .. Len(stack) - 1
        /\ \A i \in 1 .. Len(stack) - 2 : i \in 1 .. Len(stack) - 1 /\ i \in 1 .. Len(stack) /\ i # Len(stack) - 1
        /\ Len(stack) - 1 \in 1 .. Len(stack)
    BY <2>1
  <2>7. Below.node \in timing
    BY <2>6 DEF TimersKept, Below
  <2>8. Below.node \in timing' <=> Below.pc \in {"user", "remove"}
    <3>1. Below.node \in CompositeNodes => Below.pc = "call"
      BY <2>1 DEF CalledBy
    <3>2. Below.node \in Collections =>
            IF Running.event = "planned" THEN Below.pc = "call" ELSE Below.pc \in {"user", "remove"}
      BY <2>1 DEF CalledBy
    <3>3. ~(Below.node \in CompositeNodes /\ Below.node \in Collections)
      BY <2>1, Kinds
    <3>4. "call" \notin {"user", "remove"}
      OBVIOUS
    <3>5. QED
      BY <2>1, <2>7, <3>1, <3>2, <3>3, <3>4 DEF Stopped, Owners
  <2>9. \A i \in 1 .. Len(stack) - 2 : stack[i].node # Below.node
    <3>1. StackOK
      BY DEF Typed
    <3>2. QED
      BY <2>6, <3>1, OnceOnStack DEF Below
  <2>10. \A i \in 1 .. Len(stack) - 2 : stack[i].node \in timing'
    BY <2>1, <2>5, <2>6, <2>9 DEF TimersKept, Stopped
  <2>11. \A i \in 1 .. Len(stack') - 1 : stack'[i].node \in timing'
    <3>1. \A i \in 1 .. Len(stack') - 1 : i \in 1 .. Len(stack) - 2
      BY <2>1
    <3>2. QED
      BY <2>1, <2>6, <2>10, <3>1
  <2>12. timing' \subseteq OnStack'
    BY <2>1, <2>5 DEF TimersKept
  <2>13. QED
    BY <2>2, <2>3, <2>8, <2>11, <2>12 DEF TimersKept
<1>3. QED
  BY <1>1, <1>2

LEMMA TimersUnwind ==
    ASSUME WellFormed, Typed, TimersKept, Unwinds
    PROVE  TimersKept'
<1>1. /\ stack # <<>> /\ Len(stack) \in Nat /\ Len(stack) > 0 /\ Running = stack[Len(stack)]
      /\ Len(stack') = Len(stack) - 1
      /\ \A i \in 1 .. Len(stack) - 1 : stack'[i] = stack[i]
      /\ thrown' # Nothing /\ StackOK'
      /\ timing' = timing \ ({Me} \cup IF Len(stack) > 1 /\ Below.node \in Collections
                                          /\ Running.event = "planned" THEN {Below.node} ELSE {})
  BY UnwindStep
<1>2. OnStack' = {stack[i].node : i \in 1 .. Len(stack) - 1}
  BY <1>1 DEF OnStack
<1>3. OnStack = OnStack' \cup {Me} /\ \A i \in 1 .. Len(stack) - 1 : stack[i].node # Me
  BY <1>1, <1>2, OnStackBelow, RunningOnce
<1>4. timing' \subseteq OnStack'
  BY <1>1, <1>3 DEF TimersKept
<1>5. CASE Len(stack) = 1
  <2>1. stack' = <<>>
    <3>1. Len(stack') = 0 /\ stack' \in Seq(Frames)
      BY <1>1, <1>5 DEF StackOK
    <3>2. QED
      BY <3>1, EmptySeq
  <2>2. 1 .. Len(stack') - 1 = {}
    BY <1>1, <1>5
  <2>3. QED
    BY <1>4, <2>1, <2>2 DEF TimersKept
<1>6. CASE Len(stack) # 1
  <2>1. /\ Len(stack) > 1 /\ Below.node # Me /\ CalledBy(Below, Running) /\ Below.node \in Owners
        /\ Below.node \in Nodes
    BY <1>1, <1>6, OwnerBelow
  <2>2. Len(stack) - 1 \in 1 .. Len(stack) - 1
        /\ (\A i \in 1 .. Len(stack) - 2 : i \in 1 .. Len(stack) - 1 /\ i \in 1 .. Len(stack) /\ i # Len(stack) - 1)
        /\ Len(stack) - 1 \in 1 .. Len(stack)
    BY <1>1, <2>1
  <2>3. Running' = Below /\ Me' = Below.node
    BY <1>1, <2>2 DEF Running, Last, Me, Below
  <2>4. Below.node \in timing
    BY <2>2 DEF TimersKept, Below
  <2>5. Below.pc \in {"user", "remove"} => Below.node \in timing'
    <3>1. Below.node \in Collections /\ Running.event = "planned" => Below.pc = "call"
      BY <2>1 DEF CalledBy
    <3>2. "call" \notin {"user", "remove"}
      OBVIOUS
    <3>3. QED
      BY <1>1, <2>1, <2>4, <3>1, <3>2
  <2>6. \A i \in 1 .. Len(stack) - 2 : stack[i].node # Below.node
    <3>1. StackOK
      BY DEF Typed
    <3>2. QED
      BY <2>2, <3>1, OnceOnStack DEF Below
  <2>7. \A i \in 1 .. Len(stack) - 2 : stack[i].node \in timing'
    BY <1>1, <1>3, <2>2, <2>6 DEF TimersKept
  <2>8. \A i \in 1 .. Len(stack') - 1 : stack'[i].node \in timing'
    <3>1. \A i \in 1 .. Len(stack') - 1 : i \in 1 .. Len(stack) - 2
      BY <1>1
    <3>2. QED
      BY <1>1, <2>2, <2>7, <3>1
  <2>9. QED
    BY <1>1, <1>4, <2>3, <2>5, <2>8 DEF TimersKept
<1>7. QED
  BY <1>5, <1>6

LEMMA TimersStart ==
    ASSUME WellFormed, Typed, TimersKept, process_next_event
    PROVE  TimersKept'
<1>1. PICK event : stack' = <<>> \/ stack' = <<EnterFrame(Top, event)>>
  BY TypedFirst
<1>2. stack = <<>> /\ timing' = timing
  BY DEF process_next_event
<1>3. timing = {}
  BY <1>2 DEF TimersKept, OnStack
<1>4. CASE stack' = <<>>
  BY <1>2, <1>3, <1>4 DEF TimersKept
<1>5. CASE stack' = <<EnterFrame(Top, event)>>
  <2> DEFINE f == EnterFrame(Top, event)
  <2>1. f.pc = "enter"
    BY DEF EnterFrame
  <2>2. stack' = <<f>>
    BY <1>5
  <2> HIDE DEF f
  <2>3. Len(stack') = 1 /\ stack'[1] = f /\ 1 .. Len(stack') - 1 = {}
    BY <2>2
  <2>4. Running' = f
    BY <2>3 DEF Running, Last
  <2>5. Running'.pc \notin {"user", "remove"}
    BY <2>1, <2>4
  <2>6. QED
    BY <1>2, <1>3, <2>3, <2>5 DEF TimersKept
<1>6. QED
  BY <1>1, <1>4, <1>5

LEMMA TimersStep ==
    ASSUME WellFormed, Typed, TimersKept, [Next]_vars
    PROVE  TimersKept'
<1>1. CASE UNCHANGED vars
  <2>1. UNCHANGED <<stack, timing>> /\ thrown' = thrown
    BY <1>1 DEF vars, errorVars
  <2>2. QED
    BY <2>1, TimersStay
<1>2. CASE Stays
  <2>1. /\ UNCHANGED <<stack, timing>> /\ stack # <<>>
        /\ \/ thrown' = thrown
           \/ thrown' = Exception(Me)
           \/ Running.pc = "user"
    BY <1>2 DEF Stays
  <2>2. Me \in Nodes
    BY <2>1, RunningFrame DEF Typed
  <2>3. QED
    BY <2>1, <2>2, Thrown, TimersStay
<1>3. QED
  BY <1>1, <1>2, TimersStart, TimersGoOn, TimersCall, TimersFinish, TimersUnwind, StepKind
  DEF KindOfStep

-----------------------------------------------------------------------------
(* The lists of calls                                                      *)

\* A collection's list starts with one agent's planned event; a composite
\* initializes and finalizes every component once.
ListOK(f) ==
    /\ f.node \in Collections =>
          \A k \in DOMAIN f.todo : f.todo[k].do = "planned" => f.pc = "call" /\ DOMAIN f.todo = {1}
    /\ f.node \in CompositeNodes /\ f.event \in {"initialization", "finalization"} =>
          \A j, k \in DOMAIN f.todo : j # k => f.todo[j].node # f.todo[k].node
    /\ \A k \in DOMAIN f.todo : f.todo[k].do = "outward" => f.todo[k].node \in Outward

ListBelow(f, g) ==
    /\ f.node \in CompositeNodes /\ f.event \in {"initialization", "finalization"} =>
          \A k \in DOMAIN f.todo : f.todo[k].node # g.node
    /\ f.node \in Collections /\ g.event = "planned" => DOMAIN f.todo = {}

ListsKept ==
    /\ \A i \in 1 .. Len(stack) : ListOK(stack[i])
    /\ \A i \in 1 .. Len(stack) - 1 : ListBelow(stack[i], stack[i + 1])

\* The rest of a list.
LEMMA RestOK ==
    ASSUME WellFormed, Typed, stack # <<>>, Running.todo # <<>>, ListOK(Running),
           NEW f, f.todo = Tail(Running.todo), f.node = Me, f.event = Running.event
    PROVE  /\ ListOK(f)
           /\ \A k \in DOMAIN f.todo :
                 k + 1 \in DOMAIN Running.todo /\ f.todo[k] = Running.todo[k + 1]
           /\ Me \in CompositeNodes /\ Running.event \in {"initialization", "finalization"} =>
                 \A k \in DOMAIN f.todo : f.todo[k].node # Head(Running.todo).node
           /\ Me \in Collections /\ Head(Running.todo).do = "planned" => DOMAIN f.todo = {}
<1> DEFINE t == Running.todo
<1>1. /\ \A k \in DOMAIN f.todo : k + 1 \in DOMAIN t /\ k \in Nat /\ k > 0 /\ f.todo[k] = t[k + 1]
      /\ DOMAIN f.todo = 1 .. Len(t) - 1 /\ DOMAIN t = 1 .. Len(t)
      /\ Head(t) = t[1] /\ 1 \in DOMAIN t
  BY RestOfFrame DEF Typed
<1>2. Running.node = Me
  BY DEF Me
<1>3. \A k \in DOMAIN f.todo : k + 1 # 1
  BY <1>1
<1>4. Me \in Collections => \A k \in DOMAIN t : t[k].do = "planned" => DOMAIN t = {1}
  BY <1>2 DEF ListOK
<1>5. Me \in Collections => \A k \in DOMAIN f.todo : f.todo[k].do # "planned"
  <2> HIDE DEF t
  <2> QED  BY <1>1, <1>3, <1>4
<1>6. Me \in Collections /\ Head(t).do = "planned" => DOMAIN f.todo = {}
  <2> HIDE DEF t
  <2>1. Me \in Collections /\ Head(t).do = "planned" => DOMAIN t = {1}
    BY <1>1, <1>4
  <2> QED  BY <1>1, <1>3, <2>1
<1>7. Me \in CompositeNodes /\ Running.event \in {"initialization", "finalization"} =>
         \A j, k \in DOMAIN t : j # k => t[j].node # t[k].node
  BY <1>2 DEF ListOK
<1>8. Me \in CompositeNodes /\ Running.event \in {"initialization", "finalization"} =>
         /\ \A j, k \in DOMAIN f.todo : j # k => f.todo[j].node # f.todo[k].node
         /\ \A k \in DOMAIN f.todo : f.todo[k].node # Head(t).node
  <2> HIDE DEF t
  <2>1. \A j, k \in DOMAIN f.todo : j # k => j + 1 # k + 1
    BY <1>1
  <2> QED  BY <1>1, <1>3, <1>7, <2>1
<1>9. \A k \in DOMAIN f.todo : f.todo[k].do = "outward" => f.todo[k].node \in Outward
  <2>1. \A k \in DOMAIN t : t[k].do = "outward" => t[k].node \in Outward
    BY DEF ListOK
  <2> HIDE DEF t
  <2> QED  BY <1>1, <2>1
<1>10. ListOK(f)
  BY <1>5, <1>8, <1>9 DEF ListOK
<1>11. QED
  BY <1>1, <1>6, <1>8, <1>10

LEMMA ListsGoOn ==
    ASSUME WellFormed, Typed, ListsKept, NEW f, GoesOnTo(f)
    PROVE  ListsKept'
<1>1. /\ Len(stack') = Len(stack) /\ Len(stack) \in Nat /\ Len(stack) > 0
      /\ stack # <<>> /\ Running = stack[Len(stack)] /\ Running.node = Me
      /\ stack'[Len(stack)] = f /\ f.node = Me /\ f.event = Running.event
      /\ \A i \in 1 .. Len(stack) - 1 : stack'[i] = stack[i]
      /\ \A i \in 1 .. Len(stack) :
            stack'[i].node = stack[i].node /\ stack'[i].event = stack[i].event
  BY GoesOnToStep
<1>2. ListOK(Running) /\ FrameOK(Running) /\ Me \in Nodes
  <2>1. Len(stack) \in 1 .. Len(stack)
    BY <1>1
  <2>2. QED
    BY <1>1, <2>1, RunningFrame DEF ListsKept, Typed
<1>3. ListedOn(f)
  BY DEF GoesOnTo
<1>4. ~(Me \in CompositeNodes /\ Me \in Collections)
  BY <1>2, Kinds
<1>5. ASSUME f.todo = Running.todo, Running.pc # "call" PROVE ListOK(f)
  BY <1>1, <1>2, <1>5 DEF ListOK
<1>6. ASSUME Running.todo # <<>>, f.todo = Tail(Running.todo) PROVE ListOK(f)
  BY <1>1, <1>2, <1>6, RestOK
<1>7. ASSUME Me \in CompositeNodes, f.todo \in ComponentSteps PROVE ListOK(f)
  <2>1. /\ \A k \in DOMAIN f.todo : f.todo[k].do = Running.event
        /\ Running.event \in {"initialization", "finalization"} =>
              \A j, k \in DOMAIN f.todo : j # k => f.todo[j].node # f.todo[k].node
    BY <1>1, <1>7, ComponentList
  <2>2. Running.event # "outward"
    BY <1>1, RunningFrame DEF Typed, Frames, EventNames
  <2>3. QED
    BY <1>1, <1>4, <1>7, <2>1, <2>2 DEF ListOK
<1>8. ASSUME \E a \in Owned(Me) \cap plans :
                Me \in Collections /\ f.pc = "call" /\ f.todo = <<Step("planned", a)>>
      PROVE  ListOK(f)
  <2>1. PICK a : Me \in Collections /\ f.pc = "call" /\ f.todo = <<Step("planned", a)>>
    BY <1>8
  <2> DEFINE x == Step("planned", a)
  <2>2. x.do = "planned"
    BY DEF Step
  <2>3. f.todo = <<x>>
    BY <2>1
  <2> HIDE DEF x
  <2>4. DOMAIN f.todo = {1} /\ f.todo[1] = x
    BY <2>3
  <2>5. QED
    BY <1>1, <1>4, <2>1, <2>2, <2>4 DEF ListOK
<1>9. ListOK(f)
  BY <1>3, <1>5, <1>6, <1>7, <1>8 DEF ListedOn
<1>10. \A i \in 1 .. Len(stack') : ListOK(stack'[i])
  <2>1. \A i \in 1 .. Len(stack) : i \in 1 .. Len(stack) - 1 \/ i = Len(stack)
    BY <1>1
  <2>2. QED
    BY <1>1, <1>9, <2>1 DEF ListsKept
<1>11. \A i \in 1 .. Len(stack') - 1 : ListBelow(stack'[i], stack'[i + 1])
  <2>1. SUFFICES ASSUME NEW i \in 1 .. Len(stack) - 1 PROVE ListBelow(stack'[i], stack'[i + 1])
    BY <1>1
  <2>2. i + 1 \in 1 .. Len(stack) /\ stack'[i] = stack[i]
    BY <1>1
  <2>3. ListBelow(stack[i], stack[i + 1])
    BY DEF ListsKept
  <2>4. QED
    BY <1>1, <2>2, <2>3 DEF ListBelow
<1>12. QED
  BY <1>10, <1>11 DEF ListsKept, ListOK, ListBelow

LEMMA ListsCall ==
    ASSUME WellFormed, Typed, ListsKept, NEW n, NEW event, NEW f, NEW s, Called(n, event, f, s)
    PROVE  ListsKept'
<1> DEFINE g == EnterFrame(n, event)
<1>1. /\ Len(stack') = Len(stack) + 1 /\ Len(stack) \in Nat /\ Len(stack) > 0
      /\ stack # <<>> /\ Running = stack[Len(stack)] /\ Running.node = Me
      /\ stack'[Len(stack)] = f /\ stack'[Len(stack) + 1] = g
      /\ f.node = Me /\ f.event = Running.event /\ f.pc = Running.pc
      /\ \A i \in 1 .. Len(stack) - 1 : stack'[i] = stack[i]
      /\ \A i \in 1 .. Len(stack) :
            stack'[i].node = stack[i].node /\ stack'[i].event = stack[i].event
  BY CalledStep
<1>2. ListOK(Running) /\ Me \in Nodes
  <2>1. Len(stack) \in 1 .. Len(stack)
    BY <1>1
  <2>2. QED
    BY <1>1, <2>1, RunningFrame DEF ListsKept, Typed
<1>3. ~(Me \in CompositeNodes /\ Me \in Collections)
  BY <1>2, Kinds
<1>4. g.node = n /\ g.event = event /\ DOMAIN g.todo = {}
  <2>1. DOMAIN <<>> = {}
    OBVIOUS
  <2>2. QED
    BY <2>1 DEF EnterFrame
<1> HIDE DEF g
<1>5. ListOK(g)
  BY <1>4 DEF ListOK
<1>6. ListOK(f) /\ ListBelow(f, g)
  <2>1. CASE f = Rest /\ Running.todo # <<>> /\ Head(Running.todo) = Step(event, n)
    <3>1. f.todo = Tail(Running.todo)
      BY <1>1, <2>1, RestOfFrame DEF Typed
    <3>2. Head(Running.todo).node = n /\ Head(Running.todo).do = event
      BY <2>1 DEF Step
    <3>3. /\ ListOK(f)
          /\ Me \in CompositeNodes /\ Running.event \in {"initialization", "finalization"} =>
                \A k \in DOMAIN f.todo : f.todo[k].node # Head(Running.todo).node
          /\ Me \in Collections /\ Head(Running.todo).do = "planned" => DOMAIN f.todo = {}
      BY <1>1, <1>2, <2>1, <3>1, RestOK
    <3>4. QED
      BY <1>1, <1>4, <3>2, <3>3 DEF ListBelow
  <2>2. CASE f = Running /\ Me \in Collections /\ event # "planned"
    BY <1>1, <1>2, <1>3, <1>4, <2>2 DEF ListBelow
  <2>3. QED
    BY <2>1, <2>2 DEF Called
<1>7. \A i \in 1 .. Len(stack') : ListOK(stack'[i])
  <2>1. \A i \in 1 .. Len(stack') : i \in 1 .. Len(stack) - 1 \/ i = Len(stack) \/ i = Len(stack) + 1
    BY <1>1
  <2>2. \A i \in 1 .. Len(stack) - 1 : ListOK(stack[i])
    BY <1>1 DEF ListsKept
  <2>3. QED
    BY <1>1, <1>5, <1>6, <2>1, <2>2
<1>8. \A i \in 1 .. Len(stack') - 1 : ListBelow(stack'[i], stack'[i + 1])
  <2>1. SUFFICES ASSUME NEW i \in 1 .. Len(stack) PROVE ListBelow(stack'[i], stack'[i + 1])
    BY <1>1
  <2>2. CASE i = Len(stack)
    BY <1>1, <1>6, <2>2
  <2>3. CASE i # Len(stack)
    <3>1. i \in 1 .. Len(stack) - 1 /\ i + 1 \in 1 .. Len(stack) /\ stack'[i] = stack[i]
      BY <1>1, <2>3
    <3>2. ListBelow(stack[i], stack[i + 1])
      BY <3>1 DEF ListsKept
    <3>3. QED
      BY <1>1, <3>1, <3>2 DEF ListBelow
  <2>4. QED
    BY <2>2, <2>3
<1>9. QED
  BY <1>7, <1>8 DEF ListsKept, ListOK, ListBelow

LEMMA ListsFinish ==
    ASSUME WellFormed, Typed, ListsKept, NEW finite, Finished(finite)
    PROVE  ListsKept'
<1>1. CASE Len(stack) = 1
  <2>1. stack' = <<>>
    BY <1>1, TopFinished
  <2>2. 1 .. Len(stack') = {} /\ 1 .. Len(stack') - 1 = {}
    BY <2>1
  <2>3. QED
    BY <2>2 DEF ListsKept
<1>2. CASE Len(stack) # 1
  <2> DEFINE f == AfterEvent
  <2>1. /\ Len(stack) \in Nat /\ Len(stack) > 1 /\ Len(stack') = Len(stack) - 1
        /\ stack # <<>> /\ Running = stack[Len(stack)]
        /\ stack'[Len(stack) - 1] = f
        /\ \A i \in 1 .. Len(stack) - 2 : stack'[i] = stack[i]
        /\ \A i \in 1 .. Len(stack) - 1 :
              stack'[i].node = stack[i].node /\ stack'[i].event = stack[i].event
        /\ Below.node \in Nodes /\ CalledBy(Below, Running) /\ Below.node \in Owners
    BY <1>2, ComponentFinished
  <2>2. /\ f.node = Below.node /\ f.event = Below.event /\ f.pc = Below.pc
        /\ Running.event # "planned" => f = Below
        /\ \A k \in DOMAIN f.todo :
              \/ \E j \in DOMAIN Below.todo : f.todo[k] = Below.todo[j]
              \/ Running.event = "planned" /\ f.todo[k] \in OwnerSteps(Below.node)
    BY <1>2, <2>1, AfterEventList
  <2>3. Running.event = "planned" => Below.event = "planned"
    BY <1>2, <2>1, OwnerBelow
  <2>4. ListOK(Below) /\ ListBelow(Below, Running)
    <3>1. Len(stack) - 1 \in 1 .. Len(stack) /\ Len(stack) - 1 \in 1 .. Len(stack) - 1
          /\ (Len(stack) - 1) + 1 = Len(stack)
      BY <2>1
    <3>2. QED
      BY <2>1, <3>1 DEF ListsKept, Below
  <2>5. ~(Below.node \in CompositeNodes /\ Below.node \in Collections)
    BY <2>1, Kinds
  <2> HIDE DEF f
  <2>6. ListOK(f)
    <3>1. CASE Running.event # "planned"
      BY <2>2, <2>4, <3>1
    <3>2. CASE Running.event = "planned"
      <4>1. Below.node \in Collections => \A k \in DOMAIN f.todo : f.todo[k].do # "planned"
        <5>1. Below.node \in Collections => DOMAIN Below.todo = {}
          BY <2>4, <3>2 DEF ListBelow
        <5>2. QED
          BY <2>2, <5>1 DEF OwnerSteps
      <4>2. \A k \in DOMAIN f.todo : f.todo[k].do = "outward" => f.todo[k].node \in Outward
        <5>1. \A j \in DOMAIN Below.todo :
                 Below.todo[j].do = "outward" => Below.todo[j].node \in Outward
          BY <2>4 DEF ListOK
        <5>2. \A x \in OwnerSteps(Below.node) : x.do = "outward" => x.node \in Outward
          BY DEF OwnerSteps
        <5>3. QED
          BY <2>2, <5>1, <5>2
      <4>3. f.event = "planned" /\ "planned" \notin {"initialization", "finalization"}
        BY <2>2, <2>3, <3>2
      <4>4. QED
        BY <2>2, <4>1, <4>2, <4>3 DEF ListOK
    <3>3. QED
      BY <3>1, <3>2
  <2>7. \A i \in 1 .. Len(stack') : ListOK(stack'[i])
    <3>1. \A i \in 1 .. Len(stack') : i \in 1 .. Len(stack) - 2 \/ i = Len(stack) - 1
      BY <2>1
    <3>2. \A i \in 1 .. Len(stack) - 2 : ListOK(stack[i])
      BY <2>1 DEF ListsKept
    <3>3. QED
      BY <2>1, <2>6, <3>1, <3>2
  <2>8. \A i \in 1 .. Len(stack') - 1 : ListBelow(stack'[i], stack'[i + 1])
    <3>1. SUFFICES ASSUME NEW i \in 1 .. Len(stack) - 2 PROVE ListBelow(stack'[i], stack'[i + 1])
      BY <2>1
    <3>2. i + 1 \in 1 .. Len(stack) - 1 /\ stack'[i] = stack[i] /\ i \in 1 .. Len(stack) - 1
      BY <2>1
    <3>3. ListBelow(stack[i], stack[i + 1])
      BY <3>2 DEF ListsKept
    <3>4. QED
      BY <2>1, <3>2, <3>3 DEF ListBelow
  <2>9. QED
    BY <2>7, <2>8 DEF ListsKept, ListOK, ListBelow
<1>3. QED
  BY <1>1, <1>2

LEMMA ListsStep ==
    ASSUME WellFormed, Typed, ListsKept, [Next]_vars
    PROVE  ListsKept'
<1>1. CASE UNCHANGED vars \/ Stays
  <2>1. stack' = stack
    BY <1>1 DEF vars, Stays
  <2>2. QED
    BY <2>1 DEF ListsKept, ListOK, ListBelow
<1>2. CASE process_next_event
  <2>1. PICK event : stack' = <<>> \/ stack' = <<EnterFrame(Top, event)>>
    BY <1>2, TypedFirst
  <2> DEFINE f == EnterFrame(Top, event)
  <2>2. DOMAIN f.todo = {}
    <3>1. DOMAIN <<>> = {}
      OBVIOUS
    <3>2. QED
      BY <3>1 DEF EnterFrame
  <2>3. stack' = <<>> \/ stack' = <<f>>
    BY <2>1
  <2> HIDE DEF f
  <2>4. Len(stack') = 0 \/ (Len(stack') = 1 /\ stack'[1] = f)
    BY <2>3
  <2>a. 1 .. 0 = {} /\ 1 .. 1 = {1} /\ 1 .. 0 - 1 = {} /\ 1 .. 1 - 1 = {}
    OBVIOUS
  <2>5. \A i \in 1 .. Len(stack') : i = 1 /\ stack'[i] = f
    BY <2>4, <2>a
  <2>6. 1 .. Len(stack') - 1 = {}
    BY <2>4, <2>a
  <2>7. ListOK(f)
    BY <2>2 DEF ListOK
  <2>8. \A i \in 1 .. Len(stack') : ListOK(stack'[i])
    BY <2>5, <2>7
  <2>9. QED
    BY <2>6, <2>8 DEF ListsKept, ListOK
<1>3. CASE Unwinds
  <2>1. /\ Len(stack) \in Nat /\ Len(stack) > 0
        /\ Len(stack') = Len(stack) - 1
        /\ \A i \in 1 .. Len(stack) - 1 : stack'[i] = stack[i]
    BY <1>3, UnwindStep
  <2>2. \A i \in 1 .. Len(stack') : i \in 1 .. Len(stack) /\ i \in 1 .. Len(stack) - 1
    BY <2>1
  <2>3. \A i \in 1 .. Len(stack') - 1 : i \in 1 .. Len(stack) - 1 /\ i + 1 \in 1 .. Len(stack) - 1
    BY <2>1
  <2>4. \A i \in 1 .. Len(stack') : ListOK(stack'[i])
    BY <2>1, <2>2 DEF ListsKept
  <2>5. \A i \in 1 .. Len(stack') - 1 : ListBelow(stack'[i], stack'[i + 1])
    BY <2>1, <2>3 DEF ListsKept
  <2>6. QED
    BY <2>4, <2>5 DEF ListsKept, ListOK, ListBelow
<1>4. QED
  BY <1>1, <1>2, <1>3, ListsGoOn, ListsCall, ListsFinish, StepKind DEF KindOfStep

-----------------------------------------------------------------------------
(* The life cycle of the nodes                                             *)

\* A node has one owner, which is below it on the stack.
LEMMA OneOwner ==
    ASSUME WellFormed, NEW c \in Owners, NEW m \in Owned(c)
    PROVE  /\ m # Top /\ m \notin Prototypes /\ m \in Nodes /\ c \in Nodes
           /\ \A d \in Owners : m \in Owned(d) => d = c
<1>1. c \in Nodes
  BY DEF WellFormed, Owners
<1>2. m \in Nodes
  BY <1>1, Kinds DEF Owners
<1>3. QED
  BY <1>1, <1>2 DEF WellFormed

LEMMA NotItsOwner ==
    ASSUME WellFormed, NEW c \in Owners, NEW m \in Owned(c)
    PROVE  c # m
<1>1. c \in Nodes
  BY OneOwner
<1>2. {c} \in (SUBSET Nodes) \ {{}}
  BY <1>1
<1>3. \A S \in (SUBSET Nodes) \ {{}} : \E n \in S : \A d \in Owners \cap S : n \notin Owned(d)
  BY DEF WellFormed
<1>4. c \notin Owned(c)
  <2>1. PICK n \in {c} : \A d \in Owners \cap {c} : n \notin Owned(d)
    BY <1>2, <1>3
  <2>2. QED
    BY <2>1
<1>5. QED
  BY <1>4

LEMMA OwnerOnStack ==
    ASSUME WellFormed, Typed, NEW c \in Owners, NEW m \in Owned(c),
           NEW i \in 1 .. Len(stack), stack[i].node = m
    PROVE  i - 1 \in 1 .. Len(stack) - 1 /\ stack[i - 1].node = c
<1>1. Len(stack) \in Nat
  BY LenProperties DEF Typed, StackOK
<1>2. stack # <<>>
  <2>1. stack = <<>> => Len(stack) = 0
    OBVIOUS
  <2>2. QED
    BY <1>1, <2>1
<1>3. i # 1
  BY <1>2, OneOwner DEF Typed, StackOK
<1>4. i - 1 \in 1 .. Len(stack) - 1 /\ (i - 1) + 1 = i
  BY <1>1, <1>3
<1>5. CalledBy(stack[i - 1], stack[i])
  BY <1>4 DEF Typed, StackOK
<1>6. QED
  BY <1>4, <1>5, OneOwner DEF CalledBy

\* Nothing that the running node owns has an event in progress.
LEMMA NothingAbove ==
    ASSUME WellFormed, Typed, stack # <<>>, Me \in Owners, NEW m \in Owned(Me)
    PROVE  m \notin OnStack
<1>1. Len(stack) \in Nat
  BY RunningFrame DEF Typed
<1>2. ASSUME NEW i \in 1 .. Len(stack), stack[i].node = m PROVE FALSE
  <2>1. i - 1 \in 1 .. Len(stack) - 1 /\ stack[i - 1].node = Me
    BY <1>2, OwnerOnStack
  <2>2. QED
    BY <2>1, RunningOnce
<1>3. QED
  BY <1>2 DEF OnStack

\* What has become of a node by the time of an event.
LifeOf(n, event) == (n \in initialized <=> event # "initialization") /\ n \notin finalized

\* A composite node that initializes or finalizes its components is done with m.
AtHand(c, m, event) ==
    \E i \in 1 .. Len(stack) :
        /\ stack[i].node = c /\ stack[i].event = event /\ stack[i].pc = "call"
        /\ \A k \in DOMAIN stack[i].todo : stack[i].todo[k].node # m
Done(c, m, event) == m \notin OnStack /\ AtHand(c, m, event)

\* On a path of nodes that nothing has broken, events come in order.
PathKept ==
    \A i \in 1 .. Len(stack) :
        (\A j \in 1 .. i : stack[j].node \notin broken) => LifeOf(stack[i].node, stack[i].event)

\* Components are initialized and finalized with their composite.
ComponentsKept ==
    \A c \in CompositeNodes \ broken : \A m \in Owned(c) \ broken :
        /\ m \in initialized <=> c \in initialized \/ Done(c, m, "initialization")
        /\ m \in finalized <=> c \in finalized \/ Done(c, m, "finalization")

\* An agent that is listed is alive, and so is one with an event planned; an
\* agent's events come in order even under a node that is broken.
AgentKept(a) ==
    /\ a \in registered => a \notin finalized /\ (a \in initialized \/ Processing(a, "initialization"))
    /\ a \in plans => a \in initialized /\ a \notin finalized
    /\ \A i \in 1 .. Len(stack) : stack[i].node = a => LifeOf(a, stack[i].event)
AgentsKept ==
    \A c \in Collections : \A a \in Owned(c) \ broken :
        /\ AgentKept(a)
        /\ \A i \in 1 .. Len(stack) : stack[i].node = c =>
              \A k \in DOMAIN stack[i].todo : stack[i].todo[k] = Step("planned", a) =>
                  a \in initialized /\ a \notin finalized

\* The top node goes through its events as the simulation does.
TopKept ==
    Top \notin broken =>
        IF stack = <<>>
        THEN /\ thrown = Nothing
             /\ Top \in initialized <=> status # "new"
             /\ Top \in finalized <=> status = "finished"
        ELSE status = IF stack[1].event = "finalization" THEN "finishing" ELSE "started"

LifeKept == PathKept /\ ComponentsKept /\ AgentsKept /\ TopKept

LEMMA LifeStays ==
    ASSUME WellFormed, Typed, LifeKept, Stays
    PROVE  LifeKept'
<1>1. /\ stack' = stack /\ stack # <<>>
      /\ initialized' = initialized /\ finalized' = finalized /\ plans' = plans /\ status' = status
      /\ broken \subseteq broken'
      /\ \A a : a \in registered' => a \in registered \/ a \in broken'
  BY DEF Stays, simVars
<1>2. \A n, event : LifeOf(n, event)' = LifeOf(n, event)
  BY <1>1 DEF LifeOf
<1>3. \A c, m, event : Done(c, m, event)' = Done(c, m, event)
  BY <1>1 DEF Done, AtHand, OnStack
<1>4. \A n, event : Processing(n, event)' = Processing(n, event)
  BY <1>1 DEF Processing
<1>5. PathKept'
  BY <1>1, <1>2 DEF LifeKept, PathKept
<1>6. ComponentsKept'
  BY <1>1, <1>3 DEF LifeKept, ComponentsKept
<1>7. AgentsKept'
  BY <1>1, <1>2, <1>4 DEF LifeKept, AgentsKept, AgentKept
<1>8. TopKept'
  BY <1>1 DEF LifeKept, TopKept
<1>9. QED
  BY <1>5, <1>6, <1>7, <1>8 DEF LifeKept

LEMMA LifeUnwinds ==
    ASSUME WellFormed, Typed, LifeKept, Unwinds
    PROVE  LifeKept'
<1>1. /\ stack # <<>> /\ Len(stack) \in Nat /\ Len(stack) > 0 /\ Running = stack[Len(stack)]
      /\ Len(stack') = Len(stack) - 1
      /\ \A i \in 1 .. Len(stack) - 1 : stack'[i] = stack[i]
      /\ broken' = broken \cup {Me} /\ StackOK'
  BY UnwindStep
<1>2. /\ initialized' = initialized /\ finalized' = finalized /\ plans' = plans
      /\ registered' = registered /\ status' = status
  BY DEF Unwinds, eventVars, simVars
<1>3. \A n, event : LifeOf(n, event)' = LifeOf(n, event)
  BY <1>2 DEF LifeOf
<1>4. \A i \in 1 .. Len(stack') : i \in 1 .. Len(stack) /\ stack'[i] = stack[i]
  BY <1>1
<1>5. \A i \in 1 .. Len(stack) : stack[i].node # Me =>
         i \in 1 .. Len(stack') /\ stack'[i] = stack[i]
  <2>1. \A i \in 1 .. Len(stack) : i = Len(stack) \/ i \in 1 .. Len(stack) - 1
    BY <1>1
  <2>2. QED
    BY <1>1, <2>1 DEF Me
<1>6. \A n \in Nodes : n # Me => \A event :
         /\ n \in OnStack' <=> n \in OnStack
         /\ Processing(n, event)' <=> Processing(n, event)
         /\ \A m : AtHand(n, m, event)' <=> AtHand(n, m, event)
  BY <1>4, <1>5 DEF OnStack, Processing, AtHand
<1>7. PathKept'
  <2>1. ASSUME NEW i \in 1 .. Len(stack'), \A j \in 1 .. i : stack'[j].node \notin broken'
        PROVE  (stack'[i].node \in initialized' <=> stack'[i].event # "initialization")
               /\ stack'[i].node \notin finalized'
    <3>1. \A j \in 1 .. i : j \in 1 .. Len(stack')
      BY <1>1
    <3>2. \A j \in 1 .. i : stack[j].node \notin broken
      BY <1>1, <1>4, <2>1, <3>1
    <3>3. LifeOf(stack[i].node, stack[i].event)
      BY <1>4, <3>2 DEF LifeKept, PathKept
    <3>4. QED
      BY <1>2, <1>4, <3>3 DEF LifeOf
  <2>2. QED
    BY <2>1 DEF PathKept, LifeOf
<1>8. ComponentsKept'
  <2>1. ASSUME NEW c \in CompositeNodes \ broken', NEW m \in Owned(c) \ broken'
        PROVE  /\ m \in initialized' <=> c \in initialized' \/ Done(c, m, "initialization")'
               /\ m \in finalized' <=> c \in finalized' \/ Done(c, m, "finalization")'
    <3>1. c # Me /\ m # Me /\ c \notin broken /\ m \notin broken /\ c \in Nodes /\ m \in Nodes
      BY <1>1, <2>1, OneOwner DEF Owners
    <3>2. \A event : Done(c, m, event)' <=> Done(c, m, event)
      BY <1>6, <3>1 DEF Done
    <3>3. QED
      BY <1>2, <2>1, <3>1, <3>2 DEF LifeKept, ComponentsKept
  <2>2. QED
    BY <2>1 DEF ComponentsKept
<1>9. AgentsKept'
  <2>1. ASSUME NEW c \in Collections, NEW a \in Owned(c) \ broken'
        PROVE  /\ AgentKept(a)'
               /\ \A i \in 1 .. Len(stack') : stack'[i].node = c =>
                    \A k \in DOMAIN stack'[i].todo : stack'[i].todo[k] = Step("planned", a) =>
                        a \in initialized' /\ a \notin finalized'
    <3>1. a # Me /\ a \notin broken /\ a \in Nodes
      BY <1>1, <2>1, OneOwner DEF Owners
    <3>2. /\ AgentKept(a)
          /\ \A i \in 1 .. Len(stack) : stack[i].node = c =>
               \A k \in DOMAIN stack[i].todo : stack[i].todo[k] = Step("planned", a) =>
                   a \in initialized /\ a \notin finalized
      BY <2>1, <3>1 DEF LifeKept, AgentsKept
    <3>3. AgentKept(a)'
      BY <1>2, <1>3, <1>4, <1>6, <3>1, <3>2 DEF AgentKept
    <3>4. QED
      BY <1>2, <1>4, <3>2, <3>3
  <2>2. QED
    BY <2>1 DEF AgentsKept
<1>10. TopKept'
  <2>1. CASE Len(stack) = 1
    <3>1. Me = Top
      BY <1>1, <2>1 DEF Typed, StackOK, Me
    <3>2. QED
      BY <1>1, <3>1 DEF TopKept
  <2>2. CASE Len(stack) # 1
    <3>1. Len(stack') > 0 /\ 1 \in 1 .. Len(stack')
      BY <1>1, <2>2
    <3>2. stack' # <<>>
      BY <3>1, EmptySeq
    <3>3. stack'[1] = stack[1]
      BY <1>4, <3>1
    <3>4. QED
      BY <1>1, <1>2, <3>2, <3>3 DEF LifeKept, TopKept
  <2>3. QED
    BY <2>1, <2>2
<1>11. QED
  BY <1>7, <1>8, <1>9, <1>10 DEF LifeKept

LEMMA AtHandGoesOn ==
    ASSUME WellFormed, Typed, NEW f, GoesOnTo(f), NEW c \in CompositeNodes, NEW m \in Owned(c),
           NEW event \in {"initialization", "finalization"}
    PROVE  AtHand(c, m, event)' <=> AtHand(c, m, event)
<1>1. /\ Len(stack') = Len(stack) /\ Len(stack) \in Nat /\ Len(stack) > 0 /\ stack # <<>>
      /\ Running = stack[Len(stack)] /\ Running.node = Me
      /\ stack'[Len(stack)] = f /\ f.node = Me /\ f.event = Running.event
      /\ \A i \in 1 .. Len(stack) - 1 : stack'[i] = stack[i]
  BY GoesOnToStep
<1> DEFINE Ready(g) == g.node = c /\ g.event = event /\ g.pc = "call"
                       /\ \A k \in DOMAIN g.todo : g.todo[k].node # m
<1>2. Ready(f) <=> Ready(Running)
  <2>1. CASE Me = c /\ Running.event = event
    <3>1. /\ FrameOK(Running) /\ Running.pc \in {"enter", "call"}
          /\ \A k \in DOMAIN Running.todo : Running.todo[k].do = event
      <4>1. FrameOK(Running)
        BY <1>1, RunningFrame DEF Typed
      <4>2. QED
        BY <1>1, <2>1, <4>1 DEF FrameOK, Within
    <3>2. c \notin Collections
      BY DEF WellFormed
    <3>3. f.todo \in ComponentSteps => \E k \in DOMAIN f.todo : f.todo[k].node = m
      BY <1>1, <2>1, ComponentList
    <3>4. Running.pc = "call" => f.pc = "call" /\ f.todo = Running.todo
      <4>1. ASSUME Running.pc = "call", Running.todo # <<>> PROVE Head(Running.todo).do = event
        BY <1>1, <3>1, <4>1, RestOfFrame DEF Typed
      <4>2. event \notin {"micro", "outward", "drain"}
        OBVIOUS
      <4>3. QED
        BY <2>1, <3>2, <4>1, <4>2 DEF GoesOnTo, ListedOn
    <3>5. Running.pc = "enter" => f.pc = "enter" \/ f.todo \in ComponentSteps
      BY <2>1 DEF GoesOnTo
    <3>6. Running.pc = "call" => (Ready(f) <=> Ready(Running))
      BY <1>1, <3>4
    <3>7. Running.pc = "enter" => ~Ready(f) /\ ~Ready(Running)
      BY <3>3, <3>5
    <3>8. QED
      BY <3>1, <3>6, <3>7
  <2>2. CASE ~(Me = c /\ Running.event = event)
    BY <1>1, <2>2
  <2>3. QED
    BY <2>1, <2>2
<1>3. \A i \in 1 .. Len(stack) : Ready(stack'[i]) <=> Ready(stack[i])
  <2>1. \A i \in 1 .. Len(stack) : i \in 1 .. Len(stack) - 1 \/ i = Len(stack)
    BY <1>1
  <2> HIDE DEF Ready
  <2>2. QED
    BY <1>1, <1>2, <2>1
<1>4. /\ AtHand(c, m, event) <=> \E i \in 1 .. Len(stack) : Ready(stack[i])
      /\ AtHand(c, m, event)' <=> \E i \in 1 .. Len(stack') : Ready(stack'[i])
  BY DEF AtHand
<1>5. QED
  BY <1>1, <1>3, <1>4

LEMMA LifeGoesOn ==
    ASSUME WellFormed, Typed, LifeKept, NEW f, GoesOnTo(f)
    PROVE  LifeKept'
<1>1. /\ Len(stack') = Len(stack) /\ Len(stack) \in Nat /\ Len(stack) > 0
      /\ stack # <<>> /\ stack' # <<>> /\ Running = stack[Len(stack)] /\ Running.node = Me
      /\ stack'[Len(stack)] = f /\ f.node = Me /\ f.event = Running.event
      /\ \A i \in 1 .. Len(stack) - 1 : stack'[i] = stack[i]
      /\ \A i \in 1 .. Len(stack) :
            stack'[i].node = stack[i].node /\ stack'[i].event = stack[i].event
  BY GoesOnToStep
<1>2. /\ initialized' = initialized /\ finalized' = finalized
      /\ registered' = registered /\ broken' = broken /\ status' = status
      /\ plans' = plans \/ \E finite : Me \in Collections /\ plans' = WithPlan(Prototype[Me], finite)
  BY DEF GoesOnTo, simVars
<1>3. \A n, event : LifeOf(n, event)' = LifeOf(n, event)
  BY <1>2 DEF LifeOf
<1>4. OnStack' = OnStack /\ \A n, event : Processing(n, event)' <=> Processing(n, event)
  BY <1>1 DEF OnStack, Processing
<1>5. PathKept'
  <2>1. ASSUME NEW i \in 1 .. Len(stack'), \A j \in 1 .. i : stack'[j].node \notin broken'
        PROVE  (stack'[i].node \in initialized' <=> stack'[i].event # "initialization")
               /\ stack'[i].node \notin finalized'
    <3>1. i \in 1 .. Len(stack) /\ \A j \in 1 .. i : j \in 1 .. Len(stack)
      BY <1>1
    <3>2. \A j \in 1 .. i : stack[j].node \notin broken
      BY <1>1, <1>2, <2>1, <3>1
    <3>3. LifeOf(stack[i].node, stack[i].event)
      BY <3>1, <3>2 DEF LifeKept, PathKept
    <3>4. QED
      BY <1>1, <1>2, <3>1, <3>3 DEF LifeOf
  <2>2. QED
    BY <2>1 DEF PathKept, LifeOf
<1>6. ComponentsKept'
  <2>1. ASSUME NEW c \in CompositeNodes \ broken', NEW m \in Owned(c) \ broken'
        PROVE  /\ m \in initialized' <=> c \in initialized' \/ Done(c, m, "initialization")'
               /\ m \in finalized' <=> c \in finalized' \/ Done(c, m, "finalization")'
    <3>1. \A event \in {"initialization", "finalization"} :
             Done(c, m, event)' <=> Done(c, m, event)
      BY <1>4, AtHandGoesOn DEF Done
    <3>2. QED
      BY <1>2, <2>1, <3>1 DEF LifeKept, ComponentsKept
  <2>2. QED
    BY <2>1 DEF ComponentsKept
<1>7. AgentsKept'
  <2>1. ASSUME NEW c \in Collections, NEW a \in Owned(c) \ broken'
        PROVE  /\ AgentKept(a)'
               /\ \A i \in 1 .. Len(stack') : stack'[i].node = c =>
                    \A k \in DOMAIN stack'[i].todo : stack'[i].todo[k] = Step("planned", a) =>
                        a \in initialized' /\ a \notin finalized'
    <3>1. /\ AgentKept(a)
          /\ \A i \in 1 .. Len(stack) : stack[i].node = c =>
               \A k \in DOMAIN stack[i].todo : stack[i].todo[k] = Step("planned", a) =>
                   a \in initialized /\ a \notin finalized
      BY <1>2, <2>1 DEF LifeKept, AgentsKept
    <3>2. a \in plans' => a \in plans
      <4>1. a \notin Prototypes
        BY OneOwner DEF Owners
      <4>2. Me \in Collections => a # Prototype[Me]
        BY <4>1 DEF Prototypes
      <4>3. QED
        BY <1>2, <4>2 DEF WithPlan
    <3>3. AgentKept(a)'
      BY <1>1, <1>2, <1>3, <1>4, <3>1, <3>2 DEF AgentKept
    <3>4. ASSUME Me = c, NEW k \in DOMAIN f.todo, f.todo[k] = Step("planned", a)
          PROVE  a \in initialized /\ a \notin finalized
      <4>1. Len(stack) \in 1 .. Len(stack)
        BY <1>1
      <4>2. \A j \in DOMAIN Running.todo : Running.todo[j] = Step("planned", a) =>
               a \in initialized /\ a \notin finalized
        BY <1>1, <3>1, <3>4, <4>1
      <4>3. CASE f.todo = Running.todo
        BY <3>4, <4>2, <4>3
      <4>4. CASE Running.todo # <<>> /\ f.todo = Tail(Running.todo)
        <5>1. k + 1 \in DOMAIN Running.todo /\ f.todo[k] = Running.todo[k + 1]
          BY <1>1, <3>4, <4>4, RestOfFrame DEF Typed
        <5>2. QED
          BY <3>4, <4>2, <5>1
      <4>5. CASE Me \in CompositeNodes
        BY <3>4, <4>5 DEF WellFormed
      <4>6. CASE \E b \in plans : f.todo = <<Step("planned", b)>>
        <5>1. PICK b \in plans : f.todo = <<Step("planned", b)>>
          BY <4>6
        <5>2. DOMAIN <<Step("planned", b)>> = {1} /\ <<Step("planned", b)>>[1] = Step("planned", b)
          OBVIOUS
        <5>3. f.todo[k] = Step("planned", b)
          BY <3>4, <5>1, <5>2
        <5>4. a = b
          BY <3>4, <5>3 DEF Step
        <5>5. QED
          BY <3>1, <5>1, <5>4 DEF AgentKept
      <4>7. QED
        BY <4>3, <4>4, <4>5, <4>6 DEF GoesOnTo, ListedOn
    <3>5. ASSUME NEW i \in 1 .. Len(stack'), stack'[i].node = c,
                 NEW k \in DOMAIN stack'[i].todo, stack'[i].todo[k] = Step("planned", a)
          PROVE  a \in initialized /\ a \notin finalized
      <4>1. i \in 1 .. Len(stack) /\ (i \in 1 .. Len(stack) - 1 \/ i = Len(stack))
        BY <1>1
      <4>2. CASE i = Len(stack)
        BY <1>1, <3>4, <3>5, <4>2
      <4>3. CASE i \in 1 .. Len(stack) - 1
        BY <1>1, <3>1, <3>5, <4>1, <4>3
      <4>4. QED
        BY <4>1, <4>2, <4>3
    <3>6. QED
      BY <1>2, <3>3, <3>5
  <2>2. QED
    BY <2>1 DEF AgentsKept
<1>8. TopKept'
  <2>1. 1 \in 1 .. Len(stack)
    BY <1>1
  <2>2. QED
    BY <1>1, <1>2, <2>1 DEF LifeKept, TopKept
<1>9. QED
  BY <1>5, <1>6, <1>7, <1>8 DEF LifeKept

\* The frame that calls has what it calls at the head of its list, and then
\* no longer.
LEMMA DoneCalled ==
    ASSUME WellFormed, Typed, NEW n, NEW event, NEW f, NEW s, Called(n, event, f, s),
           NEW c \in CompositeNodes, NEW m \in Owned(c),
           NEW e \in {"initialization", "finalization"}
    PROVE  /\ Done(c, m, e)' <=> Done(c, m, e)
           /\ m = n => ~Done(c, m, e)
<1>1. /\ Len(stack') = Len(stack) + 1 /\ Len(stack) \in Nat /\ Len(stack) > 0
      /\ stack # <<>> /\ Running = stack[Len(stack)] /\ Running.node = Me
      /\ stack'[Len(stack)] = f /\ stack'[Len(stack) + 1] = EnterFrame(n, event)
      /\ f.node = Me /\ f.event = Running.event /\ f.pc = Running.pc
      /\ \A i \in 1 .. Len(stack) - 1 : stack'[i] = stack[i]
      /\ \A i \in 1 .. Len(stack) :
            stack'[i].node = stack[i].node /\ stack'[i].event = stack[i].event
      /\ n \in Owned(Me) /\ Me \in Owners
  BY CalledStep
<1>2. n \notin OnStack
  BY CalledNew
<1> DEFINE g == EnterFrame(n, event)
           Ready(h) == h.node = c /\ h.event = e /\ h.pc = "call"
                       /\ \A k \in DOMAIN h.todo : h.todo[k].node # m
<1>3. g.node = n /\ ~Ready(g)
  BY DEF EnterFrame
<1>4. Me = c => /\ f.todo = Tail(Running.todo) /\ Running.todo # <<>>
                /\ Head(Running.todo).node = n
  <2>1. Me = c => Me \notin Collections
    BY DEF WellFormed
  <2>2. Me = c => f = Rest /\ Running.todo # <<>> /\ Head(Running.todo) = Step(event, n)
    BY <2>1 DEF Called
  <2>3. Me = c => f.todo = Tail(Running.todo)
    BY <1>1, <2>2, RestOfFrame DEF Typed
  <2>4. QED
    BY <2>2, <2>3 DEF Step
<1>5. m # n => (Ready(f) <=> Ready(Running))
  <2>1. CASE Me = c
    <3> DEFINE t == Running.todo
    <3>1. /\ t[1].node = n /\ 1 \in DOMAIN t /\ DOMAIN t = 1 .. Len(t)
          /\ DOMAIN f.todo = 1 .. Len(t) - 1
          /\ \A k \in DOMAIN f.todo : k + 1 \in DOMAIN t /\ f.todo[k] = t[k + 1]
          /\ Len(t) \in Nat
      BY <1>1, <1>4, <2>1, RestOfFrame, LenProperties DEF Typed
    <3> HIDE DEF t
    <3>2. ASSUME m # n, NEW k \in DOMAIN t, t[k].node = m
          PROVE  \E j \in DOMAIN f.todo : f.todo[j].node = m
      <4>1. k # 1
        BY <3>1, <3>2
      <4>2. k - 1 \in DOMAIN f.todo /\ (k - 1) + 1 = k
        BY <3>1, <4>1
      <4>3. QED
        BY <3>1, <3>2, <4>2
    <3>3. m # n => ((\A k \in DOMAIN f.todo : f.todo[k].node # m)
                       <=> (\A k \in DOMAIN t : t[k].node # m))
      BY <3>1, <3>2
    <3>4. QED
      BY <1>1, <3>3 DEF t
  <2>2. CASE Me # c
    BY <1>1, <2>2
  <2>3. QED
    BY <2>1, <2>2
<1>6. /\ AtHand(c, m, e) <=> \E i \in 1 .. Len(stack) : Ready(stack[i])
      /\ AtHand(c, m, e)' <=> \E i \in 1 .. Len(stack') : Ready(stack'[i])
  BY DEF AtHand
<1>7. \A i \in 1 .. Len(stack') : i \in 1 .. Len(stack) - 1 \/ i = Len(stack) \/ i = Len(stack) + 1
  BY <1>1
<1>8. \A i \in 1 .. Len(stack) : i \in 1 .. Len(stack) - 1 \/ i = Len(stack)
  BY <1>1
<1>9. \A i \in 1 .. Len(stack) : i \in 1 .. Len(stack')
  BY <1>1
<1>10. Len(stack) + 1 \in 1 .. Len(stack') /\ Len(stack) \in 1 .. Len(stack)
  BY <1>1
<1>11. CASE m = n
  <2>1. c = Me
    BY <1>1, <1>11, OneOwner DEF Owners
  <2>2. \A i \in 1 .. Len(stack) - 1 : stack[i].node # Me
    BY <1>1, RunningOnce
  <2>3. ~Ready(Running)
    <3>1. 1 \in DOMAIN Running.todo /\ Running.todo[1].node = n
      BY <1>1, <1>4, <2>1, RestOfFrame DEF Typed
    <3>2. QED
      BY <1>11, <3>1
  <2>4. ~AtHand(c, m, e)
    <3>1. \A i \in 1 .. Len(stack) : ~Ready(stack[i])
      BY <1>1, <1>8, <2>1, <2>2, <2>3
    <3>2. QED
      BY <1>6, <3>1
  <2>5. m \in OnStack'
    BY <1>1, <1>3, <1>10, <1>11 DEF OnStack
  <2>6. QED
    BY <2>4, <2>5 DEF Done
<1>12. CASE m # n
  <2>1. m \in OnStack' <=> m \in OnStack
    <3>1. m \in OnStack => m \in OnStack'
      BY <1>1, <1>9 DEF OnStack
    <3>2. m \in OnStack' => m \in OnStack
      <4>1. \A i \in 1 .. Len(stack') : i \in 1 .. Len(stack) \/ i = Len(stack) + 1
        BY <1>1
      <4>2. QED
        BY <1>1, <1>3, <1>12, <4>1 DEF OnStack
    <3>3. QED
      BY <3>1, <3>2
  <2>2. AtHand(c, m, e)' <=> AtHand(c, m, e)
    <3> HIDE DEF Ready, g
    <3>1. \A i \in 1 .. Len(stack') : Ready(stack'[i]) => \E j \in 1 .. Len(stack) : Ready(stack[j])
      BY <1>1, <1>3, <1>5, <1>7, <1>8, <1>10, <1>12 DEF g
    <3>2. \A i \in 1 .. Len(stack) : Ready(stack[i]) => Ready(stack'[i])
      BY <1>1, <1>5, <1>8, <1>12
    <3>3. QED
      BY <1>6, <1>9, <3>1, <3>2
  <2>3. QED
    BY <1>12, <2>1, <2>2 DEF Done
<1>13. QED
  BY <1>11, <1>12

\* A node is handed an event of its turn.
LEMMA CalledInTurn ==
    ASSUME WellFormed, Typed, LifeKept, NEW n, NEW event, NEW f, NEW s, Called(n, event, f, s),
           n \notin broken,
           Me \in Collections \/ \A i \in 1 .. Len(stack) : stack[i].node \notin broken
    PROVE  LifeOf(n, event)
<1>1. /\ Len(stack) \in Nat /\ Len(stack) > 0
      /\ stack # <<>> /\ Running = stack[Len(stack)] /\ Running.node = Me
      /\ f.node = Me /\ f.event = Running.event
      /\ n \in Owned(Me) /\ Me \in Owners /\ CalledBy(f, EnterFrame(n, event))
      /\ event \in EventNames
  BY CalledStep
<1>2. Len(stack) \in 1 .. Len(stack)
  BY <1>1
<1>3. CASE Me \in CompositeNodes
  <2>1. Me \notin Collections
    BY <1>3 DEF WellFormed
  <2>2. LifeOf(Me, Running.event) /\ Me \notin broken
    BY <1>1, <1>2, <2>1 DEF LifeKept, PathKept
  <2>3. ~Done(Me, n, "initialization") /\ ~Done(Me, n, "finalization")
    BY <1>1, <1>3, DoneCalled
  <2>4. (n \in initialized <=> Me \in initialized) /\ (n \in finalized <=> Me \in finalized)
    BY <1>1, <1>3, <2>2, <2>3 DEF LifeKept, ComponentsKept
  <2>5. event \in Within(Running.event)
    BY <1>1, <1>3 DEF CalledBy, EnterFrame
  <2>6. event = "initialization" <=> Running.event = "initialization"
    BY <1>1, <2>5 DEF Within, EventNames
  <2>7. QED
    BY <2>2, <2>4, <2>6 DEF LifeOf
<1>4. CASE Me \in Collections
  <2>1. /\ AgentKept(n)
        /\ \A k \in DOMAIN Running.todo : Running.todo[k] = Step("planned", n) =>
              n \in initialized /\ n \notin finalized
    BY <1>1, <1>2, <1>4 DEF LifeKept, AgentsKept
  <2>2. CASE f = Rest /\ Running.todo # <<>> /\ Head(Running.todo) = Step(event, n)
    <3>1. 1 \in DOMAIN Running.todo /\ Running.todo[1] = Step(event, n)
      BY <1>1, <2>2, RestOfFrame DEF Typed
    <3>2. FrameOK(Running)
      BY <1>1, RunningFrame DEF Typed
    <3>3. Step(event, n).do \in {"planned", "micro", "drain"}
      BY <1>1, <1>4, <3>1, <3>2 DEF FrameOK
    <3>4. event = "planned"
      BY <1>1, <3>3 DEF Step, EventNames
    <3>5. QED
      BY <2>1, <3>1, <3>4 DEF LifeOf
  <2>3. CASE event = "initialization" /\ n \notin initialized \cup finalized
    BY <2>3 DEF LifeOf
  <2>4. CASE event \in {"unplanned", "finalization"} /\ n \in registered
    <3>1. ~Processing(n, "initialization")
      BY CalledNew DEF Processing, OnStack
    <3>2. QED
      BY <2>1, <2>4, <3>1 DEF AgentKept, LifeOf
  <2>5. QED
    BY <2>2, <2>3, <2>4 DEF Called
<1>5. QED
  BY <1>1, <1>3, <1>4 DEF Owners

LEMMA LifeCalls ==
    ASSUME WellFormed, Typed, LifeKept, NEW n, NEW event, NEW f, NEW s, Called(n, event, f, s)
    PROVE  LifeKept'
<1> DEFINE g == EnterFrame(n, event)
<1>1. /\ Len(stack') = Len(stack) + 1 /\ Len(stack) \in Nat /\ Len(stack) > 0
      /\ stack # <<>> /\ stack' # <<>> /\ Running = stack[Len(stack)] /\ Running.node = Me
      /\ stack'[Len(stack)] = f /\ stack'[Len(stack) + 1] = g
      /\ f.node = Me /\ f.event = Running.event
      /\ \A i \in 1 .. Len(stack) - 1 : stack'[i] = stack[i]
      /\ \A i \in 1 .. Len(stack) :
            stack'[i].node = stack[i].node /\ stack'[i].event = stack[i].event
      /\ n \in Owned(Me) /\ Me \in Owners /\ n \in Nodes
      /\ UNCHANGED <<initialized, finalized, plans, broken, told, simVars>>
  BY CalledStep
<1>2. g.node = n /\ g.event = event /\ DOMAIN g.todo = {}
  BY DEF EnterFrame
<1> HIDE DEF g
<1>3. \A m, e : LifeOf(m, e)' = LifeOf(m, e)
  BY <1>1 DEF LifeOf
<1>4. /\ \A i \in 1 .. Len(stack') : i \in 1 .. Len(stack) \/ i = Len(stack) + 1
      /\ \A i \in 1 .. Len(stack) : i \in 1 .. Len(stack')
      /\ \A i \in 1 .. Len(stack) : i \in 1 .. Len(stack) - 1 \/ i = Len(stack)
      /\ Len(stack) + 1 \in 1 .. Len(stack') /\ Len(stack) \in 1 .. Len(stack)
  BY <1>1
<1>5. /\ \A m, e : Processing(m, e) => Processing(m, e)'
      /\ Processing(n, event)'
      /\ \A m \in OnStack : m # n
  BY <1>1, <1>2, <1>4, CalledNew DEF Processing
<1>6. PathKept'
  <2>1. ASSUME NEW i \in 1 .. Len(stack'), \A j \in 1 .. i : stack'[j].node \notin broken'
        PROVE  (stack'[i].node \in initialized' <=> stack'[i].event # "initialization")
               /\ stack'[i].node \notin finalized'
    <3>1. CASE i \in 1 .. Len(stack)
      <4>1. \A j \in 1 .. i : j \in 1 .. Len(stack)
        BY <1>1, <3>1
      <4>2. \A j \in 1 .. i : stack[j].node \notin broken
        BY <1>1, <2>1, <4>1
      <4>3. LifeOf(stack[i].node, stack[i].event)
        BY <3>1, <4>2 DEF LifeKept, PathKept
      <4>4. QED
        BY <1>1, <3>1, <4>3 DEF LifeOf
    <3>2. CASE i = Len(stack) + 1
      <4>1. \A j \in 1 .. Len(stack) : j \in 1 .. i
        BY <3>2, <1>1
      <4>2. \A j \in 1 .. Len(stack) : stack[j].node \notin broken
        BY <1>1, <2>1, <4>1
      <4>3. i \in 1 .. i
        BY <3>2, <1>1
      <4>4. n \notin broken
        BY <1>1, <1>2, <2>1, <3>2, <4>3
      <4>5. LifeOf(n, event)
        BY <4>2, <4>4, CalledInTurn
      <4>6. QED
        BY <1>1, <1>2, <3>2, <4>5 DEF LifeOf
    <3>3. QED
      BY <1>4, <3>1, <3>2
  <2>2. QED
    BY <2>1 DEF PathKept, LifeOf
<1>7. ComponentsKept'
  <2>1. ASSUME NEW c \in CompositeNodes \ broken', NEW m \in Owned(c) \ broken'
        PROVE  /\ m \in initialized' <=> c \in initialized' \/ Done(c, m, "initialization")'
               /\ m \in finalized' <=> c \in finalized' \/ Done(c, m, "finalization")'
    <3>1. \A e \in {"initialization", "finalization"} : Done(c, m, e)' <=> Done(c, m, e)
      BY DoneCalled
    <3>2. QED
      BY <1>1, <2>1, <3>1 DEF LifeKept, ComponentsKept
  <2>2. QED
    BY <2>1 DEF ComponentsKept
<1>8. AgentsKept'
  <2>1. ASSUME NEW c \in Collections, NEW a \in Owned(c) \ broken'
        PROVE  /\ AgentKept(a)'
               /\ \A i \in 1 .. Len(stack') : stack'[i].node = c =>
                    \A k \in DOMAIN stack'[i].todo : stack'[i].todo[k] = Step("planned", a) =>
                        a \in initialized' /\ a \notin finalized'
    <3>1. /\ AgentKept(a)
          /\ \A i \in 1 .. Len(stack) : stack[i].node = c =>
               \A k \in DOMAIN stack[i].todo : stack[i].todo[k] = Step("planned", a) =>
                   a \in initialized /\ a \notin finalized
      BY <1>1, <2>1 DEF LifeKept, AgentsKept
    <3>2. a = n => LifeOf(n, event)
      <4>1. a = n => Me = c
        BY <1>1, OneOwner DEF Owners
      <4>2. QED
        BY <1>1, <2>1, <4>1, CalledInTurn
    <3>3. a \in registered' => a \notin finalized' /\ (a \in initialized' \/ Processing(a, "initialization")')
      <4>1. CASE registered' = registered
        BY <1>1, <1>5, <3>1, <4>1 DEF AgentKept
      <4>2. CASE registered' = registered \cup {n} /\ event = "initialization"
                 /\ n \notin initialized \cup finalized
        BY <1>1, <1>5, <3>1, <4>2 DEF AgentKept
      <4>3. QED
        BY <4>1, <4>2 DEF Called
    <3>4. ASSUME NEW i \in 1 .. Len(stack'), stack'[i].node = a
          PROVE  /\ a \in initialized' <=> stack'[i].event # "initialization"
                 /\ a \notin finalized'
      <4>1. CASE i = Len(stack) + 1
        BY <1>1, <1>2, <3>2, <3>4, <4>1 DEF LifeOf
      <4>2. CASE i \in 1 .. Len(stack)
        BY <1>1, <3>1, <3>4, <4>2 DEF AgentKept, LifeOf
      <4>3. QED
        BY <1>4, <4>1, <4>2
    <3>5. AgentKept(a)'
      BY <1>1, <3>1, <3>3, <3>4 DEF AgentKept, LifeOf
    <3>6. ASSUME NEW k \in DOMAIN f.todo, f.todo[k] = Step("planned", a), Me = c
          PROVE  a \in initialized /\ a \notin finalized
      <4>1. \A j \in DOMAIN Running.todo : Running.todo[j] = Step("planned", a) =>
               a \in initialized /\ a \notin finalized
        BY <1>1, <1>4, <3>1, <3>6
      <4>2. CASE f = Running
        BY <3>6, <4>1, <4>2
      <4>3. CASE f = Rest /\ Running.todo # <<>>
        <5>1. f.todo = Tail(Running.todo)
          BY <1>1, <4>3, RestOfFrame DEF Typed
        <5>2. k + 1 \in DOMAIN Running.todo /\ f.todo[k] = Running.todo[k + 1]
          BY <1>1, <3>6, <4>3, <5>1, RestOfFrame DEF Typed
        <5>3. QED
          BY <3>6, <4>1, <5>2
      <4>4. QED
        BY <4>2, <4>3 DEF Called
    <3>7. ASSUME NEW i \in 1 .. Len(stack'), stack'[i].node = c,
                 NEW k \in DOMAIN stack'[i].todo, stack'[i].todo[k] = Step("planned", a)
          PROVE  a \in initialized /\ a \notin finalized
      <4>1. CASE i = Len(stack) + 1
        BY <1>1, <1>2, <3>7, <4>1
      <4>2. CASE i = Len(stack)
        BY <1>1, <3>6, <3>7, <4>2
      <4>3. CASE i \in 1 .. Len(stack) - 1
        BY <1>1, <1>4, <3>1, <3>7, <4>3
      <4>4. QED
        BY <1>4, <4>1, <4>2, <4>3
    <3>8. QED
      BY <1>1, <3>5, <3>7
  <2>2. QED
    BY <2>1 DEF AgentsKept
<1>9. TopKept'
  <2>1. 1 \in 1 .. Len(stack)
    BY <1>1
  <2>2. status' = status
    BY <1>1 DEF simVars
  <2>3. QED
    BY <1>1, <2>1, <2>2 DEF LifeKept, TopKept
<1>10. QED
  BY <1>6, <1>7, <1>8, <1>9 DEF LifeKept

\* A composite that ends its initialization or finalization is done with all
\* its components; in any other event it is done with none.
LEMMA DoneAtEnd ==
    ASSUME WellFormed, Typed, NEW finite, Finished(finite),
           Me \in CompositeNodes, NEW m \in Owned(Me), NEW e \in {"initialization", "finalization"}
    PROVE  Done(Me, m, e) <=> Running.event = e
<1>1. /\ stack # <<>> /\ Len(stack) \in Nat /\ Len(stack) > 0 /\ Running = stack[Len(stack)]
      /\ Running.pc = "call" /\ Running.todo = <<>> /\ Running.node = Me
  BY RunningFrame DEF Finished, Typed, Me
<1>2. m \notin OnStack
  BY <1>1, NothingAbove DEF Owners
<1>3. \A i \in 1 .. Len(stack) : stack[i].node = Me => i = Len(stack)
  <2>1. \A i \in 1 .. Len(stack) : i \in 1 .. Len(stack) - 1 \/ i = Len(stack)
    BY <1>1
  <2>2. QED
    BY <1>1, <2>1, RunningOnce
<1>4. Len(stack) \in 1 .. Len(stack)
  BY <1>1
<1>5. DOMAIN Running.todo = {}
  BY <1>1
<1>6. AtHand(Me, m, e) <=> Running.event = e
  BY <1>1, <1>3, <1>4, <1>5 DEF AtHand
<1>7. QED
  BY <1>2, <1>6 DEF Done

LEMMA LifeFinishTop ==
    ASSUME WellFormed, Typed, LifeKept, NEW finite, Finished(finite), Len(stack) = 1
    PROVE  LifeKept'
<1>1. /\ Me = Top /\ Running = stack[1] /\ stack' = <<>> /\ thrown' = Nothing
      /\ IF Running.event = "finalization" THEN status' = "finished" /\ plans' = plans
         ELSE status' \in {"started", "finishing"} /\ plans' = WithPlan(Top, finite)
      /\ initialized' = IF Running.event = "initialization" THEN initialized \cup {Top}
                        ELSE initialized
      /\ finalized' = IF Running.event = "finalization" THEN finalized \cup {Top}
                      ELSE finalized
      /\ registered' = registered /\ broken' = broken
  BY TopFinished
<1>2. 1 .. Len(stack') = {} /\ 1 .. Len(stack) = {1} /\ 1 .. 1 = {1}
  BY <1>1
<1>3. /\ \A n : n \in OnStack <=> n = Top
      /\ \A n, event : Processing(n, event) => n = Top
      /\ \A c, m, event : ~Done(c, m, event)'
      /\ \A c, m, event : Done(c, m, event) => c = Top
  BY <1>1, <1>2 DEF OnStack, Processing, Done, AtHand, Me
<1>4. PathKept'
  BY <1>2 DEF PathKept
<1>5. ComponentsKept'
  <2>1. ASSUME NEW c \in CompositeNodes \ broken', NEW m \in Owned(c) \ broken'
        PROVE  /\ m \in initialized' <=> c \in initialized' \/ Done(c, m, "initialization")'
               /\ m \in finalized' <=> c \in finalized' \/ Done(c, m, "finalization")'
    <3>1. m # Top
      BY OneOwner DEF Owners
    <3>2. /\ m \in initialized <=> c \in initialized \/ Done(c, m, "initialization")
          /\ m \in finalized <=> c \in finalized \/ Done(c, m, "finalization")
      BY <1>1 DEF LifeKept, ComponentsKept
    <3>3. c = Top => /\ Done(c, m, "initialization") <=> Running.event = "initialization"
                     /\ Done(c, m, "finalization") <=> Running.event = "finalization"
      BY <1>1, DoneAtEnd
    <3>4. m \in initialized' <=> c \in initialized'
      BY <1>1, <1>3, <3>1, <3>2, <3>3
    <3>5. m \in finalized' <=> c \in finalized'
      BY <1>1, <1>3, <3>1, <3>2, <3>3
    <3>6. QED
      BY <1>3, <3>4, <3>5
  <2>2. QED
    BY <2>1 DEF ComponentsKept
<1>6. AgentsKept'
  <2>1. ASSUME NEW c \in Collections, NEW a \in Owned(c) \ broken'
        PROVE  AgentKept(a)'
    <3>1. a # Top
      BY OneOwner DEF Owners
    <3>2. AgentKept(a)
      BY <1>1, <2>1 DEF LifeKept, AgentsKept
    <3>3. a \in plans' => a \in plans
      BY <1>1, <3>1 DEF WithPlan
    <3>4. (a \in initialized' <=> a \in initialized) /\ (a \in finalized' <=> a \in finalized)
      BY <1>1, <3>1
    <3>5. ~Processing(a, "initialization")
      BY <1>3, <3>1
    <3>6. QED
      BY <1>1, <1>2, <3>2, <3>3, <3>4, <3>5 DEF AgentKept
  <2>2. QED
    BY <1>2, <2>1 DEF AgentsKept
<1>7. TopKept'
  <2>1. ASSUME Top \notin broken
        PROVE  /\ Top \in initialized' <=> status' # "new"
               /\ Top \in finalized' <=> status' = "finished"
    <3>1. LifeOf(Top, Running.event)
      BY <1>1, <1>2, <2>1 DEF LifeKept, PathKept, Me
    <3>2. Top \in initialized'
      BY <1>1, <3>1 DEF LifeOf
    <3>3. status' # "new"
      BY <1>1
    <3>4. Top \in finalized' <=> status' = "finished"
      BY <1>1, <3>1 DEF LifeOf
    <3>5. QED
      BY <3>2, <3>3, <3>4
  <2>2. QED
    BY <1>1, <2>1 DEF TopKept
<1>8. QED
  BY <1>4, <1>5, <1>6, <1>7 DEF LifeKept

\* The stack once a component's event is over: nobody but its owner and the
\* component notices.
LEMMA AfterComponent ==
    ASSUME WellFormed, Typed, NEW finite, Finished(finite), Len(stack) # 1
    PROVE  /\ \A n : n \in OnStack' <=> n \in OnStack /\ n # Me
           /\ \A n, event : n # Me => (Processing(n, event)' <=> Processing(n, event))
           /\ \A c, m : \A e \in {"initialization", "finalization"} :
                 c # Me => (AtHand(c, m, e)' <=> AtHand(c, m, e))
<1>1. /\ Len(stack) \in Nat /\ Len(stack) > 1 /\ Len(stack') = Len(stack) - 1
      /\ stack # <<>> /\ Running = stack[Len(stack)] /\ Running.node = Me
      /\ stack'[Len(stack) - 1] = AfterEvent
      /\ \A i \in 1 .. Len(stack) - 2 : stack'[i] = stack[i]
      /\ \A i \in 1 .. Len(stack) - 1 :
            stack'[i].node = stack[i].node /\ stack'[i].event = stack[i].event
  BY ComponentFinished
<1>2. /\ \A i \in 1 .. Len(stack') : i \in 1 .. Len(stack) /\ i \in 1 .. Len(stack) - 1
      /\ \A i \in 1 .. Len(stack) : i \in 1 .. Len(stack') \/ i = Len(stack)
      /\ \A i \in 1 .. Len(stack') : i \in 1 .. Len(stack) - 2 \/ i = Len(stack) - 1
      /\ Len(stack) - 1 \in 1 .. Len(stack')
  BY <1>1
<1>3. \A i \in 1 .. Len(stack) - 1 : stack[i].node # Me
  BY <1>1, RunningOnce
<1>4. \A n : n \in OnStack' <=> n \in OnStack /\ n # Me
  <2>1. \A i \in 1 .. Len(stack') : stack'[i].node = stack[i].node /\ stack[i].node # Me
    BY <1>1, <1>2, <1>3
  <2>2. \A n : n \in OnStack' => n \in OnStack /\ n # Me
    BY <1>2, <2>1 DEF OnStack
  <2>3. ASSUME NEW i \in 1 .. Len(stack), stack[i].node # Me
        PROVE  stack[i].node \in OnStack'
    <3>1. i \in 1 .. Len(stack')
      BY <1>1, <1>2, <2>3
    <3>2. QED
      BY <2>1, <3>1 DEF OnStack
  <2>4. \A n : n \in OnStack /\ n # Me => n \in OnStack'
    BY <2>3 DEF OnStack
  <2>5. QED
    BY <2>2, <2>4
<1>5. ASSUME NEW n, NEW event, n # Me
      PROVE  Processing(n, event)' <=> Processing(n, event)
  <2>1. \A i \in 1 .. Len(stack') :
           stack'[i].node = stack[i].node /\ stack'[i].event = stack[i].event
    BY <1>1, <1>2
  <2>2. Processing(n, event)' => Processing(n, event)
    BY <1>2, <2>1 DEF Processing
  <2>3. ASSUME NEW i \in 1 .. Len(stack), stack[i].node = n PROVE i \in 1 .. Len(stack')
    BY <1>1, <1>2, <1>5, <2>3
  <2>4. Processing(n, event) => Processing(n, event)'
    BY <2>1, <2>3 DEF Processing
  <2>5. QED
    BY <2>2, <2>4
<1>6. ASSUME NEW c, NEW m, NEW e \in {"initialization", "finalization"}, c # Me
      PROVE  AtHand(c, m, e)' <=> AtHand(c, m, e)
  <2> DEFINE Ready(h) == h.node = c /\ h.event = e /\ h.pc = "call"
                         /\ \A k \in DOMAIN h.todo : h.todo[k].node # m
  <2>1. Ready(AfterEvent) <=> Ready(Below)
    <3>1. /\ AfterEvent.event = Below.event
          /\ Running.event # "planned" => AfterEvent = Below
      BY <1>1, AfterEventList
    <3>2. Running.event = "planned" => Below.event = "planned"
      BY <1>1, OwnerBelow
    <3>3. QED
      BY <3>1, <3>2
  <2>2. /\ AtHand(c, m, e) <=> \E i \in 1 .. Len(stack) : Ready(stack[i])
        /\ AtHand(c, m, e)' <=> \E i \in 1 .. Len(stack') : Ready(stack'[i])
    BY DEF AtHand
  <2>3. ~Ready(stack[Len(stack)])
    BY <1>1, <1>6
  <2> HIDE DEF Ready
  <2>4. \A i \in 1 .. Len(stack') : Ready(stack'[i]) <=> Ready(stack[i])
    BY <1>1, <1>2, <2>1 DEF Below
  <2>5. QED
    BY <1>2, <2>2, <2>3, <2>4
<1>7. QED
  BY <1>4, <1>5, <1>6

LEMMA ComponentsFinish ==
    ASSUME WellFormed, Typed, ListsKept, LifeKept, NEW finite, Finished(finite), Len(stack) # 1
    PROVE  ComponentsKept'
<1>1. /\ Len(stack) \in Nat /\ Len(stack) > 1 /\ Len(stack') = Len(stack) - 1
      /\ stack # <<>> /\ Running = stack[Len(stack)] /\ Running.node = Me
      /\ stack'[Len(stack) - 1] = AfterEvent
      /\ \A i \in 1 .. Len(stack) - 1 :
            stack'[i].node = stack[i].node /\ stack'[i].event = stack[i].event
      /\ Me \in Owned(Below.node) /\ Below.node \in Owners
      /\ Below.node # Me /\ CalledBy(Below, Running)
      /\ broken' = IF Missing THEN broken \cup {Me} ELSE broken
      /\ initialized' = IF Running.event = "initialization" THEN initialized \cup {Me}
                        ELSE initialized
      /\ finalized' = IF Running.event = "finalization" THEN finalized \cup {Me}
                      ELSE finalized
  BY ComponentFinished
<1>2. /\ \A n : n \in OnStack' <=> n \in OnStack /\ n # Me
      /\ \A c, m : \A e \in {"initialization", "finalization"} :
            c # Me => (AtHand(c, m, e)' <=> AtHand(c, m, e))
  BY AfterComponent
<1>3. ASSUME NEW c \in CompositeNodes \ broken', NEW m \in Owned(c) \ broken'
      PROVE  /\ m \in initialized' <=> c \in initialized' \/ Done(c, m, "initialization")'
             /\ m \in finalized' <=> c \in finalized' \/ Done(c, m, "finalization")'
  <2>1. c \notin broken /\ m \notin broken /\ c # m
    <3>1. c # m
      BY NotItsOwner DEF Owners
    <3>2. QED
      BY <1>1, <1>3, <3>1
  <2>2. /\ m \in initialized <=> c \in initialized \/ Done(c, m, "initialization")
        /\ m \in finalized <=> c \in finalized \/ Done(c, m, "finalization")
    BY <1>3, <2>1 DEF LifeKept, ComponentsKept
  <2>3. CASE c = Me
    <3>1. Me \notin OnStack'
      BY <1>2
    <3>2. ~Done(c, m, "initialization")' /\ ~Done(c, m, "finalization")'
      BY <2>3, <3>1 DEF Done, AtHand, OnStack
    <3>3. /\ Done(c, m, "initialization") <=> Running.event = "initialization"
          /\ Done(c, m, "finalization") <=> Running.event = "finalization"
      BY <2>3, DoneAtEnd
    <3>4. m \in initialized' <=> c \in initialized'
      BY <1>1, <2>1, <2>2, <2>3, <3>3
    <3>5. m \in finalized' <=> c \in finalized'
      BY <1>1, <2>1, <2>2, <2>3, <3>3
    <3>6. QED
      BY <3>2, <3>4, <3>5
  <2>4. CASE m = Me
    <3>1. c = Below.node
      BY <1>1, <1>3, <2>4, OneOwner DEF Owners
    <3>2. Running.event \in Within(Below.event) /\ Below.pc = "call"
      BY <1>1, <1>3, <3>1 DEF CalledBy
    <3>3. \A i \in 1 .. Len(stack') : stack'[i].node = c => i = Len(stack) - 1
      <4>1. /\ Len(stack) - 1 \in 1 .. Len(stack)
            /\ \A i \in 1 .. Len(stack') : i \in 1 .. Len(stack) /\ i \in 1 .. Len(stack) - 1
        BY <1>1
      <4>2. stack[Len(stack) - 1].node = c
        BY <3>1 DEF Below
      <4>3. QED
        BY <1>1, <4>1, <4>2, OnceOnStack DEF Typed
    <3>4. /\ AfterEvent.node = c /\ AfterEvent.event = Below.event /\ AfterEvent.pc = "call"
          /\ Running.event # "planned" => AfterEvent = Below
      BY <1>1, <3>1, <3>2, AfterEventList
    <3>5. Below.event \in {"initialization", "finalization"} =>
             \A k \in DOMAIN Below.todo : Below.todo[k].node # m
      <4>1. Len(stack) - 1 \in 1 .. Len(stack) - 1 /\ (Len(stack) - 1) + 1 = Len(stack)
        BY <1>1
      <4>2. ListBelow(Below, Running)
        BY <1>1, <4>1 DEF ListsKept, Below
      <4>3. QED
        BY <1>1, <1>3, <2>4, <3>1, <4>2 DEF ListBelow
    <3>6. Below.event \in {"initialization", "finalization"} =>
             Running.event = Below.event /\ AfterEvent = Below
      BY <3>2, <3>4 DEF Within
    <3>7. Below.event \notin {"initialization", "finalization"} =>
             Running.event \notin {"initialization", "finalization"}
      BY <3>2 DEF Within
    <3>8. \A e \in {"initialization", "finalization"} :
             AtHand(c, m, e)' <=> Running.event = e
      <4>1. Len(stack) - 1 \in 1 .. Len(stack')
        BY <1>1
      <4>2. ASSUME NEW e \in {"initialization", "finalization"}, Running.event = e
            PROVE  AtHand(c, m, e)'
        <5>1. AfterEvent = Below /\ Below.event = e /\ \A k \in DOMAIN Below.todo : Below.todo[k].node # m
          BY <3>5, <3>6, <3>7, <4>2
        <5>2. QED
          BY <1>1, <3>4, <4>1, <5>1 DEF AtHand
      <4>3. ASSUME NEW e \in {"initialization", "finalization"}, AtHand(c, m, e)'
            PROVE  Running.event = e
        <5>1. AfterEvent.event = e
          BY <1>1, <3>3, <4>3 DEF AtHand
        <5>2. QED
          BY <3>4, <3>6, <5>1
      <4>4. QED
        BY <4>2, <4>3
    <3>9. ~Done(c, m, "initialization") /\ ~Done(c, m, "finalization")
      BY <1>1, <2>4, OnStackBelow DEF Done
    <3>10. m \notin OnStack'
      BY <1>2, <2>4
    <3>11. /\ Done(c, m, "initialization")' <=> Running.event = "initialization"
           /\ Done(c, m, "finalization")' <=> Running.event = "finalization"
      BY <3>8, <3>10 DEF Done
    <3>12. m \in initialized' <=> c \in initialized' \/ Running.event = "initialization"
      BY <1>1, <2>1, <2>2, <2>4, <3>9
    <3>13. m \in finalized' <=> c \in finalized' \/ Running.event = "finalization"
      BY <1>1, <2>1, <2>2, <2>4, <3>9
    <3>14. QED
      BY <3>11, <3>12, <3>13
  <2>5. CASE c # Me /\ m # Me
    <3>1. \A e \in {"initialization", "finalization"} : Done(c, m, e)' <=> Done(c, m, e)
      BY <1>2, <2>5 DEF Done
    <3>2. m \in initialized' <=> m \in initialized
      BY <1>1, <2>5
    <3>3. c \in initialized' <=> c \in initialized
      BY <1>1, <2>5
    <3>4. m \in finalized' <=> m \in finalized
      BY <1>1, <2>5
    <3>5. c \in finalized' <=> c \in finalized
      BY <1>1, <2>5
    <3>6. QED
      BY <2>2, <3>1, <3>2, <3>3, <3>4, <3>5
  <2>6. QED
    BY <2>3, <2>4, <2>5
<1>4. QED
  BY <1>3 DEF ComponentsKept

LEMMA AgentsFinish ==
    ASSUME WellFormed, Typed, ListsKept, LifeKept, NEW finite, Finished(finite), Len(stack) # 1
    PROVE  AgentsKept'
<1>1. /\ Len(stack) \in Nat /\ Len(stack) > 1 /\ Len(stack') = Len(stack) - 1
      /\ stack # <<>> /\ Running = stack[Len(stack)] /\ Running.node = Me
      /\ stack'[Len(stack) - 1] = AfterEvent
      /\ \A i \in 1 .. Len(stack) - 2 : stack'[i] = stack[i]
      /\ \A i \in 1 .. Len(stack) - 1 :
            stack'[i].node = stack[i].node /\ stack'[i].event = stack[i].event
      /\ Me \in Owned(Below.node) /\ Below.node \in Owners
      /\ CalledBy(Below, Running)
      /\ plans' = IF Running.event = "finalization" THEN IF Removed THEN plans \ {Me} ELSE plans
                  ELSE WithPlan(Me, finite)
      /\ registered' = IF Removed THEN registered \ {Me} ELSE registered
      /\ broken' = IF Missing THEN broken \cup {Me} ELSE broken
      /\ initialized' = IF Running.event = "initialization" THEN initialized \cup {Me}
                        ELSE initialized
      /\ finalized' = IF Running.event = "finalization" THEN finalized \cup {Me}
                      ELSE finalized
  BY ComponentFinished
<1>2. /\ \A n : n \in OnStack' <=> n \in OnStack /\ n # Me
      /\ \A n, event : n # Me => (Processing(n, event)' <=> Processing(n, event))
  BY AfterComponent
<1>3. /\ \A i \in 1 .. Len(stack') : i \in 1 .. Len(stack) - 2 \/ i = Len(stack) - 1
      /\ \A i \in 1 .. Len(stack') : i \in 1 .. Len(stack) /\ i \in 1 .. Len(stack) - 1
      /\ Len(stack) \in 1 .. Len(stack) /\ Len(stack) - 1 \in 1 .. Len(stack)
      /\ Len(stack) - 1 \in 1 .. Len(stack) - 1 /\ (Len(stack) - 1) + 1 = Len(stack)
  BY <1>1
<1>4. \A i \in 1 .. Len(stack') : stack'[i].node # Me
  BY <1>1, <1>3, RunningOnce
<1>5. ListOK(Below) /\ ListBelow(Below, Running)
  BY <1>1, <1>3 DEF ListsKept, Below
<1>8. \A i \in 1 .. Len(stack) : stack[i].node = stack[Len(stack) - 1].node => i = Len(stack) - 1
  <2>1. StackOK /\ Len(stack) - 1 \in 1 .. Len(stack)
    BY <1>3 DEF Typed
  <2>2. QED
    BY <2>1, OnceOnStack
<1>6. ASSUME NEW c \in Collections, NEW a \in Owned(c) \ broken'
      PROVE  /\ AgentKept(a)'
             /\ \A i \in 1 .. Len(stack') : stack'[i].node = c =>
                  \A k \in DOMAIN stack'[i].todo : stack'[i].todo[k] = Step("planned", a) =>
                      a \in initialized' /\ a \notin finalized'
  <2>1. a \notin broken
    BY <1>1, <1>6
  <2>2. /\ AgentKept(a)
        /\ \A i \in 1 .. Len(stack) : stack[i].node = c =>
             \A k \in DOMAIN stack[i].todo : stack[i].todo[k] = Step("planned", a) =>
                 a \in initialized /\ a \notin finalized
    BY <1>6, <2>1 DEF LifeKept, AgentsKept
  <2>3. ASSUME Below.node = c, NEW k \in DOMAIN AfterEvent.todo, AfterEvent.todo[k] = Step("planned", a)
        PROVE  Running.event # "planned" /\ \E j \in DOMAIN Below.todo : Below.todo[j] = Step("planned", a)
    <3>1. Step("planned", a) \notin OwnerSteps(c)
      BY <1>6 DEF Step, OwnerSteps
    <3>2. PICK j \in DOMAIN Below.todo : AfterEvent.todo[k] = Below.todo[j]
      BY <1>1, <2>3, <3>1, AfterEventList
    <3>3. Running.event # "planned"
      BY <1>5, <1>6, <2>3, <3>2 DEF ListBelow
    <3>4. QED
      BY <2>3, <3>2, <3>3
  <2>4. CASE a = Me
    <3>1. ~Missing
      BY <1>1, <1>6, <2>4
    <3>2. Below.node = c
      BY <1>1, <1>6, <2>4, OneOwner DEF Owners
    <3>3. LifeOf(a, Running.event)
      BY <1>1, <1>3, <2>2, <2>4 DEF AgentKept
    <3>4. Running.event = "finalization" => a \notin registered' /\ a \notin plans'
      BY <1>1, <1>6, <2>4, <3>1, <3>2 DEF Removed
    <3>5. Running.event # "finalization" => a \in initialized' /\ a \notin finalized'
      BY <1>1, <2>4, <3>3 DEF LifeOf
    <3>6. \A i \in 1 .. Len(stack') : stack'[i].node # a
      BY <1>4, <2>4
    <3>7. AgentKept(a)'
      BY <3>4, <3>5, <3>6 DEF AgentKept
    <3>8. ASSUME NEW k \in DOMAIN AfterEvent.todo, AfterEvent.todo[k] = Step("planned", a)
          PROVE  FALSE
      <4>1. PICK j \in DOMAIN Below.todo : Below.todo[j] = Step("planned", a)
        BY <2>3, <3>2, <3>8
      <4>2. Running.event # "planned"
        BY <2>3, <3>2, <3>8
      <4>3. Below.pc \in {"user", "remove"}
        BY <1>1, <1>6, <3>2, <4>2 DEF CalledBy
      <4>4. Below.todo[j].do = "planned"
        BY <4>1 DEF Step
      <4>5. Below.pc = "call"
        BY <1>5, <1>6, <3>2, <4>4 DEF ListOK
      <4>6. QED
        BY <4>3, <4>5
    <3>9. ASSUME NEW i \in 1 .. Len(stack'), stack'[i].node = c
          PROVE  stack'[i] = AfterEvent
      <4>1. i \in 1 .. Len(stack) /\ i \in 1 .. Len(stack) - 1
        BY <1>3, <3>9
      <4>2. stack[i].node = c
        BY <1>1, <3>9, <4>1
      <4>3. i = Len(stack) - 1
        BY <1>8, <3>2, <4>1, <4>2 DEF Below
      <4>4. QED
        BY <1>1, <4>3
    <3>10. QED
      BY <3>7, <3>8, <3>9
  <2>5. CASE a # Me
    <3>1. a \in initialized' <=> a \in initialized
      BY <1>1, <2>5
    <3>2. a \in finalized' <=> a \in finalized
      BY <1>1, <2>5
    <3>3. a \in plans' <=> a \in plans
      BY <1>1, <2>5 DEF WithPlan
    <3>4. a \in registered' <=> a \in registered
      BY <1>1, <2>5
    <3>5. \A event : LifeOf(a, event)' <=> LifeOf(a, event)
      BY <3>1, <3>2 DEF LifeOf
    <3>6. Processing(a, "initialization")' <=> Processing(a, "initialization")
      BY <1>2, <2>5
    <3>7. AgentKept(a)'
      <4>1. a \in registered' =>
              a \notin finalized' /\ (a \in initialized' \/ Processing(a, "initialization")')
        BY <2>2, <3>1, <3>2, <3>4, <3>6 DEF AgentKept
      <4>2. a \in plans' => a \in initialized' /\ a \notin finalized'
        BY <2>2, <3>1, <3>2, <3>3 DEF AgentKept
      <4>3. ASSUME NEW i \in 1 .. Len(stack'), stack'[i].node = a
            PROVE  LifeOf(a, stack[i].event)'
        <5>1. i \in 1 .. Len(stack) - 1 /\ i \in 1 .. Len(stack)
          BY <1>3, <4>3
        <5>2. stack[i].node = a /\ stack'[i].event = stack[i].event
          <6>1. \A k \in 1 .. Len(stack) - 1 :
                   stack'[k].node = stack[k].node /\ stack'[k].event = stack[k].event
            BY <1>1
          <6>2. QED
            BY <4>3, <5>1, <6>1
        <5>3. LifeOf(a, stack[i].event)
          BY <2>2, <5>1, <5>2 DEF AgentKept
        <5>4. QED
          BY <3>1, <3>2, <5>2, <5>3 DEF LifeOf
      <4>4. QED
        BY <4>1, <4>2, <4>3 DEF AgentKept
    <3>8. ASSUME NEW i \in 1 .. Len(stack'), stack'[i].node = c,
                 NEW k \in DOMAIN stack'[i].todo, stack'[i].todo[k] = Step("planned", a)
          PROVE  a \in initialized /\ a \notin finalized
      <4>1. CASE i \in 1 .. Len(stack) - 2
        <5>1. i \in 1 .. Len(stack)
          BY <1>3, <3>8
        <5>2. stack'[i] = stack[i]
          BY <1>1, <4>1
        <5>3. QED
          BY <2>2, <3>8, <5>1, <5>2
      <4>2. CASE i = Len(stack) - 1
        <5>0. stack'[i] = AfterEvent /\ AfterEvent.node = Below.node
          BY <1>1, <4>2, AfterEventList
        <5>1. Below.node = c
          BY <3>8, <5>0
        <5>2. PICK j \in DOMAIN Below.todo : Below.todo[j] = Step("planned", a)
          BY <2>3, <3>8, <5>0, <5>1
        <5>3. Len(stack) - 1 \in 1 .. Len(stack)
          BY <1>3
        <5>4. QED
          BY <2>2, <5>1, <5>2, <5>3 DEF Below
      <4>3. QED
        BY <1>3, <4>1, <4>2
    <3>9. QED
      BY <3>1, <3>2, <3>7, <3>8
  <2>6. QED
    BY <2>4, <2>5
<1>7. QED
  BY <1>6 DEF AgentsKept

LEMMA LifeFinishes ==
    ASSUME WellFormed, Typed, ListsKept, LifeKept, NEW finite, Finished(finite)
    PROVE  LifeKept'
<1>1. CASE Len(stack) = 1
  BY <1>1, LifeFinishTop
<1>2. CASE Len(stack) # 1
  <2>1. /\ Len(stack) \in Nat /\ Len(stack) > 1 /\ Len(stack') = Len(stack) - 1
        /\ stack # <<>> /\ stack' # <<>>
        /\ \A i \in 1 .. Len(stack) - 1 :
              stack'[i].node = stack[i].node /\ stack'[i].event = stack[i].event
        /\ broken' = IF Missing THEN broken \cup {Me} ELSE broken
        /\ initialized' = IF Running.event = "initialization" THEN initialized \cup {Me}
                          ELSE initialized
        /\ finalized' = IF Running.event = "finalization" THEN finalized \cup {Me}
                        ELSE finalized
        /\ UNCHANGED simVars
    BY <1>2, ComponentFinished
  <2>2. PathKept'
    <3>1. ASSUME NEW i \in 1 .. Len(stack'), \A j \in 1 .. i : stack'[j].node \notin broken'
          PROVE  (stack'[i].node \in initialized' <=> stack'[i].event # "initialization")
               /\ stack'[i].node \notin finalized'
      <4>1. i \in 1 .. Len(stack) /\ i \in 1 .. Len(stack) - 1
            /\ \A j \in 1 .. i : j \in 1 .. Len(stack) - 1
        BY <2>1
      <4>2. \A j \in 1 .. i : stack[j].node \notin broken
        BY <2>1, <3>1, <4>1
      <4>3. LifeOf(stack[i].node, stack[i].event)
        BY <4>1, <4>2 DEF LifeKept, PathKept
      <4>4. stack[i].node # Me
        BY <2>1, <4>1, RunningOnce
      <4>5. stack'[i].node = stack[i].node /\ stack'[i].event = stack[i].event
        BY <2>1, <4>1
      <4>6. stack[i].node \in initialized' <=> stack[i].node \in initialized
        BY <2>1, <4>4
      <4>7. stack[i].node \in finalized' <=> stack[i].node \in finalized
        BY <2>1, <4>4
      <4>8. QED
        BY <4>3, <4>5, <4>6, <4>7 DEF LifeOf
    <3>2. QED
      BY <3>1 DEF PathKept, LifeOf
  <2>3. TopKept'
    <3>1. 1 \in 1 .. Len(stack) - 1 /\ status' = status
      BY <2>1 DEF simVars
    <3>2. QED
      BY <2>1, <3>1 DEF LifeKept, TopKept
  <2>4. QED
    BY <1>2, <2>2, <2>3, ComponentsFinish, AgentsFinish DEF LifeKept
<1>3. QED
  BY <1>1, <1>2

LEMMA LifeStart ==
    ASSUME WellFormed, Typed, SimulationTimed, LifeKept, process_next_event
    PROVE  LifeKept'
<1>1. stack = <<>> /\ Len(stack) = 0 /\ 1 .. Len(stack) = {}
  BY DEF process_next_event
<1>2. PICK event \in Events(status) :
         /\ event \in EventNames /\ event # "unplanned"
         /\ IF sim_timing THEN stack' = <<>> /\ thrown' = Exception(Top)
            ELSE stack' = <<EnterFrame(Top, event)>> /\ thrown' = thrown
  BY TypedFirst
<1>3. UNCHANGED <<initialized, finalized, plans, registered, broken>>
  BY DEF process_next_event, eventVars
<1>4. /\ status = "new" <=> event = "initialization"
      /\ status \in {"new", "started", "finishing"}
      /\ status = "finishing" <=> event = "finalization"
  BY <1>2 DEF Events
<1> DEFINE f == EnterFrame(Top, event)
<1>5. stack' = <<>> \/ stack' = <<f>>
  BY <1>2
<1>6. f.node = Top /\ f.event = event /\ f.pc = "enter" /\ DOMAIN f.todo = {}
  <2>1. DOMAIN <<>> = {}
    OBVIOUS
  <2>2. QED
    BY <2>1 DEF EnterFrame
<1> HIDE DEF f
<1>7. Len(stack') = 0 \/ (Len(stack') = 1 /\ stack'[1] = f)
  BY <1>5
<1>8. 1 .. 0 = {} /\ 1 .. 1 = {1}
  OBVIOUS
<1>9. \A i \in 1 .. Len(stack') : i = 1 /\ stack'[i] = f
  BY <1>7, <1>8
<1>10. \A n, e : ~AtHand(n, Top, e) /\ ~Processing(n, e)
  BY <1>1 DEF AtHand, Processing
<1>11. \A c, m, e : ~Done(c, m, e) /\ ~Done(c, m, e)'
  BY <1>1, <1>6, <1>9 DEF Done, AtHand
<1>12. PathKept'
  <2>1. ASSUME NEW i \in 1 .. Len(stack'), \A j \in 1 .. i : stack'[j].node \notin broken'
        PROVE  /\ stack'[i].node \in initialized' <=> stack'[i].event # "initialization"
               /\ stack'[i].node \notin finalized'
    <3>1. i = 1 /\ stack'[i] = f /\ 1 \in 1 .. 1
      BY <1>9, <2>1
    <3>2. Top \notin broken
      BY <1>3, <1>6, <2>1, <3>1
    <3>3. /\ Top \in initialized <=> status # "new"
          /\ Top \in finalized <=> status = "finished"
      BY <1>1, <3>2 DEF LifeKept, TopKept
    <3>4. QED
      BY <1>3, <1>4, <1>6, <3>1, <3>3
  <2>2. QED
    BY <2>1 DEF PathKept, LifeOf
<1>13. ComponentsKept'
  BY <1>3, <1>11 DEF LifeKept, ComponentsKept
<1>14. AgentsKept'
  <2>1. ASSUME NEW c \in Collections, NEW a \in Owned(c) \ broken'
        PROVE  AgentKept(a)'
    <3>1. a # Top
      BY OneOwner DEF Owners
    <3>2. AgentKept(a) /\ ~Processing(a, "initialization")
      BY <1>3, <1>10, <2>1 DEF LifeKept, AgentsKept
    <3>3. \A i \in 1 .. Len(stack') : stack'[i].node # a
      BY <1>6, <1>9, <3>1
    <3>4. QED
      BY <1>3, <3>2, <3>3 DEF AgentKept
  <2>2. ASSUME NEW i \in 1 .. Len(stack') PROVE DOMAIN stack'[i].todo = {}
    BY <1>6, <1>9, <2>2
  <2>3. QED
    BY <2>1, <2>2 DEF AgentsKept
<1>15. TopKept'
  <2>1. ASSUME Top \notin broken
        PROVE  /\ stack' = <<f>>
               /\ status' = IF event = "finalization" THEN "finishing" ELSE "started"
    <3>1. thrown = Nothing
      BY <1>1, <2>1 DEF LifeKept, TopKept
    <3>2. ~sim_timing
      BY <1>1, <3>1 DEF SimulationTimed
    <3>3. stack' = <<f>>
      BY <1>2, <3>2 DEF f
    <3>4. status' = IF status = "new" THEN "started" ELSE status
      BY <3>2 DEF process_next_event, start_throws
    <3>5. QED
      BY <1>4, <3>3, <3>4
  <2>2. Top \notin broken => stack' # <<>> /\ stack'[1].event = event
    BY <1>6, <2>1
  <2>3. QED
    BY <1>3, <2>1, <2>2 DEF TopKept
<1>16. QED
  BY <1>12, <1>13, <1>14, <1>15 DEF LifeKept

LEMMA LifeStep ==
    ASSUME WellFormed, Typed, SimulationTimed, ListsKept, LifeKept, [Next]_vars
    PROVE  LifeKept'
<1>1. CASE UNCHANGED vars
  <2>1. /\ stack' = stack /\ thrown' = thrown /\ status' = status
        /\ UNCHANGED <<initialized, finalized, plans, registered, broken>>
    BY <1>1 DEF vars, eventVars, errorVars, simVars
  <2>2. PathKept' /\ TopKept'
    <3>1. PathKept /\ TopKept
      BY DEF LifeKept
    <3>2. PathKept'
      BY <2>1, <3>1 DEF PathKept, LifeOf
    <3>3. TopKept'
      BY <2>1, <3>1 DEF TopKept
    <3>4. QED
      BY <3>2, <3>3
  <2>3. ComponentsKept'
    <3>1. ComponentsKept
      BY DEF LifeKept
    <3>2. \A c, m, e : Done(c, m, e)' <=> Done(c, m, e)
      BY <2>1 DEF Done, AtHand, OnStack
    <3>3. QED
      BY <2>1, <3>1, <3>2 DEF ComponentsKept
  <2>4. AgentsKept'
    <3>1. AgentsKept
      BY DEF LifeKept
    <3>2. ASSUME NEW a, AgentKept(a)
          PROVE  AgentKept(a)'
      <4>1. a \in registered' => a \notin finalized' /\ (a \in initialized' \/ Processing(a, "initialization")')
        BY <2>1, <3>2 DEF AgentKept, Processing
      <4>2. a \in plans' => a \in initialized' /\ a \notin finalized'
        BY <2>1, <3>2 DEF AgentKept
      <4>3. \A i \in 1 .. Len(stack') : stack'[i].node = a =>
              (a \in initialized' <=> stack'[i].event # "initialization") /\ a \notin finalized'
        BY <2>1, <3>2 DEF AgentKept, LifeOf
      <4>4. QED
        BY <4>1, <4>2, <4>3 DEF AgentKept, LifeOf
    <3>3. QED
      BY <2>1, <3>1, <3>2 DEF AgentsKept
  <2>5. QED
    BY <2>2, <2>3, <2>4 DEF LifeKept
<1>2. QED
  BY <1>1, LifeStart, LifeStays, LifeGoesOn, LifeCalls, LifeFinishes, LifeUnwinds, StepKind
  DEF KindOfStep


-----------------------------------------------------------------------------
(* The interfaces                                                          *)

\* The inductive invariant: an interface is open as the frame of its node
\* says, and otherwise only if an exception left it open.
OpenFor(n, event) ==
    io[n].active /\ io[n].dmode = Mode(event) /\ io[n].dgoal = Goal(event)

OpenKept ==
    /\ \A i \in 1 .. Len(stack) : OpenFor(stack[i].node, stack[i].event)
    /\ \A n \in Nodes : io[n].active /\ n \notin OnStack => n \in broken /\ n \notin Prototypes

OpenedAs(u, s, n, event) ==
    /\ \A m \in Nodes : m # n => u[m] = s[m]
    /\ u[n].active /\ u[n].dmode = Mode(event) /\ u[n].dgoal = Goal(event)
    /\ u[n].outputs = s[n].outputs /\ u[n].received = s[n].received

LEMMA Opened ==
    ASSUME NEW s \in [Nodes -> Interfaces], NEW n \in Nodes, NEW event \in EventNames
    PROVE  OpenedAs(activate(s, n, event), s, n, event)
<1> DEFINE u == activate(s, n, event)
           i == s[n]
<1>1. /\ ChangedAt(u, s, n)
      /\ u[n] = [s[n] EXCEPT !.active = TRUE, !.dmode = Mode(event), !.dgoal = Goal(event)]
  <2>1. \A e \in EventNames :
          /\ ChangedAt(activate(s, n, e), s, n)
          /\ activate(s, n, e)[n] = [s[n] EXCEPT !.active = TRUE, !.dmode = Mode(e), !.dgoal = Goal(e)]
    BY Operations
  <2>2. QED
    BY <2>1, Zenon
<1>2. i \in Interfaces /\ i = s[n]
  OBVIOUS
<1> HIDE DEF u, i
<1>3. u[n] = [i EXCEPT !.active = TRUE, !.dmode = Mode(event), !.dgoal = Goal(event)]
  BY <1>1, <1>2
<1>4. u[n].active = TRUE /\ u[n].dmode = Mode(event) /\ u[n].dgoal = Goal(event)
  BY <1>2, <1>3 DEF Interfaces
<1>5. u[n].outputs = i.outputs /\ u[n].received = i.received
  BY <1>2, <1>3 DEF Interfaces
<1>6. OpenedAs(u, s, n, event)
  BY <1>1, <1>2, <1>4, <1>5 DEF ChangedAt, OpenedAs
<1>7. QED
  BY <1>6 DEF u

\* Prototypes process no events.
LEMMA NeverPrototype ==
    ASSUME WellFormed, StackOK, NEW i \in 1 .. Len(stack)
    PROVE  stack[i].node \notin Prototypes /\ stack[i].node \in Nodes
<1>1. Len(stack) \in Nat /\ stack[i] \in Frames
  BY LenProperties, ElementOfSeq DEF StackOK
<1>2. CASE i = 1
  <2>1. stack[1].node = Top
    <3>1. Len(stack) > 0
      BY <1>1
    <3>2. stack # <<>>
      BY <3>1
    <3>3. QED
      BY <3>2 DEF StackOK
  <2>2. QED
    BY <1>2, <2>1 DEF WellFormed, Prototypes
<1>3. CASE i # 1
  <2>1. i - 1 \in 1 .. Len(stack) - 1 /\ (i - 1) + 1 = i
    BY <1>1, <1>3
  <2>2. CalledBy(stack[i - 1], stack[(i - 1) + 1])
    BY <2>1 DEF StackOK
  <2>3. stack[i - 1].node \in Owners /\ stack[i].node \in Owned(stack[i - 1].node)
    BY <2>1, <2>2 DEF CalledBy
  <2>4. QED
    BY <2>3, OneOwner
<1>4. QED
  BY <1>2, <1>3

\* Nothing is opened or closed.
LEMMA OpenSame ==
    ASSUME WellFormed, Typed, OpenKept, SameViews(io', io), broken \subseteq broken',
           Len(stack') = Len(stack),
           \A i \in 1 .. Len(stack) :
              stack'[i].node = stack[i].node /\ stack'[i].event = stack[i].event
    PROVE  OpenKept'
<1>1. OnStack' = OnStack
  BY DEF OnStack
<1>2. \A n \in Nodes :
         /\ io'[n].active = io[n].active /\ io'[n].dmode = io[n].dmode /\ io'[n].dgoal = io[n].dgoal
  BY DEF SameViews
<1>3. \A i \in 1 .. Len(stack) : stack[i].node \in Nodes
  BY NeverPrototype DEF Typed
<1>4. ASSUME NEW i \in 1 .. Len(stack')
      PROVE  /\ io'[stack'[i].node].active
             /\ io'[stack'[i].node].dmode = Mode(stack'[i].event)
             /\ io'[stack'[i].node].dgoal = Goal(stack'[i].event)
  BY <1>2, <1>3, <1>4 DEF OpenKept, OpenFor
<1>5. ASSUME NEW n \in Nodes, io'[n].active, n \notin OnStack'
      PROVE  n \in broken' /\ n \notin Prototypes
  <2>1. io[n].active
    BY <1>2, <1>5
  <2>2. n \in broken /\ n \notin Prototypes
    BY <1>1, <1>5, <2>1 DEF OpenKept
  <2>3. QED
    BY <2>2
<1>6. QED
  BY <1>4, <1>5 DEF OpenKept, OpenFor

LEMMA OpenStart ==
    ASSUME WellFormed, Typed, SimulationTimed, LifeKept, OpenKept, process_next_event
    PROVE  OpenKept'
<1>1. stack = <<>> /\ Len(stack) = 0 /\ 1 .. 0 = {} /\ broken' = broken
  BY DEF process_next_event
<1>2. PICK event \in EventNames :
         /\ io' = activate(io, Top, event)
         /\ IF sim_timing THEN stack' = <<>> ELSE stack' = <<EnterFrame(Top, event)>>
  BY TypedFirst
<1>3. Top \in Nodes /\ Top \notin Prototypes /\ io \in [Nodes -> Interfaces]
  BY DEF WellFormed, Prototypes, Typed
<1>4. OpenedAs(io', io, Top, event)
  BY <1>2, <1>3, Opened
<1>5. /\ \A m \in Nodes : m # Top => io'[m] = io[m]
      /\ io'[Top].active /\ io'[Top].dmode = Mode(event) /\ io'[Top].dgoal = Goal(event)
  BY <1>4 DEF OpenedAs
<1>6. OnStack = {}
  BY <1>1 DEF OnStack
<1>7. ASSUME NEW n \in Nodes, io'[n].active, n # Top
      PROVE  n \in broken' /\ n \notin Prototypes
  BY <1>1, <1>5, <1>6, <1>7 DEF OpenKept
<1>8. CASE sim_timing
  <2>1. thrown # Nothing
    BY <1>1, <1>8 DEF SimulationTimed
  <2>2. Top \in broken
    BY <1>1, <2>1 DEF LifeKept, TopKept
  <2>3. stack' = <<>> /\ Len(stack') = 0
    BY <1>2, <1>8
  <2>4. QED
    BY <1>1, <1>3, <1>7, <2>2, <2>3 DEF OpenKept
<1>9. CASE ~sim_timing
  <2> DEFINE f == EnterFrame(Top, event)
  <2>1. stack' = <<f>> /\ f.node = Top /\ f.event = event
    BY <1>2, <1>9 DEF EnterFrame
  <2> HIDE DEF f
  <2>2. Len(stack') = 1 /\ stack'[1] = f
    BY <2>1
  <2>3. \A i \in 1 .. Len(stack') : stack'[i] = f
    BY <2>2
  <2>4. Top \in OnStack'
    BY <2>1, <2>2 DEF OnStack
  <2>5. \A i \in 1 .. Len(stack') :
          /\ io'[stack'[i].node].active
          /\ io'[stack'[i].node].dmode = Mode(stack'[i].event)
          /\ io'[stack'[i].node].dgoal = Goal(stack'[i].event)
    BY <1>5, <2>1, <2>3
  <2>6. QED
    BY <1>7, <2>4, <2>5 DEF OpenKept, OpenFor
<1>10. QED
  BY <1>8, <1>9

LEMMA OpenCall ==
    ASSUME WellFormed, Typed, OpenKept, NEW n, NEW event, NEW f, NEW s, Called(n, event, f, s)
    PROVE  OpenKept'
<1>1. /\ Len(stack') = Len(stack) + 1 /\ Len(stack) \in Nat /\ Len(stack) > 0
      /\ stack'[Len(stack) + 1] = EnterFrame(n, event)
      /\ \A i \in 1 .. Len(stack) :
            stack'[i].node = stack[i].node /\ stack'[i].event = stack[i].event
      /\ n \in Nodes /\ event \in EventNames
      /\ io' = activate(s, n, event) /\ broken' = broken
  BY CalledStep
<1>2. n \notin OnStack
  BY CalledNew
<1>3. s \in [Nodes -> Interfaces] /\ SameViews(s, io)
  BY DEF Called
<1>4. OpenedAs(io', s, n, event)
  BY <1>1, <1>3, Opened
<1>5. /\ \A m \in Nodes : m # n => io'[m] = s[m]
      /\ io'[n].active /\ io'[n].dmode = Mode(event) /\ io'[n].dgoal = Goal(event)
  BY <1>4 DEF OpenedAs
<1>6. \A m \in Nodes : m # n =>
         io'[m].active = io[m].active /\ io'[m].dmode = io[m].dmode /\ io'[m].dgoal = io[m].dgoal
  BY <1>3, <1>5 DEF SameViews
<1>7. EnterFrame(n, event).node = n /\ EnterFrame(n, event).event = event
  BY DEF EnterFrame
<1>8. /\ \A i \in 1 .. Len(stack') : i \in 1 .. Len(stack) \/ i = Len(stack) + 1
      /\ \A i \in 1 .. Len(stack) : i \in 1 .. Len(stack')
      /\ Len(stack) + 1 \in 1 .. Len(stack')
  BY <1>1
<1>9. OnStack \subseteq OnStack' /\ n \in OnStack'
  BY <1>1, <1>7, <1>8 DEF OnStack
<1>10. ASSUME NEW i \in 1 .. Len(stack')
       PROVE  /\ io'[stack'[i].node].active
              /\ io'[stack'[i].node].dmode = Mode(stack'[i].event)
              /\ io'[stack'[i].node].dgoal = Goal(stack'[i].event)
  <2>1. CASE i = Len(stack) + 1
    BY <1>1, <1>5, <1>7, <2>1
  <2>2. CASE i \in 1 .. Len(stack)
    <3>1. stack[i].node \in Nodes /\ stack[i].node # n
      BY <1>2, <2>2, NeverPrototype DEF Typed, OnStack
    <3>2. OpenFor(stack[i].node, stack[i].event)
      BY <2>2 DEF OpenKept
    <3>3. QED
      BY <1>1, <1>6, <2>2, <3>1, <3>2 DEF OpenFor
  <2>3. QED
    BY <1>8, <2>1, <2>2
<1>11. ASSUME NEW m \in Nodes, io'[m].active, m \notin OnStack'
       PROVE  m \in broken' /\ m \notin Prototypes
  BY <1>1, <1>6, <1>9, <1>11 DEF OpenKept
<1>12. QED
  BY <1>10, <1>11 DEF OpenKept, OpenFor


LEMMA OpenFinish ==
    ASSUME WellFormed, Typed, OpenKept, NEW finite, Finished(finite)
    PROVE  OpenKept'
<1>1. CASE Len(stack) = 1
  <2>1. Me = Top /\ stack' = <<>> /\ io' = deactivate(io, Top) /\ broken' = broken
    BY <1>1, TopFinished
  <2>2. Top \in Nodes /\ io \in [Nodes -> Interfaces]
    BY DEF WellFormed, Typed
  <2>3. ClosedAs(io', io, Top)
    BY <2>1, <2>2, ClosedOnly
  <2>4. /\ \A m \in Nodes : m # Top => io'[m] = io[m]
        /\ io'[Top].active = FALSE
    BY <2>3 DEF ClosedAs
  <2>5. OnStack = {Top}
    <3>1. stack # <<>> /\ 1 .. Len(stack) - 1 = {}
      BY <1>1 DEF Finished
    <3>2. QED
      BY <2>1, <3>1, OnStackBelow
  <2>6. Len(stack') = 0 /\ 1 .. 0 = {}
    BY <2>1
  <2>7. ASSUME NEW n \in Nodes, io'[n].active
        PROVE  n \in broken' /\ n \notin Prototypes
    <3>1. n # Top /\ io[n].active /\ n \notin OnStack
      BY <2>4, <2>5, <2>7
    <3>2. QED
      BY <2>1, <3>1 DEF OpenKept
  <2>8. QED
    BY <2>6, <2>7 DEF OpenKept
<1>2. CASE Len(stack) # 1
  <2>1. /\ Len(stack) \in Nat /\ Len(stack) > 1 /\ Len(stack') = Len(stack) - 1
        /\ stack # <<>>
        /\ \A i \in 1 .. Len(stack) - 1 :
              stack'[i].node = stack[i].node /\ stack'[i].event = stack[i].event
        /\ Me \in Owned(Below.node) /\ Below.node \in Owners /\ Me \in Nodes
        /\ io' = Closed(Below.node, Me, Running.event)
        /\ broken \subseteq broken'
    BY <1>2, ComponentFinished
  <2>2. Running.event \in EventNames /\ io \in [Nodes -> Interfaces]
    BY <2>1, RunningFrame DEF Typed, Frames
  <2>3. ClosedFor(io', io, Below.node, Me, Running.event)
    BY <2>1, <2>2, ClosedInterface
  <2>4. OnStack' = {stack[i].node : i \in 1 .. Len(stack) - 1}
    BY <2>1 DEF OnStack
  <2>5. OnStack = OnStack' \cup {Me} /\ \A i \in 1 .. Len(stack) - 1 : stack[i].node # Me
    BY <2>1, <2>4, OnStackBelow, RunningOnce
  <2>6. \A i \in 1 .. Len(stack) - 1 : i \in 1 .. Len(stack)
    BY <2>1
  <2>7. \A i \in 1 .. Len(stack) - 1 :
           io'[stack[i].node] = io[stack[i].node]
    <3>1. \A i \in 1 .. Len(stack) - 1 :
             /\ stack[i].node \in Nodes /\ stack[i].node # Me
             /\ Below.node \in Collections => stack[i].node # Prototype[Below.node]
      BY <2>5, <2>6, NeverPrototype DEF Typed, Prototypes
    <3>2. QED
      BY <2>3, <3>1 DEF ClosedFor
  <2>8. ASSUME NEW i \in 1 .. Len(stack')
        PROVE  /\ io'[stack'[i].node].active
               /\ io'[stack'[i].node].dmode = Mode(stack'[i].event)
               /\ io'[stack'[i].node].dgoal = Goal(stack'[i].event)
    <3>1. i \in 1 .. Len(stack) - 1 /\ i \in 1 .. Len(stack)
      BY <2>1, <2>6, <2>8
    <3>2. OpenFor(stack[i].node, stack[i].event)
      BY <3>1 DEF OpenKept
    <3>3. QED
      BY <2>1, <2>7, <3>1, <3>2 DEF OpenFor
  <2>9. ASSUME NEW n \in Nodes, io'[n].active, n \notin OnStack'
        PROVE  n \in broken' /\ n \notin Prototypes
    <3>1. n # Me
      BY <2>3, <2>9 DEF ClosedFor
    <3>2. io'[n].active = io[n].active
      BY <2>3, <3>1 DEF ClosedFor
    <3>3. io[n].active /\ n \notin OnStack
      BY <2>5, <2>9, <3>1, <3>2
    <3>4. QED
      BY <2>1, <3>3 DEF OpenKept
  <2>10. QED
    BY <2>8, <2>9 DEF OpenKept, OpenFor
<1>3. QED
  BY <1>1, <1>2

LEMMA OpenUnwind ==
    ASSUME WellFormed, Typed, OpenKept, Unwinds
    PROVE  OpenKept'
<1>1. /\ stack # <<>> /\ Len(stack) \in Nat /\ Len(stack) > 0 /\ Running = stack[Len(stack)]
      /\ Len(stack') = Len(stack) - 1
      /\ \A i \in 1 .. Len(stack) - 1 : stack'[i] = stack[i]
      /\ broken' = broken \cup {Me}
  BY UnwindStep
<1>2. io' = io
  BY DEF Unwinds
<1>3. OnStack' = {stack[i].node : i \in 1 .. Len(stack) - 1}
  BY <1>1 DEF OnStack
<1>4. OnStack = OnStack' \cup {Me}
  BY <1>1, <1>3, OnStackBelow
<1>5. Me \notin Prototypes
  <2>1. Len(stack) \in 1 .. Len(stack)
    BY <1>1
  <2>2. QED
    BY <1>1, <2>1, NeverPrototype DEF Typed, Me
<1>6. ASSUME NEW i \in 1 .. Len(stack')
      PROVE  /\ io'[stack'[i].node].active
             /\ io'[stack'[i].node].dmode = Mode(stack'[i].event)
             /\ io'[stack'[i].node].dgoal = Goal(stack'[i].event)
  <2>1. i \in 1 .. Len(stack) - 1 /\ i \in 1 .. Len(stack)
    BY <1>1, <1>6
  <2>2. OpenFor(stack[i].node, stack[i].event)
    BY <2>1 DEF OpenKept
  <2>3. QED
    BY <1>1, <1>2, <2>1, <2>2 DEF OpenFor
<1>7. ASSUME NEW n \in Nodes, io'[n].active, n \notin OnStack'
      PROVE  n \in broken' /\ n \notin Prototypes
  BY <1>1, <1>2, <1>4, <1>5, <1>7 DEF OpenKept
<1>8. QED
  BY <1>6, <1>7 DEF OpenKept, OpenFor

LEMMA OpenStep ==
    ASSUME WellFormed, Typed, SimulationTimed, LifeKept, OpenKept, [Next]_vars
    PROVE  OpenKept'
<1>1. CASE UNCHANGED vars
  <2>1. UNCHANGED <<stack, io, broken>>
    BY <1>1 DEF vars, errorVars
  <2>2. QED
    BY <2>1, OpenSame DEF SameViews
<1>2. CASE Stays
  <2>1. UNCHANGED stack /\ SameViews(io', io) /\ broken \subseteq broken'
    BY <1>2 DEF Stays
  <2>2. QED
    BY <2>1, OpenSame
<1>3. ASSUME NEW f, GoesOnTo(f)
      PROVE  OpenKept'
  <2>1. /\ Len(stack') = Len(stack)
        /\ \A i \in 1 .. Len(stack) :
              stack'[i].node = stack[i].node /\ stack'[i].event = stack[i].event
    BY <1>3, GoesOnToStep
  <2>2. SameViews(io', io) /\ broken' = broken
    BY <1>3 DEF GoesOnTo
  <2>3. QED
    BY <2>1, <2>2, OpenSame
<1>4. QED
  BY <1>1, <1>2, <1>3, OpenStart, OpenCall, OpenFinish, OpenUnwind, StepKind DEF KindOfStep

\* The inductive invariant of the events in progress.
EventsKept == Typed /\ SimulationTimed /\ TimersKept /\ ListsKept /\ LifeKept /\ OpenKept

LEMMA EventsKeptInit ==
    ASSUME WellFormed, Init
    PROVE  EventsKept
<1>1. /\ stack = <<>> /\ Len(stack) = 0 /\ 1 .. 0 = {} /\ 1 .. 0 - 1 = {}
      /\ thrown = Nothing /\ sim_timing = FALSE /\ timing = {} /\ status = "new"
      /\ io = [n \in Nodes |-> node_interface]
      /\ initialized = {} /\ finalized = {} /\ plans = {} /\ registered = {}
  BY DEF Init
<1>2. Typed
  BY TypedInit
<1>3. SimulationTimed /\ TimersKept /\ ListsKept
  BY <1>1 DEF SimulationTimed, TimersKept, ListsKept
<1>4. \A c, m, e : ~AtHand(c, m, e) /\ ~Done(c, m, e)
  BY <1>1 DEF AtHand, Done
<1>5. LifeKept
  <2>1. PathKept /\ TopKept
    BY <1>1 DEF PathKept, TopKept
  <2>2. ComponentsKept
    BY <1>1, <1>4 DEF ComponentsKept
  <2>3. AgentsKept
    BY <1>1 DEF AgentsKept, AgentKept
  <2>4. QED
    BY <2>1, <2>2, <2>3 DEF LifeKept
<1>6. OpenKept
  <2>1. \A n \in Nodes : io[n].active = FALSE
    BY <1>1 DEF node_interface
  <2>2. QED
    BY <1>1, <2>1 DEF OpenKept
<1>7. QED
  BY <1>2, <1>3, <1>5, <1>6 DEF EventsKept

LEMMA EventsKeptStep ==
    ASSUME WellFormed, EventsKept, [Next]_vars
    PROVE  EventsKept'
  BY TypedStep, SimulationTimedStep, TimersStep, ListsStep, LifeStep, OpenStep DEF EventsKept

\* A port is usable exactly while an event of its node is in progress, nodes
\* are initialized first and finalized last, and event timers run exactly
\* while their code does (node_interface.cpp, port.h, core/timer.h), unless
\* an exception came between.
THEOREM OpenAndTimed == Spec => []OpenWhileInProgress
<1> USE NodesAssumption
<1>1. Init => EventsKept
  BY EventsKeptInit
<1>2. EventsKept /\ [Next]_vars => EventsKept'
  BY EventsKeptStep
<1>3. EventsKept => OpenWhileInProgress
  <2> SUFFICES ASSUME EventsKept PROVE OpenWhileInProgress
    OBVIOUS
  <2>1. Typed /\ SimulationTimed /\ TimersKept /\ LifeKept /\ OpenKept
    BY DEF EventsKept
  <2>2. InterfacesFollowTheStack
    <3>1. \A i \in 1 .. Len(stack) :
             /\ OpenFor(stack[i].node, stack[i].event)
             /\ (\A j \in 1 .. i : stack[j].node \notin broken) => LifeOf(stack[i].node, stack[i].event)
      BY <2>1 DEF OpenKept, LifeKept, PathKept
    <3>2. \A n \in Nodes : io[n].active /\ n \notin OnStack => n \in broken \ Prototypes
      BY <2>1 DEF OpenKept
    <3>3. QED
      BY <3>1, <3>2 DEF InterfacesFollowTheStack, OpenFor, LifeOf
  <2>3. TimersFollowTheStack
    <3>1. Len(stack) \in Nat
      BY <2>1, LenProperties DEF Typed, StackOK
    <3>2. \A i \in 1 .. Len(stack) : (i \in 1 .. Len(stack) - 1 \/ i = Len(stack))
            /\ (i < Len(stack) => i \in 1 .. Len(stack) - 1)
      BY <3>1
    <3>3. ASSUME NEW i \in 1 .. Len(stack), i = Len(stack), thrown = Nothing
          PROVE  stack[i].node \in timing <=> stack[i].pc \in {"user", "remove"}
      <4>1. stack # <<>>
        BY <3>1, <3>3
      <4>2. stack[i] = Running
        BY <3>3 DEF Running, Last
      <4>3. QED
        BY <2>1, <3>3, <4>1, <4>2 DEF TimersKept, Me
    <3>4. \A i \in 1 .. Len(stack) - 1 : stack[i].node \in timing
      BY <2>1 DEF TimersKept
    <3>5. timing \subseteq OnStack
      BY <2>1 DEF TimersKept
    <3>6. QED
      BY <2>1, <3>2, <3>3, <3>4, <3>5 DEF TimersFollowTheStack, SimulationTimed
  <2>4. QED
    BY <2>2, <2>3 DEF OpenWhileInProgress
<1>4. QED
  BY <1>1, <1>2, <1>3, PTL DEF Spec

-----------------------------------------------------------------------------
(* The messages                                                            *)

\* The messages of a node wait as long as its planned event is in progress,
\* and then until its owner empties the list.
Draining(n) ==
    \E i \in 1 .. Len(stack) : \E k \in DOMAIN stack[i].todo : stack[i].todo[k] = Step("drain", n)

Awaited(n) ==
    \/ n \in broken
    \/ \E c \in Owners \cap broken : n \in Owned(c)
    \/ Processing(n, "planned")
    \/ Draining(n)

\* User code of a collection runs: for a message of an agent, or in any event.
MicroRuns(c) ==
    \E i \in 1 .. Len(stack) :
        stack[i].node = c /\ stack[i].event = "planned" /\ stack[i].pc = "user"

UserRuns(c) ==
    \E i \in 1 .. Len(stack) : stack[i].node = c /\ stack[i].pc \in {"user", "remove"}

\* The inductive invariant.  The prototype's ports are used by user code only,
\* which leaves them empty.
SendsKept ==
    /\ io[Top].outputs = 0
    /\ \A n \in Nodes \ Prototypes : io[n].outputs > 0 => Awaited(n)
ReceiptsKept ==
    \A n \in Nodes \ Prototypes : io[n].received => n \in broken \/ Processing(n, "unplanned")
PrototypesKept ==
    \A c \in Collections :
        /\ io[Prototype[c]].outputs > 0 => c \in broken \/ MicroRuns(c)
        /\ io[Prototype[c]].received => c \in broken \cup finalized \/ UserRuns(c)
MessagesKept == SendsKept /\ ReceiptsKept /\ PrototypesKept

LEMMA MessagesStay ==
    ASSUME WellFormed, Typed, OpenKept, MessagesKept, Stays
    PROVE  MessagesKept'
<1>1. /\ stack' = stack /\ stack # <<>> /\ broken \subseteq broken' /\ finalized' = finalized
      /\ PortUsed(io')
  BY DEF Stays
<1>2. /\ \A n : Awaited(n) => Awaited(n)'
      /\ \A c : (MicroRuns(c) => MicroRuns(c)') /\ (UserRuns(c) => UserRuns(c)')
  BY <1>1 DEF Awaited, Processing, Draining, MicroRuns, UserRuns
<1>3. /\ Len(stack) \in 1 .. Len(stack) /\ stack[Len(stack)] = Running
      /\ Me \in Nodes /\ Running.node = Me
  <2>1. Len(stack) \in Nat /\ Len(stack) > 0 /\ stack[Len(stack)] = Running /\ Me \in Nodes
    BY <1>1, RunningFrame DEF Typed
  <2>2. QED
    BY <2>1 DEF Me
<1>4. Me \notin Prototypes
  BY <1>3, NeverPrototype DEF Typed
<1>5. ASSUME NEW n \in Nodes, n = Me, CanSend(io[Me]) PROVE Awaited(n)'
  <2>1. OpenFor(Me, Running.event)
    BY <1>3 DEF OpenKept
  <2>2. CanSend(io[Me]) => Running.event = "planned"
    BY <2>1 DEF CanSend, OpenFor, Mode, Goal
  <2>3. Processing(n, "planned")
    BY <1>3, <1>5, <2>2 DEF Processing
  <2>4. Awaited(n)
    BY <2>3 DEF Awaited
  <2>5. QED
    BY <1>2, <2>4
<1>6. \A m \in Nodes :
         /\ io'[m].outputs = io[m].outputs \/ (m = Me /\ Me # Top /\ CanSend(io[Me]))
         /\ io'[m].received = io[m].received
               \/ (Me \in Collections /\ m = Prototype[Me] /\ Running.pc = "user")
  BY <1>1 DEF PortUsed
<1>7. Top \in Nodes /\ \A c \in Collections : Prototype[c] \in Nodes /\ Prototype[c] \in Prototypes
  BY DEF WellFormed, Prototypes
<1>8. SendsKept'
  <2>1. io'[Top].outputs = 0
    BY <1>6, <1>7 DEF MessagesKept, SendsKept
  <2>2. ASSUME NEW n \in Nodes \ Prototypes, io'[n].outputs > 0 PROVE Awaited(n)'
    <3>1. CASE io'[n].outputs = io[n].outputs
      BY <1>2, <2>2, <3>1 DEF MessagesKept, SendsKept
    <3>2. CASE n = Me /\ CanSend(io[Me])
      BY <1>5, <3>2
    <3>3. QED
      BY <1>6, <3>1, <3>2
  <2>3. QED
    BY <2>1, <2>2 DEF SendsKept
<1>9. ReceiptsKept'
  <2>1. ASSUME NEW n \in Nodes \ Prototypes, io'[n].received
        PROVE  n \in broken' \/ Processing(n, "unplanned")'
    <3>1. io[n].received
      BY <1>6, <1>7, <2>1
    <3>2. n \in broken \/ Processing(n, "unplanned")
      BY <3>1 DEF MessagesKept, ReceiptsKept
    <3>3. QED
      BY <1>1, <3>2 DEF Processing
  <2>2. QED
    BY <2>1 DEF ReceiptsKept
<1>10. PrototypesKept'
  <2>1. ASSUME NEW c \in Collections, io'[Prototype[c]].outputs > 0
        PROVE  c \in broken' \/ MicroRuns(c)'
    <3>1. io'[Prototype[c]].outputs = io[Prototype[c]].outputs
      BY <1>4, <1>6, <1>7
    <3>2. c \in broken \/ MicroRuns(c)
      BY <2>1, <3>1 DEF MessagesKept, PrototypesKept
    <3>3. QED
      BY <1>1, <1>2, <3>2
  <2>2. ASSUME NEW c \in Collections, io'[Prototype[c]].received
        PROVE  c \in broken' \cup finalized' \/ UserRuns(c)'
    <3>1. CASE io[Prototype[c]].received
      <4>1. c \in broken \cup finalized \/ UserRuns(c)
        BY <3>1 DEF MessagesKept, PrototypesKept
      <4>2. QED
        BY <1>1, <1>2, <4>1
    <3>2. CASE Me \in Collections /\ Prototype[c] = Prototype[Me] /\ Running.pc = "user"
      <4>1. c = Me
        BY <3>2 DEF WellFormed
      <4>2. UserRuns(c)
        BY <1>3, <3>2, <4>1 DEF UserRuns
      <4>3. QED
        BY <1>2, <4>2
    <3>3. QED
      BY <1>6, <1>7, <2>2, <3>1, <3>2
  <2>3. QED
    BY <2>1, <2>2 DEF PrototypesKept
<1>11. QED
  BY <1>8, <1>9, <1>10 DEF MessagesKept

LEMMA DrainingGoesOn ==
    ASSUME WellFormed, Typed, NEW f, GoesOnTo(f), NEW n \in Nodes, Draining(n)
    PROVE  Draining(n)' \/ io'[n].outputs = 0
<1>1. /\ Len(stack') = Len(stack) /\ Len(stack) \in Nat /\ Len(stack) > 0
      /\ stack # <<>> /\ Running = stack[Len(stack)]
      /\ stack'[Len(stack)] = f
      /\ \A i \in 1 .. Len(stack) - 1 : stack'[i] = stack[i]
  BY GoesOnToStep
<1>2. PICK i \in 1 .. Len(stack) : \E k \in DOMAIN stack[i].todo : stack[i].todo[k] = Step("drain", n)
  BY DEF Draining
<1>3. CASE i # Len(stack)
  <2>1. i \in 1 .. Len(stack) - 1 /\ i \in 1 .. Len(stack')
    BY <1>1, <1>3
  <2>2. QED
    BY <1>1, <1>2, <2>1 DEF Draining
<1>4. CASE i = Len(stack)
  <2>1. PICK k \in DOMAIN Running.todo : Running.todo[k] = Step("drain", n)
    BY <1>1, <1>2, <1>4
  <2>2. Len(stack) \in 1 .. Len(stack')
    BY <1>1
  <2>3. (\E j \in DOMAIN f.todo : f.todo[j] = Step("drain", n)) => Draining(n)'
    BY <1>1, <2>2 DEF Draining
  <2>4. Running.pc # "enter"
    <3>1. Running.pc = "enter" => Running.todo = <<>>
      BY <1>1, RunningFrame DEF Typed, FrameOK
    <3>2. DOMAIN <<>> = {}
      OBVIOUS
    <3>3. QED
      BY <2>1, <3>1, <3>2
  <2>5. ListedOn(f)
    BY DEF GoesOnTo
  <2>6. CASE f.todo = Running.todo
    BY <2>1, <2>3, <2>6
  <2>7. CASE /\ Running.todo # <<>> /\ f.todo = Tail(Running.todo)
             /\ Head(Running.todo).do = "drain" => SentAs(io', io, Head(Running.todo).node, 0)
    <3> DEFINE t == Running.todo
    <3>1. /\ \A j \in 1 .. Len(t) - 1 : j \in DOMAIN f.todo /\ f.todo[j] = t[j + 1]
          /\ Len(t) \in Nat /\ DOMAIN t = 1 .. Len(t) /\ Head(t) = t[1]
      <4>1. t \in Seq(StepRecords)
        BY <1>1, RunningFrame DEF Typed, Frames
      <4>2. f.todo = Tail(t) /\ t # <<>>
        BY <2>7
      <4> HIDE DEF t
      <4>3. QED
        BY <4>1, <4>2
    <3>2. t[k] = Step("drain", n) /\ k \in DOMAIN t
      BY <2>1
    <3> HIDE DEF t
    <3>3. CASE k = 1
      <4>1. Head(t).do = "drain" /\ Head(t).node = n
        BY <3>1, <3>2, <3>3 DEF Step
      <4>2. SentAs(io', io, n, 0)
        BY <2>7, <4>1 DEF t
      <4>3. QED
        BY <4>2 DEF SentAs
    <3>4. CASE k # 1
      <4>1. k - 1 \in 1 .. Len(t) - 1 /\ (k - 1) + 1 = k
        BY <3>1, <3>2, <3>4
      <4>2. k - 1 \in DOMAIN f.todo /\ f.todo[k - 1] = Step("drain", n)
        BY <3>1, <3>2, <4>1
      <4>3. QED
        BY <2>3, <4>2
    <3>5. QED
      BY <3>3, <3>4
  <2>8. QED
    BY <2>4, <2>5, <2>6, <2>7 DEF ListedOn
<1>5. QED
  BY <1>3, <1>4

LEMMA MessagesGoOn ==
    ASSUME WellFormed, Typed, ListsKept, OpenKept, MessagesKept, NEW f, GoesOnTo(f)
    PROVE  MessagesKept'
<1>1. /\ Len(stack') = Len(stack) /\ Len(stack) \in Nat /\ Len(stack) > 0
      /\ stack # <<>> /\ Running = stack[Len(stack)] /\ Running.node = Me
      /\ stack'[Len(stack)] = f /\ f.node = Me /\ f.event = Running.event
      /\ \A i \in 1 .. Len(stack) - 1 : stack'[i] = stack[i]
      /\ \A i \in 1 .. Len(stack) :
            stack'[i].node = stack[i].node /\ stack'[i].event = stack[i].event
  BY GoesOnToStep
<1>2. TimedOn(f) /\ MessagesOn(f) /\ broken' = broken /\ finalized' = finalized /\ GoesOn(f)
  BY DEF GoesOnTo
<1>3. /\ Len(stack) \in 1 .. Len(stack) /\ Len(stack) \in 1 .. Len(stack') /\ Me \in Nodes
      /\ FrameOK(Running) /\ FrameOK(f)
      /\ \A i \in 1 .. Len(stack) : i \in 1 .. Len(stack') /\ (i \in 1 .. Len(stack) - 1 \/ i = Len(stack))
  <2>1. Me \in Nodes /\ FrameOK(Running)
    BY <1>1, RunningFrame DEF Typed
  <2>2. FrameOK(f)
    BY <1>2 DEF GoesOn
  <2>3. QED
    BY <1>1, <2>1, <2>2
<1>4. Me \notin Prototypes
  BY <1>1, <1>3, NeverPrototype DEF Typed
<1>5. \A n, e : Processing(n, e) => Processing(n, e)'
  BY <1>1, <1>3 DEF Processing
<1>6. ASSUME NEW n \in Nodes, Awaited(n), io'[n].outputs # 0 PROVE Awaited(n)'
  BY <1>2, <1>5, <1>6, DrainingGoesOn DEF Awaited
<1>7. \A c \in Collections : Prototype[c] \in Nodes /\ Prototype[c] \in Prototypes
  BY DEF WellFormed, Prototypes
<1>8. ASSUME Running.todo # <<>>, Head(Running.todo).do = "outward"
      PROVE  Me # Top /\ (\A n \in Nodes : n = Me => Awaited(n)')
  <2>1. 1 \in DOMAIN Running.todo /\ Running.todo[1] = Head(Running.todo)
    <3>1. Running.todo \in Seq(StepRecords)
      BY <1>1, RunningFrame DEF Typed, Frames
    <3>2. QED
      BY <1>8, <3>1
  <2>2. Me \in CompositeNodes
    <3>1. Me \in CompositeNodes \/ Me \in Collections \/ Me \in Atomics
      BY <1>3, Kinds
    <3>2. Me \notin Atomics
      BY <1>1, <1>3, <1>8 DEF FrameOK
    <3>3. Me \notin Collections
      BY <1>1, <1>3, <1>8, <2>1 DEF FrameOK
    <3>4. QED
      BY <3>1, <3>2, <3>3
  <2>3. Running.todo[1].do \in Within(Running.event) /\ Running.todo[1].node \in Owned(Me)
    BY <1>1, <1>3, <2>1, <2>2 DEF FrameOK
  <2>4. Running.event \in EventNames
    BY <1>1, RunningFrame DEF Typed, Frames
  <2>5. Running.event = "planned"
    BY <1>8, <2>1, <2>3, <2>4 DEF Within, EventNames
  <2>6. Running.todo[1].node \in Outward
    BY <1>1, <1>3, <1>8, <2>1 DEF ListsKept, ListOK
  <2>7. Me # Top
    BY <2>2, <2>3, <2>6 DEF WellFormed
  <2>8. \A n \in Nodes : n = Me => Processing(n, "planned")
    BY <1>1, <1>3, <2>5 DEF Processing
  <2>9. QED
    BY <1>5, <2>7, <2>8 DEF Awaited
<1>9. \A m \in Nodes :
         /\ \/ io'[m].outputs \in {io[m].outputs, 0}
            \/ m = Me /\ Running.todo # <<>> /\ Head(Running.todo).do = "outward"
            \/ Me \in Collections /\ m = Prototype[Me] /\ Running.event = "planned" /\ f.pc = "user"
         /\ io'[m].received => io[m].received
  BY <1>2 DEF MessagesOn
<1>10. Top \in Nodes /\ Top \notin Prototypes
  BY DEF WellFormed, Prototypes
<1>11. SendsKept'
  <2>1. io'[Top].outputs = 0
    BY <1>7, <1>8, <1>9, <1>10 DEF MessagesKept, SendsKept
  <2>2. ASSUME NEW n \in Nodes \ Prototypes, io'[n].outputs > 0 PROVE Awaited(n)'
    <3>1. CASE io'[n].outputs \in {io[n].outputs, 0}
      <4>1. io'[n].outputs # 0
        BY <2>2
      <4>2. io[n].outputs > 0
        BY <2>2, <3>1, <4>1
      <4>3. Awaited(n)
        BY <4>2 DEF MessagesKept, SendsKept
      <4>4. QED
        BY <1>6, <4>1, <4>3
    <3>2. CASE n = Me /\ Running.todo # <<>> /\ Head(Running.todo).do = "outward"
      BY <1>8, <3>2
    <3>3. QED
      BY <1>7, <1>9, <3>1, <3>2
  <2>3. QED
    BY <2>1, <2>2 DEF SendsKept
<1>12. ReceiptsKept'
  <2>1. ASSUME NEW n \in Nodes \ Prototypes, io'[n].received
        PROVE  n \in broken' \/ Processing(n, "unplanned")'
    <3>1. n \in broken \/ Processing(n, "unplanned")
      BY <1>9, <2>1 DEF MessagesKept, ReceiptsKept
    <3>2. QED
      BY <1>2, <1>5, <3>1
  <2>2. QED
    BY <2>1 DEF ReceiptsKept
<1>13. ASSUME NEW c \in Collections, Running.pc = "user", f.pc = "call", c = Me
       PROVE  io'[Prototype[c]].outputs = 0 /\ ~io'[Prototype[c]].received
  <2>1. Emptied(io', io, Prototype[Me])
    BY <1>2, <1>13 DEF TimedOn
  <2>2. QED
    BY <1>13, <2>1 DEF Emptied
<1>14. PrototypesKept'
  <2>1. ASSUME NEW c \in Collections, io'[Prototype[c]].outputs > 0
        PROVE  c \in broken' \/ MicroRuns(c)'
    <3>0. io'[Prototype[c]].outputs # 0
      BY <2>1
    <3>1. CASE io'[Prototype[c]].outputs \in {io[Prototype[c]].outputs, 0}
      <4>1. c \in broken \/ MicroRuns(c)
        BY <2>1, <3>0, <3>1 DEF MessagesKept, PrototypesKept
      <4>2. CASE MicroRuns(c)
        <5>1. PICK i \in 1 .. Len(stack) :
                 stack[i].node = c /\ stack[i].event = "planned" /\ stack[i].pc = "user"
          BY <4>2 DEF MicroRuns
        <5>2. CASE i \in 1 .. Len(stack) - 1
          BY <1>1, <1>3, <5>1, <5>2 DEF MicroRuns
        <5>3. CASE i = Len(stack)
          <6>1. Running.pc = "user" /\ c = Me /\ f.node = c /\ f.event = "planned"
            BY <1>1, <5>1, <5>3
          <6>2. f.pc # "call"
            BY <1>13, <3>0, <6>1
          <6>3. f.pc # "remove"
            BY <1>3, <6>1 DEF FrameOK
          <6>4. f.pc = "user"
            BY <1>2, <6>2, <6>3 DEF TimedOn
          <6>5. QED
            BY <1>1, <1>3, <6>1, <6>4 DEF MicroRuns
        <5>4. QED
          BY <1>3, <5>2, <5>3
      <4>3. QED
        BY <1>2, <4>1, <4>2
    <3>2. CASE Me \in Collections /\ Prototype[c] = Prototype[Me] /\ Running.event = "planned" /\ f.pc = "user"
      <4>1. c = Me
        BY <3>2 DEF WellFormed
      <4>2. QED
        BY <1>1, <1>3, <3>2, <4>1 DEF MicroRuns
    <3>3. QED
      BY <1>4, <1>7, <1>9, <3>1, <3>2
  <2>2. ASSUME NEW c \in Collections, io'[Prototype[c]].received
        PROVE  c \in broken' \cup finalized' \/ UserRuns(c)'
    <3>1. c \in broken \cup finalized \/ UserRuns(c)
      BY <1>7, <1>9, <2>2 DEF MessagesKept, PrototypesKept
    <3>2. CASE UserRuns(c)
      <4>1. PICK i \in 1 .. Len(stack) : stack[i].node = c /\ stack[i].pc \in {"user", "remove"}
        BY <3>2 DEF UserRuns
      <4>2. CASE i \in 1 .. Len(stack) - 1
        BY <1>1, <1>3, <4>1, <4>2 DEF UserRuns
      <4>3. CASE i = Len(stack)
        <5>1. Running.pc \in {"user", "remove"} /\ c = Me /\ f.node = c
          BY <1>1, <4>1, <4>3
        <5>2. f.pc \in {"user", "remove"} \/ (Running.pc = "user" /\ f.pc = "call")
          BY <1>2, <5>1 DEF TimedOn
        <5>3. f.pc \in {"user", "remove"}
          BY <1>13, <2>2, <5>1, <5>2
        <5>4. QED
          BY <1>1, <1>3, <5>1, <5>3 DEF UserRuns
      <4>4. QED
        BY <1>3, <4>2, <4>3
    <3>3. QED
      BY <1>2, <3>1, <3>2
  <2>3. QED
    BY <2>1, <2>2 DEF PrototypesKept
<1>15. QED
  BY <1>11, <1>12, <1>14 DEF MessagesKept

LEMMA DrainingCall ==
    ASSUME WellFormed, Typed, NEW n, NEW event, NEW f, NEW s, Called(n, event, f, s),
           NEW m \in Nodes, Draining(m)
    PROVE  Draining(m)'
<1>1. /\ Len(stack') = Len(stack) + 1 /\ Len(stack) \in Nat /\ Len(stack) > 0
      /\ stack # <<>> /\ Running = stack[Len(stack)]
      /\ stack'[Len(stack)] = f
      /\ \A i \in 1 .. Len(stack) - 1 : stack'[i] = stack[i]
      /\ event \in EventNames
  BY CalledStep
<1>2. PICK i \in 1 .. Len(stack) : \E k \in DOMAIN stack[i].todo : stack[i].todo[k] = Step("drain", m)
  BY DEF Draining
<1>3. CASE i # Len(stack)
  <2>1. i \in 1 .. Len(stack) - 1 /\ i \in 1 .. Len(stack')
    BY <1>1, <1>3
  <2>2. QED
    BY <1>1, <1>2, <2>1 DEF Draining
<1>4. CASE i = Len(stack)
  <2>1. PICK k \in DOMAIN Running.todo : Running.todo[k] = Step("drain", m)
    BY <1>1, <1>2, <1>4
  <2>2. Len(stack) \in 1 .. Len(stack')
    BY <1>1
  <2>3. (\E j \in DOMAIN f.todo : f.todo[j] = Step("drain", m)) => Draining(m)'
    BY <1>1, <2>2 DEF Draining
  <2>4. CASE f = Running
    BY <2>1, <2>3, <2>4
  <2>5. CASE f = Rest /\ Running.todo # <<>> /\ Head(Running.todo) = Step(event, n)
    <3> DEFINE t == Running.todo
    <3>1. t \in Seq(StepRecords) /\ t # <<>> /\ f.todo = Tail(t)
      BY <1>1, <2>5, RestOfFrame DEF Typed
    <3>2. t[k] = Step("drain", m) /\ k \in DOMAIN t /\ Head(t) = Step(event, n)
      BY <2>1, <2>5
    <3> HIDE DEF t
    <3>3. /\ \A j \in 1 .. Len(t) - 1 : j \in DOMAIN f.todo /\ f.todo[j] = t[j + 1]
          /\ Len(t) \in Nat /\ DOMAIN t = 1 .. Len(t) /\ Head(t) = t[1]
      BY <3>1
    <3>4. k # 1
      <4>1. Step(event, n).do # Step("drain", m).do
        BY <1>1 DEF Step, EventNames
      <4>2. QED
        BY <3>2, <3>3, <4>1
    <3>5. k - 1 \in 1 .. Len(t) - 1 /\ (k - 1) + 1 = k
      BY <3>2, <3>3, <3>4
    <3>6. k - 1 \in DOMAIN f.todo /\ f.todo[k - 1] = Step("drain", m)
      BY <3>2, <3>3, <3>5
    <3>7. QED
      BY <2>3, <3>6
  <2>6. QED
    BY <2>4, <2>5 DEF Called
<1>5. QED
  BY <1>3, <1>4

LEMMA MessagesCall ==
    ASSUME WellFormed, Typed, MessagesKept, NEW n, NEW event, NEW f, NEW s, Called(n, event, f, s)
    PROVE  MessagesKept'
<1>1. /\ Len(stack') = Len(stack) + 1 /\ Len(stack) \in Nat /\ Len(stack) > 0
      /\ stack # <<>> /\ Running = stack[Len(stack)] /\ Running.node = Me
      /\ stack'[Len(stack)] = f /\ stack'[Len(stack) + 1] = EnterFrame(n, event)
      /\ f.node = Me /\ f.event = Running.event /\ f.pc = Running.pc
      /\ \A i \in 1 .. Len(stack) - 1 : stack'[i] = stack[i]
      /\ n \in Nodes /\ event \in EventNames /\ n \in Owned(Me) /\ Me \in Owners
      /\ io' = activate(s, n, event)
      /\ broken' = broken /\ finalized' = finalized
  BY CalledStep
<1>2. \A i \in 1 .. Len(stack) :
         /\ stack'[i].node = stack[i].node /\ stack'[i].event = stack[i].event
         /\ stack'[i].pc = stack[i].pc
         /\ i \in 1 .. Len(stack')
  <2>1. \A i \in 1 .. Len(stack) : i \in 1 .. Len(stack) - 1 \/ i = Len(stack)
    BY <1>1
  <2>2. \A i \in 1 .. Len(stack) : i \in 1 .. Len(stack')
    BY <1>1
  <2>3. QED
    BY <1>1, <2>1, <2>2
<1>3. /\ \A m, e : Processing(m, e) => Processing(m, e)'
      /\ \A c : (MicroRuns(c) => MicroRuns(c)') /\ (UserRuns(c) => UserRuns(c)')
  BY <1>2 DEF Processing, MicroRuns, UserRuns
<1>4. \A m \in Nodes : Awaited(m) => Awaited(m)'
  BY <1>1, <1>3, DrainingCall DEF Awaited
<1>5. event = "unplanned" => Processing(n, "unplanned")'
  <2>1. Len(stack) + 1 \in 1 .. Len(stack')
    BY <1>1
  <2>2. EnterFrame(n, event).node = n /\ EnterFrame(n, event).event = event
    BY DEF EnterFrame
  <2>3. QED
    BY <1>1, <2>1, <2>2 DEF Processing
<1>6. \A m \in Nodes :
         /\ io'[m].outputs = io[m].outputs
         /\ io'[m].received => io[m].received \/ (m = n /\ event = "unplanned")
  <2>1. s \in [Nodes -> Interfaces] /\ MessageFor(s, n, event)
    BY DEF Called
  <2>2. OpenedAs(io', s, n, event)
    BY <1>1, <2>1, Opened
  <2>3. \A m \in Nodes : io'[m].outputs = s[m].outputs /\ io'[m].received = s[m].received
    BY <2>2 DEF OpenedAs
  <2>4. QED
    BY <2>1, <2>3 DEF MessageFor
<1>7. Top \in Nodes /\ \A c \in Collections : Prototype[c] \in Nodes /\ Prototype[c] \in Prototypes
  BY DEF WellFormed, Prototypes
<1>8. n \notin Prototypes
  BY <1>1, OneOwner
<1>9. SendsKept'
  <2>1. \A m \in Nodes \ Prototypes : io'[m].outputs > 0 => Awaited(m)'
    BY <1>4, <1>6 DEF MessagesKept, SendsKept
  <2>2. io'[Top].outputs = 0
    BY <1>6, <1>7 DEF MessagesKept, SendsKept
  <2>3. QED
    BY <2>1, <2>2 DEF SendsKept
<1>10. ReceiptsKept'
  <2>1. ASSUME NEW m \in Nodes \ Prototypes, io'[m].received
        PROVE  m \in broken' \/ Processing(m, "unplanned")'
    <3>1. CASE io[m].received
      BY <1>1, <1>3, <3>1 DEF MessagesKept, ReceiptsKept
    <3>2. CASE m = n /\ event = "unplanned"
      BY <1>5, <3>2
    <3>3. QED
      BY <1>6, <2>1, <3>1, <3>2
  <2>2. QED
    BY <2>1 DEF ReceiptsKept
<1>11. PrototypesKept'
  <2>1. ASSUME NEW c \in Collections, io'[Prototype[c]].outputs > 0
        PROVE  c \in broken' \/ MicroRuns(c)'
    <3>1. c \in broken \/ MicroRuns(c)
      BY <1>6, <1>7, <2>1 DEF MessagesKept, PrototypesKept
    <3>2. QED
      BY <1>1, <1>3, <3>1
  <2>2. ASSUME NEW c \in Collections, io'[Prototype[c]].received
        PROVE  c \in broken' \cup finalized' \/ UserRuns(c)'
    <3>1. c \in broken \cup finalized \/ UserRuns(c)
      BY <1>6, <1>7, <1>8, <2>2 DEF MessagesKept, PrototypesKept
    <3>2. QED
      BY <1>1, <1>3, <3>1
  <2>3. QED
    BY <2>1, <2>2 DEF PrototypesKept
<1>12. QED
  BY <1>9, <1>10, <1>11 DEF MessagesKept

LEMMA MessagesUnwind ==
    ASSUME WellFormed, Typed, MessagesKept, Unwinds
    PROVE  MessagesKept'
<1>1. /\ stack # <<>> /\ Len(stack) \in Nat /\ Len(stack) > 0 /\ Running = stack[Len(stack)]
      /\ Len(stack') = Len(stack) - 1
      /\ \A i \in 1 .. Len(stack) - 1 : stack'[i] = stack[i]
      /\ broken' = broken \cup {Me}
  BY UnwindStep
<1>2. io' = io /\ finalized' = finalized
  BY DEF Unwinds, eventVars
<1>3. /\ Me \in Nodes /\ Running.node = Me /\ FrameOK(Running)
      /\ \A i \in 1 .. Len(stack) : i \in 1 .. Len(stack') \/ i = Len(stack)
      /\ \A i \in 1 .. Len(stack') : i \in 1 .. Len(stack) - 1
  <2>1. \A i \in 1 .. Len(stack) : i \in 1 .. Len(stack') \/ i = Len(stack)
    BY <1>1
  <2>2. Me \in Nodes /\ FrameOK(Running)
    BY <1>1, RunningFrame DEF Typed
  <2>3. \A i \in 1 .. Len(stack') : i \in 1 .. Len(stack) - 1
    BY <1>1
  <2>4. QED
    BY <2>1, <2>2, <2>3 DEF Me
<1>4. \A m, e : Processing(m, e) => Processing(m, e)' \/ m \in broken'
  BY <1>1, <1>3 DEF Processing
<1>5. \A c : (MicroRuns(c) => MicroRuns(c)' \/ c \in broken')
             /\ (UserRuns(c) => UserRuns(c)' \/ c \in broken')
  BY <1>1, <1>3 DEF MicroRuns, UserRuns
<1>6. ASSUME NEW m \in Nodes, Draining(m)
      PROVE  Draining(m)' \/ (\E c \in Owners \cap broken' : m \in Owned(c))
  <2>1. PICK i \in 1 .. Len(stack) : \E k \in DOMAIN stack[i].todo : stack[i].todo[k] = Step("drain", m)
    BY <1>6 DEF Draining
  <2>2. CASE i \in 1 .. Len(stack')
    BY <1>1, <1>3, <2>1, <2>2 DEF Draining
  <2>3. CASE i = Len(stack)
    <3>1. PICK k \in DOMAIN Running.todo : Running.todo[k] = Step("drain", m)
      BY <1>1, <2>1, <2>3
    <3>2. Running.todo[k].node = m
      BY <3>1 DEF Step
    <3>3. Me \notin Atomics
      <4>1. DOMAIN <<>> = {}
        OBVIOUS
      <4>2. QED
        BY <1>3, <3>1, <4>1 DEF FrameOK
    <3>4. Me \in Owners /\ m \in Owned(Me)
      BY <1>3, <3>1, <3>2, <3>3, Kinds DEF FrameOK, Owners
    <3>5. QED
      BY <1>1, <3>4
  <2>4. QED
    BY <1>3, <2>2, <2>3
<1>7. ASSUME NEW m \in Nodes, Awaited(m) PROVE Awaited(m)'
  BY <1>1, <1>4, <1>6, <1>7 DEF Awaited
<1>8. SendsKept'
  BY <1>2, <1>7 DEF MessagesKept, SendsKept
<1>9. ReceiptsKept'
  <2>1. ASSUME NEW n \in Nodes \ Prototypes, io'[n].received
        PROVE  n \in broken' \/ Processing(n, "unplanned")'
    <3>1. n \in broken \/ Processing(n, "unplanned")
      BY <1>2, <2>1 DEF MessagesKept, ReceiptsKept
    <3>2. QED
      BY <1>1, <1>4, <3>1
  <2>2. QED
    BY <2>1 DEF ReceiptsKept
<1>10. PrototypesKept'
  <2>1. ASSUME NEW c \in Collections, io'[Prototype[c]].outputs > 0
        PROVE  c \in broken' \/ MicroRuns(c)'
    BY <1>1, <1>2, <1>5, <2>1 DEF MessagesKept, PrototypesKept
  <2>2. ASSUME NEW c \in Collections, io'[Prototype[c]].received
        PROVE  c \in broken' \cup finalized' \/ UserRuns(c)'
    BY <1>1, <1>2, <1>5, <2>2 DEF MessagesKept, PrototypesKept
  <2>3. QED
    BY <2>1, <2>2 DEF PrototypesKept
<1>11. QED
  BY <1>8, <1>9, <1>10 DEF MessagesKept

LEMMA MessagesFinishTop ==
    ASSUME WellFormed, Typed, MessagesKept, NEW finite, Finished(finite), Len(stack) = 1
    PROVE  MessagesKept'
<1>1. /\ Me = Top /\ Running = stack[1] /\ stack' = <<>> /\ io' = deactivate(io, Top)
      /\ broken' = broken
      /\ Running.event = "finalization" => finalized' = finalized \cup {Top}
      /\ finalized \subseteq finalized'
  BY TopFinished
<1>2. Top \in Nodes /\ io \in [Nodes -> Interfaces]
  BY DEF WellFormed, Typed
<1>3. \A m \in Nodes : io'[m].outputs = io[m].outputs /\ io'[m].received = io[m].received
  <2>1. ClosedAs(io', io, Top)
    BY <1>1, <1>2, ClosedOnly
  <2>2. QED
    BY <2>1 DEF ClosedAs
<1>4. \A i \in 1 .. Len(stack) : i = 1
  OBVIOUS
<1>5. /\ stack[1].node = Top /\ stack[1].event # "unplanned"
      /\ Running.todo = <<>> /\ FrameOK(Running)
      /\ Top \in Collections => Running.pc \in {"call", "remove"}
  <2>1. stack # <<>>
    BY DEF Finished
  <2>2. stack[1].node = Top /\ stack[1].event # "unplanned" /\ FrameOK(Running)
    BY <2>1, RunningFrame DEF Typed, StackOK
  <2>3. QED
    BY <1>1, <2>2 DEF Finished
<1>6. ASSUME NEW n \in Nodes \ {Top}, Awaited(n) PROVE Awaited(n)'
  <2>1. ~Processing(n, "planned")
    BY <1>4, <1>5, <1>6 DEF Processing
  <2>2. ~Draining(n)
    <3>1. DOMAIN <<>> = {}
      OBVIOUS
    <3>2. DOMAIN stack[1].todo = {}
      BY <1>1, <1>5, <3>1
    <3>3. \A i \in 1 .. Len(stack) : DOMAIN stack[i].todo = {}
      BY <1>4, <3>2
    <3>4. QED
      BY <3>3 DEF Draining
  <2>3. n \in broken \/ \E c \in Owners \cap broken : n \in Owned(c)
    BY <1>6, <2>1, <2>2 DEF Awaited
  <2>4. QED
    BY <1>1, <2>3 DEF Awaited
<1>7. SendsKept'
  <2>1. io'[Top].outputs = 0
    BY <1>2, <1>3 DEF MessagesKept, SendsKept
  <2>2. ASSUME NEW n \in Nodes \ Prototypes, io'[n].outputs > 0 PROVE Awaited(n)'
    <3>1. n # Top
      BY <2>1, <2>2
    <3>2. Awaited(n)
      BY <1>3, <2>2 DEF MessagesKept, SendsKept
    <3>3. QED
      BY <1>6, <3>1, <3>2
  <2>3. QED
    BY <2>1, <2>2 DEF SendsKept
<1>8. ReceiptsKept'
  <2>1. ASSUME NEW n \in Nodes \ Prototypes, io'[n].received PROVE n \in broken'
    <3>1. n \in broken \/ Processing(n, "unplanned")
      BY <1>3, <2>1 DEF MessagesKept, ReceiptsKept
    <3>2. ~Processing(n, "unplanned")
      BY <1>4, <1>5 DEF Processing
    <3>3. QED
      BY <1>1, <3>1, <3>2
  <2>2. QED
    BY <2>1 DEF ReceiptsKept
<1>9. PrototypesKept'
  <2>0. \A c \in Collections : Prototype[c] \in Nodes
    BY DEF WellFormed
  <2>1. ASSUME NEW c \in Collections, io'[Prototype[c]].outputs > 0 PROVE c \in broken'
    <3>1. c \in broken \/ MicroRuns(c)
      BY <1>3, <2>0, <2>1 DEF MessagesKept, PrototypesKept
    <3>2. ~MicroRuns(c)
      BY <1>1, <1>4, <1>5 DEF MicroRuns
    <3>3. QED
      BY <1>1, <3>1, <3>2
  <2>2. ASSUME NEW c \in Collections, io'[Prototype[c]].received
        PROVE  c \in broken' \cup finalized'
    <3>1. c \in broken \cup finalized \/ UserRuns(c)
      BY <1>3, <2>0, <2>2 DEF MessagesKept, PrototypesKept
    <3>2. UserRuns(c) => c = Top /\ Running.pc = "remove"
      BY <1>1, <1>4, <1>5 DEF UserRuns
    <3>3. c = Top /\ Running.pc = "remove" => Running.event = "finalization"
      BY <1>1, <1>5 DEF FrameOK
    <3>4. QED
      BY <1>1, <3>1, <3>2, <3>3
  <2>3. QED
    BY <2>1, <2>2 DEF PrototypesKept
<1>10. QED
  BY <1>7, <1>8, <1>9 DEF MessagesKept

LEMMA MessagesFinish ==
    ASSUME WellFormed, Typed, MessagesKept, NEW finite, Finished(finite)
    PROVE  MessagesKept'
<1>1. SUFFICES ASSUME Len(stack) # 1 PROVE MessagesKept'
  BY MessagesFinishTop
<1>2. /\ Len(stack) \in Nat /\ Len(stack) > 1 /\ Len(stack') = Len(stack) - 1
      /\ stack # <<>> /\ Running = stack[Len(stack)] /\ Running.node = Me
      /\ stack'[Len(stack) - 1] = AfterEvent
      /\ \A i \in 1 .. Len(stack) - 2 : stack'[i] = stack[i]
      /\ \A i \in 1 .. Len(stack) - 1 :
            stack'[i].node = stack[i].node /\ stack'[i].event = stack[i].event
      /\ Me \in Owned(Below.node) /\ Below.node \in Owners /\ Me \in Nodes
      /\ io' = Closed(Below.node, Me, Running.event)
      /\ broken \subseteq broken' /\ finalized \subseteq finalized'
      /\ Running.event = "finalization" => Me \in finalized'
  BY <1>1, ComponentFinished
<1>3. /\ AfterEvent.pc = Below.pc
      /\ Running.event # "planned" => AfterEvent = Below
      /\ \A j \in DOMAIN Below.todo : \E k \in DOMAIN AfterEvent.todo :
            AfterEvent.todo[k] = Below.todo[j]
      /\ Running.event = "planned" =>
            \E k \in DOMAIN AfterEvent.todo : AfterEvent.todo[k] = Step("drain", Me)
  BY <1>1, <1>2, AfterEventList
<1>4. /\ Running.todo = <<>> /\ FrameOK(Running) /\ Running.event \in EventNames
      /\ Me \in Collections => Running.pc \in {"call", "remove"}
  <2>1. FrameOK(Running) /\ Running \in Frames
    BY <1>2, RunningFrame DEF Typed
  <2>2. QED
    BY <2>1 DEF Finished, Frames
<1>5. /\ \A i \in 1 .. Len(stack) : i \in 1 .. Len(stack') \/ i = Len(stack)
      /\ \A i \in 1 .. Len(stack') : i \in 1 .. Len(stack) - 1
      /\ \A i \in 1 .. Len(stack') : i \in 1 .. Len(stack) - 2 \/ i = Len(stack) - 1
      /\ Len(stack) - 1 \in 1 .. Len(stack')
  BY <1>2
<1>6. \A i \in 1 .. Len(stack') : stack'[i].pc = stack[i].pc
  BY <1>2, <1>3, <1>5 DEF Below
<1>7. ClosedFor(io', io, Below.node, Me, Running.event)
  BY <1>2, <1>4, ClosedInterface DEF Typed
<1>8. /\ \A m \in Nodes : io'[m].outputs = io[m].outputs /\ (io'[m].received => io[m].received)
      /\ Running.event = "unplanned" => ~io'[Me].received
  <2>1. \A m \in Nodes : m # Me /\ (Below.node \in Collections => m # Prototype[Below.node]) => io'[m] = io[m]
    BY <1>7 DEF ClosedFor
  <2>2. /\ io'[Me].outputs = io[Me].outputs
        /\ io'[Me].received = IF Running.event = "unplanned" THEN FALSE ELSE io[Me].received
    BY <1>7 DEF ClosedFor
  <2>3. Below.node \in Collections =>
           LET p == Prototype[Below.node]
           IN io'[p].outputs = io[p].outputs
              /\ io'[p].received = IF Running.event = "unplanned" THEN FALSE ELSE io[p].received
    BY <1>7 DEF ClosedFor
  <2>4. QED
    BY <2>1, <2>2, <2>3
<1>9. ASSUME NEW n \in Nodes, Awaited(n) PROVE Awaited(n)'
  <2>1. CASE Processing(n, "planned")
    <3>1. PICK i \in 1 .. Len(stack) : stack[i].node = n /\ stack[i].event = "planned"
      BY <2>1 DEF Processing
    <3>2. CASE i \in 1 .. Len(stack')
      <4>1. Processing(n, "planned")'
        BY <1>2, <1>5, <3>1, <3>2 DEF Processing
      <4>2. QED
        BY <4>1 DEF Awaited
    <3>3. CASE i = Len(stack)
      <4>1. n = Me /\ Running.event = "planned"
        BY <1>2, <3>1, <3>3
      <4>2. \E k \in DOMAIN AfterEvent.todo : AfterEvent.todo[k] = Step("drain", n)
        BY <1>3, <4>1
      <4>3. Draining(n)'
        BY <1>2, <1>5, <4>2 DEF Draining
      <4>4. QED
        BY <4>3 DEF Awaited
    <3>4. QED
      BY <1>5, <3>2, <3>3
  <2>2. CASE Draining(n)
    <3>1. PICK i \in 1 .. Len(stack) : \E k \in DOMAIN stack[i].todo : stack[i].todo[k] = Step("drain", n)
      BY <2>2 DEF Draining
    <3>2. i # Len(stack)
      <4>1. DOMAIN <<>> = {}
        OBVIOUS
      <4>2. DOMAIN stack[Len(stack)].todo = {}
        BY <1>2, <1>4, <4>1
      <4>3. QED
        BY <3>1, <4>2
    <3>3. i \in 1 .. Len(stack')
      BY <1>5, <3>2
    <3>4. CASE i = Len(stack) - 1
      <4>1. PICK j \in DOMAIN Below.todo : Below.todo[j] = Step("drain", n)
        BY <3>1, <3>4 DEF Below
      <4>2. \E k \in DOMAIN AfterEvent.todo : AfterEvent.todo[k] = Step("drain", n)
        BY <1>3, <4>1
      <4>3. Draining(n)'
        BY <1>2, <1>5, <4>2 DEF Draining
      <4>4. QED
        BY <4>3 DEF Awaited
    <3>5. CASE i \in 1 .. Len(stack) - 2
      <4>1. Draining(n)'
        BY <1>2, <3>1, <3>3, <3>5 DEF Draining
      <4>2. QED
        BY <4>1 DEF Awaited
    <3>6. QED
      BY <1>5, <3>3, <3>4, <3>5
  <2>3. CASE n \in broken \/ \E c \in Owners \cap broken : n \in Owned(c)
    BY <1>2, <2>3 DEF Awaited
  <2>4. QED
    BY <1>9, <2>1, <2>2, <2>3 DEF Awaited
<1>10. Top \in Nodes /\ \A c \in Collections : Prototype[c] \in Nodes
  BY DEF WellFormed
<1>11. SendsKept'
  <2>1. io'[Top].outputs = 0
    BY <1>8, <1>10 DEF MessagesKept, SendsKept
  <2>2. \A n \in Nodes \ Prototypes : io'[n].outputs > 0 => Awaited(n)'
    BY <1>8, <1>9 DEF MessagesKept, SendsKept
  <2>3. QED
    BY <2>1, <2>2 DEF SendsKept
<1>12. ReceiptsKept'
  <2>1. ASSUME NEW n \in Nodes \ Prototypes, io'[n].received
        PROVE  n \in broken' \/ Processing(n, "unplanned")'
    <3>1. n \in broken \/ Processing(n, "unplanned")
      BY <1>8, <2>1 DEF MessagesKept, ReceiptsKept
    <3>2. CASE Processing(n, "unplanned")
      <4>1. PICK i \in 1 .. Len(stack) : stack[i].node = n /\ stack[i].event = "unplanned"
        BY <3>2 DEF Processing
      <4>2. i # Len(stack)
        BY <1>2, <1>8, <2>1, <4>1
      <4>3. QED
        BY <1>2, <1>5, <4>1, <4>2 DEF Processing
    <3>3. QED
      BY <1>2, <3>1, <3>2
  <2>2. QED
    BY <2>1 DEF ReceiptsKept
<1>13. PrototypesKept'
  <2>1. ASSUME NEW c \in Collections, io'[Prototype[c]].outputs > 0
        PROVE  c \in broken' \/ MicroRuns(c)'
    <3>1. c \in broken \/ MicroRuns(c)
      BY <1>8, <1>10, <2>1 DEF MessagesKept, PrototypesKept
    <3>2. CASE MicroRuns(c)
      <4>1. PICK i \in 1 .. Len(stack) :
               stack[i].node = c /\ stack[i].event = "planned" /\ stack[i].pc = "user"
        BY <3>2 DEF MicroRuns
      <4>2. i # Len(stack)
        BY <1>2, <1>4, <4>1
      <4>3. QED
        BY <1>2, <1>5, <1>6, <4>1, <4>2 DEF MicroRuns
    <3>3. QED
      BY <1>2, <3>1, <3>2
  <2>2. ASSUME NEW c \in Collections, io'[Prototype[c]].received
        PROVE  c \in broken' \cup finalized' \/ UserRuns(c)'
    <3>1. c \in broken \cup finalized \/ UserRuns(c)
      BY <1>8, <1>10, <2>2 DEF MessagesKept, PrototypesKept
    <3>2. CASE UserRuns(c)
      <4>1. PICK i \in 1 .. Len(stack) : stack[i].node = c /\ stack[i].pc \in {"user", "remove"}
        BY <3>2 DEF UserRuns
      <4>2. CASE i = Len(stack)
        <5>1. c = Me /\ Running.pc = "remove"
          BY <1>2, <1>4, <4>1, <4>2
        <5>2. Running.event = "finalization"
          BY <1>2, <1>4, <5>1 DEF FrameOK
        <5>3. QED
          BY <1>2, <5>1, <5>2
      <4>3. CASE i # Len(stack)
        BY <1>2, <1>5, <1>6, <4>1, <4>3 DEF UserRuns
      <4>4. QED
        BY <4>2, <4>3
    <3>3. QED
      BY <1>2, <3>1, <3>2
  <2>3. QED
    BY <2>1, <2>2 DEF PrototypesKept
<1>14. QED
  BY <1>11, <1>12, <1>13 DEF MessagesKept

LEMMA MessagesStart ==
    ASSUME WellFormed, Typed, MessagesKept, process_next_event
    PROVE  MessagesKept'
<1>1. /\ stack = <<>> /\ Len(stack) = 0 /\ 1 .. 0 = {}
      /\ broken' = broken /\ finalized' = finalized
  BY DEF process_next_event, eventVars
<1>2. PICK event \in EventNames : io' = activate(io, Top, event)
  BY TypedFirst
<1>3. Top \in Nodes /\ io \in [Nodes -> Interfaces] /\ \A c \in Collections : Prototype[c] \in Nodes
  BY DEF WellFormed, Typed
<1>4. OpenedAs(io', io, Top, event)
  BY <1>2, <1>3, Opened
<1>5. \A m \in Nodes : io'[m].outputs = io[m].outputs /\ io'[m].received = io[m].received
  BY <1>4 DEF OpenedAs
<1>6. /\ \A m, e : ~Processing(m, e)
      /\ \A m : ~Draining(m) /\ ~MicroRuns(m) /\ ~UserRuns(m)
  BY <1>1 DEF Processing, Draining, MicroRuns, UserRuns
<1>7. SendsKept'
  <2>1. \A n : Awaited(n) => Awaited(n)'
    BY <1>1, <1>6 DEF Awaited
  <2>2. io'[Top].outputs = 0
    BY <1>3, <1>5 DEF MessagesKept, SendsKept
  <2>3. \A n \in Nodes \ Prototypes : io'[n].outputs > 0 => Awaited(n)'
    BY <1>5, <2>1 DEF MessagesKept, SendsKept
  <2>4. QED
    BY <2>2, <2>3 DEF SendsKept
<1>8. ReceiptsKept'
  BY <1>1, <1>5, <1>6 DEF MessagesKept, ReceiptsKept
<1>9. PrototypesKept'
  BY <1>1, <1>3, <1>5, <1>6 DEF MessagesKept, PrototypesKept
<1>10. QED
  BY <1>7, <1>8, <1>9 DEF MessagesKept

LEMMA MessagesStep ==
    ASSUME WellFormed, Typed, ListsKept, OpenKept, MessagesKept, [Next]_vars
    PROVE  MessagesKept'
<1>1. CASE UNCHANGED vars
  <2>1. UNCHANGED <<stack, io, broken, finalized>>
    BY <1>1 DEF vars, errorVars, eventVars
  <2>2. QED
    BY <2>1 DEF MessagesKept, SendsKept, ReceiptsKept, PrototypesKept, Awaited, Processing,
                Draining, MicroRuns, UserRuns
<1>2. QED
  BY <1>1, MessagesStart, MessagesStay, MessagesGoOn, MessagesCall, MessagesFinish,
     MessagesUnwind, StepKind DEF KindOfStep

\* No message outlives its event (composite_node.cpp and collection_node.h
\* empty the lists, node_interface.cpp and port.h let them be filled only in
\* the right event): messages wait to be sent only in the planned event that
\* sent them and while the owner hands them on, and are received only in the
\* unplanned event they cause, unless an exception came between.
THEOREM MessagesEnd == Spec => []MessagesEndWithTheirEvent
<1> USE NodesAssumption
<1> DEFINE IInv == EventsKept /\ MessagesKept
<1>1. Init => IInv
  <2> SUFFICES ASSUME Init PROVE IInv
    OBVIOUS
  <2>1. EventsKept
    BY EventsKeptInit
  <2>2. \A n \in Nodes : io[n].outputs = 0 /\ io[n].received = FALSE
    BY DEF Init, node_interface
  <2>3. Top \in Nodes /\ \A c \in Collections : Prototype[c] \in Nodes
    BY DEF WellFormed
  <2>4. MessagesKept
    BY <2>2, <2>3 DEF MessagesKept, SendsKept, ReceiptsKept, PrototypesKept
  <2>5. QED
    BY <2>1, <2>4
<1>2. IInv /\ [Next]_vars => IInv'
  BY EventsKeptStep, MessagesStep DEF EventsKept
<1>3. IInv => MessagesEndWithTheirEvent
  <2> SUFFICES ASSUME IInv, NEW n \in Nodes
               PROVE  /\ io[n].outputs > 0 =>
                            \/ n \in broken
                            \/ \E c \in Owners \cap broken : n \in Owned(c)
                            \/ Processing(n, "planned")
                            \/ \E i \in 1 .. Len(stack) : Step("drain", n) \in ToSet(stack[i].todo)
                            \/ \E c \in Collections :
                                  n = Prototype[c] /\ (c \in broken \/ Processing(c, "planned"))
                      /\ io[n].received =>
                            \/ n \in broken
                            \/ Processing(n, "unplanned")
                            \/ \E c \in Collections :
                                  n = Prototype[c] /\ c \in broken \cup OnStack \cup finalized
    BY DEF MessagesEndWithTheirEvent
  <2> HIDE DEF IInv
  <2>1. SendsKept /\ ReceiptsKept /\ PrototypesKept
    BY DEF IInv, MessagesKept
  <2>2. Draining(n) => \E i \in 1 .. Len(stack) : Step("drain", n) \in ToSet(stack[i].todo)
    BY DEF Draining, ToSet
  <2>3. CASE n \notin Prototypes
    BY <2>1, <2>2, <2>3 DEF SendsKept, ReceiptsKept, Awaited
  <2>4. CASE n \in Prototypes
    <3>1. PICK c \in Collections : n = Prototype[c]
      BY <2>4 DEF Prototypes
    <3>2. /\ io[n].outputs > 0 => c \in broken \/ MicroRuns(c)
          /\ io[n].received => c \in broken \cup finalized \/ UserRuns(c)
      BY <2>1, <3>1 DEF PrototypesKept
    <3>3. MicroRuns(c) => Processing(c, "planned")
      BY DEF MicroRuns, Processing
    <3>4. UserRuns(c) => c \in OnStack
      BY DEF UserRuns, OnStack
    <3>5. QED
      BY <3>1, <3>2, <3>3, <3>4
  <2>5. QED
    BY <2>3, <2>4
<1>4. QED
  BY <1>1, <1>2, <1>3, PTL DEF Spec

-----------------------------------------------------------------------------
(* The errors                                                              *)

\* The nodes of a path are above one another, and nothing else is above them.
PathOK(s) ==
    /\ s \in Seq(Frames)
    /\ \A i \in 1 .. Len(s) - 1 : CalledBy(s[i], s[i + 1])
    /\ s # <<>> => s[1].node = Top

PathAbove(s) ==
    \A j \in 1 .. Len(s) : \A i \in 1 .. j - 1 : s[i].node \in Above(s[j].node)

LEMMA AboveOwned ==
    ASSUME WellFormed, NEW c \in Owners, NEW n \in Owned(c)
    PROVE  /\ c \in Above(n)
           /\ \A m \in Above(c) : m # n => m \in Above(n)
<1>1. c \in Nodes /\ c # n
  BY OneOwner, NotItsOwner
<1>2. \A S \in SUBSET Nodes : n \in S /\ ClosedUpward(S) => c \in S
  BY DEF ClosedUpward
<1>3. c \in Above(n)
  BY <1>1, <1>2 DEF Above
<1>4. ASSUME NEW m \in Above(c), m # n PROVE m \in Above(n)
  <2>1. m \in Nodes /\ \A S \in SUBSET Nodes : c \in S /\ ClosedUpward(S) => m \in S
    BY DEF Above
  <2>2. \A S \in SUBSET Nodes : n \in S /\ ClosedUpward(S) => m \in S
    BY <1>2, <2>1
  <2>3. QED
    BY <1>4, <2>1, <2>2 DEF Above
<1>5. QED
  BY <1>3, <1>4

LEMMA PathClosed ==
    ASSUME WellFormed, NEW s, PathOK(s), NEW j \in 1 .. Len(s)
    PROVE  Above(s[j].node) \subseteq {s[i].node : i \in 1 .. j - 1}
<1> DEFINE S == {s[i].node : i \in 1 .. j}
<1>1. /\ Len(s) \in Nat /\ \A i \in 1 .. Len(s) : s[i].node \in Nodes
      /\ s[1].node = Top
  <2>1. Len(s) \in Nat /\ \A i \in 1 .. Len(s) : s[i] \in Frames
    BY LenProperties, ElementOfSeq DEF PathOK
  <2>2. s # <<>>
    <3>1. s = <<>> => Len(s) = 0
      OBVIOUS
    <3>2. QED
      BY <2>1, <3>1
  <2>3. QED
    BY <2>1, <2>2 DEF Frames, PathOK
<1>2. \A i \in 1 .. j : i \in 1 .. Len(s)
  BY <1>1
<1>3. S \in SUBSET Nodes /\ s[j].node \in S
  BY <1>1, <1>2
<1>4. ASSUME NEW c \in Owners, NEW n \in Owned(c), n \in S PROVE c \in S
  <2>1. PICK i \in 1 .. j : n = s[i].node
    BY <1>4
  <2>2. n # Top /\ \A d \in Owners : n \in Owned(d) => d = c
    BY OneOwner
  <2>3. i # 1
    BY <1>1, <2>1, <2>2
  <2>4. i - 1 \in 1 .. Len(s) - 1 /\ (i - 1) + 1 = i /\ i - 1 \in 1 .. j
    BY <1>1, <2>1, <2>3
  <2>5. CalledBy(s[i - 1], s[i])
    BY <2>4 DEF PathOK
  <2>6. s[i - 1].node = c
    BY <2>1, <2>2, <2>5 DEF CalledBy
  <2>7. QED
    BY <2>4, <2>6
<1>5. ClosedUpward(S)
  <2> HIDE DEF S
  <2> QED  BY <1>4 DEF ClosedUpward
<1>6. ASSUME NEW m \in Above(s[j].node) PROVE m \in {s[i].node : i \in 1 .. j - 1}
  <2>1. m \in S /\ m # s[j].node
    <3> HIDE DEF S
    <3> QED  BY <1>3, <1>5 DEF Above
  <2>2. PICK i \in 1 .. j : m = s[i].node
    BY <2>1
  <2>3. i \in 1 .. j - 1
    BY <2>1, <2>2
  <2>4. QED
    BY <2>2, <2>3
<1>7. QED
  BY <1>6

\* The path of the events in progress.
LEMMA PathAboveStep ==
    ASSUME WellFormed, Typed, PathAbove(stack), [Next]_vars
    PROVE  PathAbove(stack')
<1>1. ASSUME Len(stack') \in Nat, \A i \in 1 .. Len(stack') : i \in 1 .. Len(stack) /\ stack'[i].node = stack[i].node
      PROVE  PathAbove(stack')
  <2>1. \A j \in 1 .. Len(stack') : \A i \in 1 .. j - 1 : i \in 1 .. Len(stack')
    BY <1>1
  <2>2. QED
    BY <1>1, <2>1 DEF PathAbove
<1>2. CASE process_next_event
  <2>1. PICK event : stack' = <<>> \/ stack' = <<EnterFrame(Top, event)>>
    BY <1>2, TypedFirst
  <2>2. Len(stack') \in {0, 1}
    BY <2>1
  <2>3. ASSUME NEW j \in 1 .. Len(stack'), NEW i \in 1 .. j - 1 PROVE FALSE
    <3>1. 1 .. Len(stack') = {} \/ 1 .. Len(stack') = {1}
      <4>1. CASE Len(stack') = 0
        BY <4>1
      <4>2. CASE Len(stack') = 1
        BY <4>2
      <4>3. QED
        BY <2>2, <4>1, <4>2
    <3>2. j = 1
      BY <3>1
    <3>3. QED
      BY <3>2
  <2>4. QED
    BY <2>3 DEF PathAbove
<1>3. CASE UNCHANGED vars \/ Stays
  <2>1. stack' = stack
    BY <1>3 DEF vars, Stays
  <2>2. QED
    BY <2>1 DEF PathAbove
<1>4. CASE \E f : GoesOnTo(f)
  BY <1>1, <1>4, GoesOnToStep
<1>5. ASSUME NEW n, NEW event, NEW f, NEW s, Called(n, event, f, s)
      PROVE  PathAbove(stack')
  <2>1. /\ Len(stack') = Len(stack) + 1 /\ Len(stack) \in Nat /\ Len(stack) > 0
        /\ stack # <<>> /\ Running = stack[Len(stack)]
        /\ stack'[Len(stack) + 1] = EnterFrame(n, event)
        /\ \A i \in 1 .. Len(stack) : stack'[i].node = stack[i].node
        /\ n \in Owned(Me) /\ Me \in Owners
    BY <1>5, CalledStep
  <2>2. n \notin OnStack
    BY <1>5, CalledNew
  <2>3. stack'[Len(stack) + 1].node = n
    BY <2>1 DEF EnterFrame
  <2>4. ASSUME NEW i \in 1 .. Len(stack) PROVE stack[i].node \in Above(n)
    <3>1. stack[i].node # n
      BY <2>2 DEF OnStack
    <3>2. CASE i = Len(stack)
      BY <2>1, <3>2, AboveOwned DEF Me
    <3>3. CASE i # Len(stack)
      <4>1. i \in 1 .. Len(stack) - 1 /\ Len(stack) \in 1 .. Len(stack)
        BY <2>1, <3>3
      <4>2. stack[i].node \in Above(Me)
        BY <2>1, <4>1 DEF PathAbove, Me
      <4>3. QED
        BY <2>1, <3>1, <4>2, AboveOwned
    <3>4. QED
      BY <3>2, <3>3
  <2>5. ASSUME NEW j \in 1 .. Len(stack'), NEW i \in 1 .. j - 1
        PROVE  stack'[i].node \in Above(stack'[j].node)
    <3>1. CASE j = Len(stack) + 1
      <4>1. i \in 1 .. Len(stack)
        BY <2>1, <3>1
      <4>2. QED
        BY <2>1, <2>3, <2>4, <3>1, <4>1
    <3>2. CASE j # Len(stack) + 1
      <4>1. j \in 1 .. Len(stack) /\ i \in 1 .. Len(stack)
        BY <2>1, <3>2
      <4>2. QED
        BY <2>1, <4>1 DEF PathAbove
    <3>3. QED
      BY <3>1, <3>2
  <2>6. QED
    BY <2>5 DEF PathAbove
<1>6. ASSUME NEW finite, Finished(finite) PROVE PathAbove(stack')
  <2>1. CASE Len(stack) = 1
    <3>1. stack' = <<>>
      BY <1>6, <2>1, TopFinished
    <3>2. Len(stack') = 0 /\ 1 .. 0 = {}
      BY <3>1
    <3>3. QED
      BY <3>2 DEF PathAbove
  <2>2. CASE Len(stack) # 1
    <3>1. /\ Len(stack) \in Nat /\ Len(stack) > 1 /\ Len(stack') = Len(stack) - 1
          /\ \A i \in 1 .. Len(stack) - 1 : stack'[i].node = stack[i].node
      BY <1>6, <2>2, ComponentFinished
    <3>2. Len(stack') \in Nat /\ \A i \in 1 .. Len(stack') : i \in 1 .. Len(stack) - 1 /\ i \in 1 .. Len(stack)
      BY <3>1
    <3>3. QED
      BY <1>1, <3>1, <3>2
  <2>3. QED
    BY <2>1, <2>2
<1>7. CASE Unwinds
  <2>1. /\ Len(stack) \in Nat /\ Len(stack) > 0 /\ Len(stack') = Len(stack) - 1
        /\ \A i \in 1 .. Len(stack) - 1 : stack'[i] = stack[i]
    BY <1>7, UnwindStep
  <2>2. Len(stack') \in Nat /\ \A i \in 1 .. Len(stack') : i \in 1 .. Len(stack) - 1 /\ i \in 1 .. Len(stack)
    BY <2>1
  <2>3. QED
    BY <1>1, <2>1, <2>2
<1>8. QED
  BY <1>2, <1>3, <1>4, <1>5, <1>6, <1>7, StepKind DEF KindOfStep


\* An exception on its way up.  The nodes whose events it has not reached are
\* above its origin.  Once caught it names the node it has reached; as an
\* error it names, of the collections it has passed, the one above the others,
\* and its origin when there is none.
Beneath(s) == {s[i].node : i \in 1 .. Len(s) - 1}
Passed(s, e) == (Above(e.origin) \cap Collections) \ Beneath(s)
NamesOutermost(s, e) ==
    IF Passed(s, e) = {} THEN e.named = e.origin
    ELSE e.named \in Passed(s, e) /\ Above(e.named) \cap Passed(s, e) = {}
ErrorFor(s, e, t) ==
    e # Nothing /\ (s # <<>> \/ e.type = "error") =>
        /\ Beneath(s) \subseteq Above(e.origin)
        /\ NamesOutermost(s, e)
        /\ e.type = "exception" =>
              e.named = s[Len(s)].node /\ (e.origin \in t \/ e.origin = s[Len(s)].node)
        /\ e.type = "error" =>
              {e.origin, e.named} \subseteq t /\ (s # <<>> => s[Len(s)].node \notin Collections)
ErrorKept == ErrorFor(stack, thrown, told)

LEMMA ErrorNew ==
    ASSUME WellFormed, NEW s, NEW t, NEW n, PathOK(s), PathAbove(s), s # <<>>,
           n = s[Len(s)].node
    PROVE  ErrorFor(s, Exception(n), t)
<1>1. Len(s) \in Nat /\ Len(s) > 0 /\ n \in Nodes
  <2>1. Len(s) \in Nat /\ \A i \in 1 .. Len(s) : s[i] \in Frames
    BY LenProperties, ElementOfSeq DEF PathOK
  <2>2. Len(s) # 0
    BY EmptySeq DEF PathOK
  <2>3. Len(s) \in 1 .. Len(s)
    BY <2>1, <2>2
  <2>4. QED
    BY <2>1, <2>2, <2>3 DEF Frames
<1>2. Len(s) \in 1 .. Len(s)
  BY <1>1
<1>3. Above(n) \subseteq Beneath(s)
  BY <1>2, PathClosed DEF Beneath
<1>4. Beneath(s) \subseteq Above(n)
  BY <1>2 DEF Beneath, PathAbove
<1>5. Exception(n).type = "exception" /\ Exception(n).named = n /\ Exception(n).origin = n
  BY <1>1, Thrown
<1>6. Passed(s, Exception(n)) = {}
  BY <1>3, <1>5 DEF Passed
<1>7. NamesOutermost(s, Exception(n))
  BY <1>5, <1>6 DEF NamesOutermost
<1>8. QED
  BY <1>4, <1>5, <1>7 DEF ErrorFor

LEMMA ErrorUnwinds ==
    ASSUME WellFormed, Typed, PathAbove(stack), ErrorKept, Unwinds
    PROVE  ErrorFor(stack', thrown', told')
<1> DEFINE owned == Len(stack) > 1
           sliced == owned /\ Below.node \in Collections
<1>1. /\ stack # <<>> /\ Len(stack) \in Nat /\ Len(stack) > 0 /\ Running = stack[Len(stack)]
      /\ Len(stack') = Len(stack) - 1
      /\ \A i \in 1 .. Len(stack) - 1 : stack'[i] = stack[i]
      /\ thrown # Nothing
      /\ thrown \in [type : {"exception", "error"}, named : Nodes, origin : Nodes]
      /\ thrown'.origin = thrown.origin
      /\ IF sliced THEN thrown'.type = "exception" /\ thrown'.named = Below.node
                   ELSE thrown'.type = "error" /\ thrown'.named = thrown.named
  BY UnwindStep
<1>2. told' = IF thrown.type = "exception" THEN told \cup {Me} ELSE told
  BY DEF Unwinds
<1>3. /\ Beneath(stack) \subseteq Above(thrown.origin)
      /\ NamesOutermost(stack, thrown)
      /\ thrown.type = "exception" => thrown.named = Me /\ (thrown.origin \in told \/ thrown.origin = Me)
      /\ thrown.type = "error" => {thrown.origin, thrown.named} \subseteq told
  BY <1>1 DEF ErrorKept, ErrorFor, Me
<1>4. {thrown.origin, thrown.named} \subseteq told'
  BY <1>1, <1>2, <1>3
<1>5. Beneath(stack') \subseteq Beneath(stack)
  <2>1. \A i \in 1 .. Len(stack') - 1 : i \in 1 .. Len(stack) - 1
    BY <1>1
  <2>2. QED
    BY <1>1, <2>1 DEF Beneath
<1>6. owned => /\ Len(stack) - 1 \in 1 .. Len(stack) - 1 /\ Len(stack) - 1 \in 1 .. Len(stack)
               /\ stack'[Len(stack')].node = Below.node /\ Below.node \in Beneath(stack)
               /\ Beneath(stack) = Beneath(stack') \cup {Below.node}
  <2> SUFFICES ASSUME owned PROVE
               /\ Len(stack) - 1 \in 1 .. Len(stack) - 1 /\ Len(stack) - 1 \in 1 .. Len(stack)
               /\ stack'[Len(stack')].node = Below.node /\ Below.node \in Beneath(stack)
               /\ Beneath(stack) = Beneath(stack') \cup {Below.node}
    OBVIOUS
  <2>1. Len(stack) - 1 \in 1 .. Len(stack) - 1 /\ Len(stack) - 1 \in 1 .. Len(stack)
    BY <1>1
  <2>2. stack'[Len(stack')].node = Below.node /\ Below.node \in Beneath(stack)
    BY <1>1, <2>1 DEF Below, Beneath
  <2>3. \A i \in 1 .. Len(stack) - 1 : i = Len(stack) - 1 \/ i \in 1 .. Len(stack') - 1
    BY <1>1
  <2>4. Beneath(stack) \subseteq Beneath(stack') \cup {Below.node}
    BY <1>1, <2>3 DEF Below, Beneath
  <2>5. QED
    BY <1>5, <2>1, <2>2, <2>4
<1>7. ~owned => Beneath(stack) = {} /\ stack' = <<>>
  <2> SUFFICES ASSUME ~owned PROVE Beneath(stack) = {} /\ stack' = <<>>
    OBVIOUS
  <2>1. 1 .. Len(stack) - 1 = {} /\ Len(stack') = 0
    BY <1>1
  <2>2. stack' \in Seq(Frames)
    BY UnwindStep DEF StackOK
  <2>3. QED
    BY <2>1, <2>2, EmptySeq DEF Beneath
<1>8. CASE sliced
  <2>1. Below.node \in Passed(stack', thrown')
    <3>1. Below.node \notin Beneath(stack')
      <4>1. \A i \in 1 .. Len(stack') - 1 : i \in 1 .. Len(stack) /\ i # Len(stack) - 1
        BY <1>1
      <4>2. \A i \in 1 .. Len(stack') - 1 : stack[i].node # Below.node
        BY <1>6, <1>8, <4>1, OnceOnStack DEF Typed, Below
      <4>3. \A i \in 1 .. Len(stack') - 1 : i \in 1 .. Len(stack) - 1
        BY <1>1
      <4>4. QED
        BY <1>1, <4>2, <4>3 DEF Beneath
    <3>2. QED
      BY <1>1, <1>3, <1>6, <1>8, <3>1 DEF Passed
  <2>2. Above(Below.node) \subseteq Beneath(stack')
    <3>1. Above(stack[Len(stack) - 1].node) \subseteq {stack[i].node : i \in 1 .. (Len(stack) - 1) - 1}
      <4>1. PathOK(stack)
        BY DEF Typed, StackOK, PathOK
      <4>2. QED
        BY <1>6, <1>8, <4>1, PathClosed
    <3>2. \A i \in 1 .. (Len(stack) - 1) - 1 : i \in 1 .. Len(stack') - 1 /\ i \in 1 .. Len(stack) - 1
      BY <1>1
    <3>3. {stack[i].node : i \in 1 .. (Len(stack) - 1) - 1} \subseteq Beneath(stack')
      BY <1>1, <3>2 DEF Beneath
    <3>4. QED
      BY <3>1, <3>3 DEF Below
  <2>3. NamesOutermost(stack', thrown')
    BY <1>1, <1>8, <2>1, <2>2 DEF NamesOutermost, Passed
  <2>4. QED
    BY <1>1, <1>3, <1>4, <1>5, <1>6, <1>8, <2>3 DEF ErrorFor
<1>9. CASE ~sliced
  <2>1. Passed(stack', thrown') = Passed(stack, thrown)
    BY <1>1, <1>5, <1>6, <1>7, <1>9 DEF Passed
  <2>2. NamesOutermost(stack', thrown')
    BY <1>1, <1>3, <1>9, <2>1 DEF NamesOutermost
  <2>3. stack' # <<>> => stack'[Len(stack')].node \notin Collections
    BY <1>6, <1>7, <1>9
  <2>4. QED
    BY <1>1, <1>3, <1>4, <1>5, <1>9, <2>2, <2>3 DEF ErrorFor
<1>10. QED
  BY <1>8, <1>9


LEMMA ErrorStep ==
    ASSUME WellFormed, Typed, SimulationTimed, PathAbove(stack), ErrorKept, [Next]_vars
    PROVE  ErrorKept'
<1> SUFFICES ErrorFor(stack', thrown', told')
  BY DEF ErrorKept
<1> DEFINE path(s) == PathOK(s) /\ PathAbove(s)
<1>1. path(stack')
  <2>1. Typed'
    BY TypedStep
  <2>2. PathOK(stack')
    BY <2>1 DEF Typed, StackOK, PathOK
  <2>3. QED
    BY <2>2, PathAboveStep
<1>2. ASSUME thrown' = Nothing PROVE ErrorFor(stack', thrown', told')
  BY <1>2 DEF ErrorFor
<1>3. ASSUME NEW n, stack' # <<>>, n = stack'[Len(stack')].node, thrown' = Exception(n)
      PROVE  ErrorFor(stack', thrown', told')
  <2>1. ErrorFor(stack', Exception(n), told')
    BY <1>1, <1>3, ErrorNew
  <2>2. QED
    BY <1>3, <2>1
<1>4. ASSUME stack' = stack, thrown' = thrown, told' = told
      PROVE  ErrorFor(stack', thrown', told')
  BY <1>4 DEF ErrorKept
<1> HIDE DEF path
<1>5. CASE process_next_event
  <2>1. /\ stack = <<>>
        /\ IF sim_timing THEN stack' = <<>> /\ thrown' = Exception(Top) ELSE thrown' = thrown
    BY <1>5, TypedFirst
  <2>2. CASE sim_timing
    <3>1. Exception(Top).type = "exception"
      BY Thrown DEF WellFormed
    <3>2. QED
      BY <2>1, <2>2, <3>1 DEF ErrorFor
  <2>3. CASE ~sim_timing
    BY <1>2, <2>1, <2>3 DEF SimulationTimed
  <2>4. QED
    BY <2>2, <2>3
<1>6. CASE UNCHANGED vars
  BY <1>4, <1>6 DEF vars, errorVars
<1>7. CASE Stays
  <2>1. stack # <<>> /\ stack' = stack /\ told' = told
        /\ thrown' \in {thrown, Exception(Me), Nothing}
    BY <1>7 DEF Stays
  <2>2. Me = stack'[Len(stack')].node
    BY <2>1, RunningFrame DEF Typed, Me
  <2>3. QED
    BY <1>2, <1>3, <1>4, <2>1, <2>2
<1>8. ASSUME NEW f, GoesOnTo(f) PROVE ErrorFor(stack', thrown', told')
  <2>1. /\ stack' # <<>> /\ Len(stack') = Len(stack) /\ stack'[Len(stack)] = f /\ f.node = Me
        /\ thrown' \in {Nothing, Exception(Me)}
    BY <1>8, GoesOnToStep DEF GoesOnTo
  <2>2. QED
    BY <1>2, <1>3, <2>1
<1>9. ASSUME NEW n, NEW event, NEW f, NEW s, Called(n, event, f, s)
      PROVE  ErrorFor(stack', thrown', told')
  <2>1. thrown' = Nothing
    BY <1>9, CalledStep DEF Called
  <2>2. QED
    BY <1>2, <2>1
<1>10. ASSUME NEW finite, Finished(finite) PROVE ErrorFor(stack', thrown', told')
  <2>1. CASE Len(stack) = 1
    BY <1>2, <1>10, <2>1, TopFinished
  <2>2. CASE Len(stack) # 1
    <3>1. /\ Len(stack) \in Nat /\ Len(stack) > 1 /\ Len(stack') = Len(stack) - 1
          /\ stack' # <<>> /\ stack'[Len(stack) - 1] = AfterEvent
          /\ \A i \in 1 .. Len(stack) - 1 : stack'[i].node = stack[i].node
          /\ thrown' = IF Missing THEN Exception(Below.node) ELSE Nothing
      BY <1>10, <2>2, ComponentFinished
    <3>2. Len(stack) - 1 \in 1 .. Len(stack) - 1
      BY <3>1
    <3>3. Below.node = stack'[Len(stack')].node
      BY <3>1, <3>2 DEF Below
    <3>4. QED
      BY <1>2, <1>3, <3>1, <3>3
  <2>3. QED
    BY <2>1, <2>2
<1>11. CASE Unwinds
  BY <1>11, ErrorUnwinds
<1>12. QED
  BY <1>5, <1>6, <1>7, <1>8, <1>9, <1>10, <1>11, StepKind DEF KindOfStep

\* What comes out of the simulation after an exception is an error.  It names
\* a node that has an error line in the trace: the node where the trouble
\* began, or else the outermost collection above that node.
THEOREM ErrorsNamed == Spec => []ErrorsAreReported
<1> DEFINE IInv == Typed /\ SimulationTimed /\ PathAbove(stack) /\ ErrorKept
<1> USE NodesAssumption
<1>1. Init => IInv
  <2> SUFFICES ASSUME Init PROVE IInv
    OBVIOUS
  <2>1. Typed
    BY TypedInit
  <2>2. stack = <<>> /\ thrown = Nothing /\ sim_timing = FALSE
    BY DEF Init
  <2>3. PathAbove(stack)
    <3>1. 1 .. Len(stack) = {}
      BY <2>2
    <3>2. QED
      BY <3>1 DEF PathAbove
  <2>4. SimulationTimed /\ ErrorKept
    BY <2>2 DEF SimulationTimed, ErrorKept, ErrorFor
  <2>5. QED
    BY <2>1, <2>3, <2>4
<1>2. IInv /\ [Next]_vars => IInv'
  <2> SUFFICES ASSUME IInv, [Next]_vars PROVE IInv'
    OBVIOUS
  <2>1. Typed'
    BY TypedStep
  <2>2. SimulationTimed'
    BY SimulationTimedStep
  <2>3. PathAbove(stack')
    BY PathAboveStep
  <2>4. ErrorKept'
    BY ErrorStep
  <2>5. QED
    BY <2>1, <2>2, <2>3, <2>4 DEF PathAbove
<1>3. IInv => ErrorsAreReported
  <2> SUFFICES ASSUME IInv, stack = <<>>, thrown # Nothing, thrown.type = "error"
               PROVE  LET passed == Above(thrown.origin) \cap Collections
                      IN /\ {thrown.origin, thrown.named} \subseteq told
                         /\ IF passed = {} THEN thrown.named = thrown.origin
                            ELSE thrown.named \in passed /\ Above(thrown.named) \cap passed = {}
    BY DEF ErrorsAreReported
  <2>1. NamesOutermost(stack, thrown) /\ {thrown.origin, thrown.named} \subseteq told
    BY DEF ErrorKept, ErrorFor
  <2>2. 1 .. Len(stack) - 1 = {}
    OBVIOUS
  <2>3. Passed(stack, thrown) = Above(thrown.origin) \cap Collections
    BY <2>2 DEF Passed, Beneath
  <2>4. QED
    BY <2>1, <2>3 DEF NamesOutermost
<1>4. QED
  BY <1>1, <1>2, <1>3, PTL DEF Spec
=============================================================================
