------------------------------- MODULE Values --------------------------------
(***************************************************************************)
(* The values that nodes exchange.  A port stores a copy of what user code *)
(* sends or assigns, behind a pointer; links, proxies of ports and lists   *)
(* of messages pass the pointer on, and whoever has it reads the one copy. *)
(* What a copy is depends on the type (qualified_type.h): that of an array *)
(* owns its data, that of a pair, a tuple, a vector, a set or a map is     *)
(* copy-constructed, and that of a shared pointer points to the original.  *)
(*                                                                         *)
(* An array has one element here; what arrays share is told from Arraynd.  *)
(***************************************************************************)
EXTENDS SequencesExt, Integers

CONSTANTS
    Variables,   \* of user code, in any node
    Places,      \* ports, list entries and members of nodes that hold a pointer
    MaxDepth,    \* bound: how deep compound values are nested ...
    MaxMemory,   \* bound: ... the data that is ever allocated ...
    MaxPointers  \* bound: ... and the values that are ever copied to the heap

None == [kind |-> "none"]
Null == 0

VARIABLES
    variables,  \* variable -> its value
    places,     \* place -> the pointer in it, a position in heap
    memory,     \* the data of arrays, and what shared pointers point to
    heap        \* what pointers point to, and how it read when it was stored

vars == <<variables, places, memory, heap>>

Plain(bit) == [kind |-> "plain", bit |-> bit]
Array(data, is_view) == [kind |-> "array", data |-> data, is_view |-> is_view]
SharedPointer(data) == [kind |-> "shared_ptr", data |-> data]
Compound(parts) == [kind |-> "compound", parts |-> parts]

RECURSIVE depth(_)
depth(v) == IF v.kind # "compound" THEN 0 ELSE 1 + Max({depth(part) : part \in Range(v.parts)})

\* How a value reads, printed or not: down to the data.
RECURSIVE tostring(_, _)
tostring(v, m) ==
    CASE v.kind = "plain" -> <<v.bit>>
      [] v.kind = "compound" -> [k \in DOMAIN v.parts |-> tostring(v.parts[k], m)]
      [] OTHER -> <<m[v.data]>>

-----------------------------------------------------------------------------
(* Copies: each is a value and the memory with it.                         *)

Owned(v, m) == [value |-> Array(Len(m) + 1, FALSE), memory |-> Append(m, m[v.data])]

\* The copy constructors of C++: a view stays a view of the same data.
RECURSIVE Constructed(_, _)
Constructed(v, m) ==
    CASE v.kind = "array" /\ ~v.is_view -> Owned(v, m)
      [] v.kind = "compound" ->
             LET copies == FoldLeft(LAMBDA c, part :
                                        LET next == Constructed(part, c.memory)
                                        IN  [parts |-> Append(c.parts, next.value), memory |-> next.memory],
                                    [parts |-> <<>>, memory |-> m], v.parts)
             IN  [value |-> Compound(copies.parts), memory |-> copies.memory]
      [] OTHER -> [value |-> v, memory |-> m]

\* Mutant: an array is copied like everything else.
Copied_Constructed(v, m) == Constructed(v, m)

\* copy of qualified_type.h
Copied(v, m) == IF v.kind = "array" THEN Owned(v, m) ELSE Constructed(v, m)

-----------------------------------------------------------------------------
(* User code and its variables.                                            *)

Declare(x, copy) ==
    /\ variables[x] = None
    /\ Len(copy.memory) <= MaxMemory /\ depth(copy.value) <= MaxDepth
    /\ variables' = [variables EXCEPT ![x] = copy.value]
    /\ memory' = copy.memory
    /\ UNCHANGED <<places, heap>>

Construct(x) ==
    \E v \in {Plain(0), Array(Len(memory) + 1, FALSE), SharedPointer(Len(memory) + 1)} :
        Declare(x, [value |-> v, memory |-> IF v.kind = "plain" THEN memory ELSE Append(memory, 0)])

ViewOf(v) == [value |-> Array(v.data, TRUE), memory |-> memory]

\* y.view()
View(x, y) == variables[y].kind = "array" /\ Declare(x, ViewOf(variables[y]))

\* auto x = y
Assign(x, y) == variables[y] # None /\ Declare(x, Constructed(variables[y], memory))

\* A pair of y, or of a view of it, and a number; or a vector of these.
Gather(x, y) ==
    /\ variables[y] # None
    /\ \E part \in {Constructed(variables[y], memory)} \cup
                   {ViewOf(v) : v \in {w \in {variables[y]} : w.kind = "array"}} :
          \E parts \in {<<part.value, Plain(0)>>, <<part.value>>} :
              Declare(x, [part EXCEPT !.value = Compound(parts)])

\* Something in a variable is changed in place.
RECURSIVE Changes(_, _)
Changes(v, m) ==
    CASE v.kind = "plain" -> {[value |-> Plain(1 - v.bit), memory |-> m]}
      [] v.kind = "compound" ->
             UNION {{[c EXCEPT !.value = [v EXCEPT !.parts[k] = c.value]] : c \in Changes(v.parts[k], m)} :
                    k \in DOMAIN v.parts}
      [] OTHER -> {[value |-> v, memory |-> [m EXCEPT ![v.data] = 1 - @]]}

Write(x) ==
    /\ variables[x] # None
    /\ \E change \in Changes(variables[x], memory) :
          variables' = [variables EXCEPT ![x] = change.value] /\ memory' = change.memory
    /\ UNCHANGED <<places, heap>>

-----------------------------------------------------------------------------
(* Ports and what lies between them.                                       *)

Store(s, v) ==
    LET copy == Copied(v, memory)
    IN  /\ Len(heap) < MaxPointers /\ Len(copy.memory) <= MaxMemory
        /\ heap' = Append(heap, [value |-> copy.value, as |-> tostring(v, memory)])
        /\ places' = [places EXCEPT ![s] = Len(heap) + 1]
        /\ memory' = copy.memory
        /\ UNCHANGED variables

\* send, assign, the assignment of a value to a proxy, and set_value.
Send(x, s) == variables[x] # None /\ Store(s, variables[x])

\* flow_event of a parameter node or statistic node: assign(value()).
Relay(s, t) == places[s] # Null /\ Store(t, heap[places[s]].value)

\* A link, a list of messages, or the assignment of a proxy to a proxy.
Pass(s, t) ==
    /\ places' = [places EXCEPT ![t] = places[s]]
    /\ UNCHANGED <<variables, memory, heap>>

\* value(): user code has a reference to a constant, of which it makes a variable.
Receive(x, s) == places[s] # Null /\ Declare(x, Constructed(heap[places[s]].value, memory))

\* The lists and ports are cleared after an event.
Clear(s) ==
    /\ places' = [places EXCEPT ![s] = Null]
    /\ UNCHANGED <<variables, memory, heap>>

-----------------------------------------------------------------------------
Init ==
    /\ variables = [x \in Variables |-> None] /\ places = [s \in Places |-> Null]
    /\ memory = <<>> /\ heap = <<>>

Next ==
    \/ \E x \in Variables :
          \/ Construct(x) \/ Write(x)
          \/ \E y \in Variables : View(x, y) \/ Assign(x, y) \/ Gather(x, y)
          \/ \E s \in Places : Send(x, s) \/ Receive(x, s)
    \/ \E s \in Places : Clear(s) \/ \E t \in Places : Relay(s, t) \/ Pass(s, t)

Spec == Init /\ [][Next]_vars

-----------------------------------------------------------------------------
IsView(v) == v.kind = "array" /\ v.is_view

\* Values whose copies share data with what was copied.
RECURSIVE Shares(_)
Shares(v) ==
    \/ v.kind = "shared_ptr"
    \/ v.kind = "compound" /\ \E part \in Range(v.parts) : Shares(part) \/ IsView(part)

\* qualified_type.h, pointer.h, port.h: a value reads as it did when it was sent,
\* wherever it is passed on to and whatever sender and receivers write since,
\* unless a shared pointer or, in a compound value, a view has been sent.
ReadsAsSent ==
    \A p \in DOMAIN heap : tostring(heap[p].value, memory) = heap[p].as \/ Shares(heap[p].value)
=============================================================================
