------------------------------- MODULE Arraynd -------------------------------
(***************************************************************************)
(* arraynd_base.h, arraynd.h and range.h: multidimensional arrays.  An     *)
(* array is a header over a buffer of elements: dimensions, strides and an *)
(* offset.  A view has a header of its own over a buffer it shares; copies *)
(* own theirs.  Slicing takes one axis after the other, and the array      *)
(* cannot be used before the axes have come round (rotation).              *)
(*                                                                         *)
(* Axes and elements count from 1 here; indices and offsets from 0.  Only  *)
(* what succeeds is a step: what the code throws for is not enabled.       *)
(***************************************************************************)
EXTENDS Integers, FiniteSets, SequencesExt

CONSTANTS
    Arrays,      \* variables of an array type
    Shapes,      \* the dimensions new arrays are made with
    Ranges,      \* the ranges arrays are sliced by ...
    Slices,      \* ... and those slicing is checked for
    Factors,     \* the pairs of lengths an axis is subdivided into
    Values,      \* values of elements
    Initial,     \* bound: those new arrays are filled with
    TrueValue,   \* the one of them that a selection selects by
    Op(_, _),    \* an arithmetic operation on elements ...
    Rel(_, _),   \* ... and a comparison
    MaxBuffers,  \* bound: the number of buffers ever allocated
    MaxAxes,     \* bound: the number of axes
    MaxWrites    \* bound: the number of times elements are written in place

ArrayndAssumption ==
    /\ MaxBuffers \in Nat /\ MaxAxes \in Nat \ {0} /\ MaxWrites \in Nat
    /\ Initial \subseteq Values
    /\ \A x, y \in Values : Op(x, y) \in Values /\ Rel(x, y) \in Values

VARIABLES
    arrays,    \* the arrays that exist: name -> header
    constant,  \* those declared const
    buffers,   \* data_ptr_: the elements of each buffer
    writes     \* the number of times elements were written in place

vars == <<arrays, constant, buffers, writes>>

ndims(h) == Len(h.dims)
Product(s) == FoldSeq(LAMBDA x, y : x * y, 1, s)
size(h) == Product(h.dims)

\* The indices of an array with these dimensions.
Indices(dims) ==
    {i \in [DOMAIN dims -> 0 .. Max({0} \cup Range(dims))] : \A k \in DOMAIN dims : i[k] < dims[k]}

\* The position in its buffer that operator() reads and writes.
Address(h, i) == h.offset + FoldSeq(+, 0, [k \in DOMAIN i |-> i[k] * h.strides[k]])
Element(h, i) == buffers[h.data][Address(h, i) + 1]
Addresses(h) == {Address(h, i) : i \in Indices(h.dims)}

\* compute_strides_and_size: row-major order.
RowMajor(dims) == [k \in DOMAIN dims |-> Product(SubSeq(dims, k + 1, Len(dims)))]

\* The nth index in row-major order.
Nth(dims, n) == [k \in DOMAIN dims |-> (n \div RowMajor(dims)[k]) % dims[k]]

\* The array is not partially sliced.
Whole(h) == h.rotation = 0

is_contiguous(h) == h.strides = RowMajor(h.dims)

-----------------------------------------------------------------------------
(* range.h: what a range is made with may be given in any order.           *)

Unlimited == 99  \* the largest int64, and its negation the smallest
range == [start |-> 0, stop |-> Unlimited, stride |-> 1, after |-> FALSE, before |-> FALSE]

start_at(r, limit) == [r EXCEPT !.start = limit, !.after = FALSE]
start_after(r, limit) == [r EXCEPT !.start = limit, !.after = TRUE]
stop_at(r, limit) == [r EXCEPT !.stop = limit, !.before = FALSE]
stop_before(r, limit) == [r EXCEPT !.stop = limit, !.before = TRUE]

\* A range that does not stop goes on to the end it now heads for.
stride_by(r, stride) ==
    [r EXCEPT !.stride = stride,
              !.stop = IF \/ r.stride > 0 /\ stride < 0 /\ @ = Unlimited
                          \/ r.stride < 0 /\ stride > 0 /\ @ = -Unlimited THEN -@ ELSE @]

start(r) == r.start + (IF ~r.after THEN 0 ELSE IF r.stride > 0 THEN 1 ELSE -1)
stop(r) == r.stop + (IF ~r.before THEN 0 ELSE IF r.stride < 0 THEN 1 ELSE -1)

-----------------------------------------------------------------------------
(* Headers of views, sharing the buffer of h                               *)

View(h, readonly) == [h EXCEPT !.is_view = TRUE, !.is_readonly = readonly]

\* operator[](index): the first axis is gone.
CanIndex(h, i) == ndims(h) > 1 /\ 0 <= i /\ i < h.dims[1]
Indexed(h, i) ==
    [h EXCEPT !.dims = Tail(@), !.strides = Tail(@), !.offset = @ + i * h.strides[1],
              !.rotation = IF @ > 0 THEN @ - 1 ELSE 0]

\* Mutant: a slice against the direction of its stride is not empty.
Length_Signless(r, n) ==
    LET last == IF stop(r) < 0 THEN 0 ELSE IF stop(r) > n - 1 THEN n - 1 ELSE stop(r)
        gap == last - start(r)
    IN  (IF gap < 0 THEN -gap ELSE gap) \div (IF r.stride < 0 THEN -r.stride ELSE r.stride) + 1

\* The number of indices of range r on an axis of length n.
Length(r, n) ==
    LET last == IF stop(r) < 0 THEN 0 ELSE IF stop(r) > n - 1 THEN n - 1 ELSE stop(r)
        gap == last - start(r)
    IN  IF gap = 0 \/ (gap > 0 <=> r.stride > 0)
        THEN (IF r.stride < 0 THEN -gap ELSE gap) \div (IF r.stride < 0 THEN -r.stride ELSE r.stride) + 1
        ELSE 0

\* operator[](range): the first axis, filtered, becomes the last.
CanSlice(h, r) == 0 <= start(r) /\ start(r) < h.dims[1] /\ r.stride # 0
Sliced(h, r) ==
    [h EXCEPT !.dims = Append(Tail(@), Length(r, h.dims[1])),
              !.strides = Append(Tail(@), h.strides[1] * r.stride),
              !.offset = @ + start(r) * h.strides[1],
              !.rotation = IF @ = 0 THEN ndims(h) - 1 ELSE @ - 1]

Transposed(h) == [h EXCEPT !.dims = Reverse(@), !.strides = Reverse(@)]

Swap(s, j, k) == [s EXCEPT ![j] = s[k], ![k] = s[j]]
SwappedAxes(h, j, k) == [h EXCEPT !.dims = Swap(@, j, k), !.strides = Swap(@, j, k)]

\* Mutant: the strides of the two new axes are swapped.
SubdividedAxis_Swapped(h, k, lengths) ==
    [h EXCEPT !.dims = SubSeq(@, 1, k - 1) \o lengths \o SubSeq(@, k + 1, Len(@)),
              !.strides = SubSeq(@, 1, k - 1) \o <<@[k], @[k] * lengths[1]>> \o SubSeq(@, k + 1, Len(@)),
              !.is_view = TRUE]

CanReshape(h, k) == Whole(h) /\ is_contiguous(h) /\ k \in 1 .. ndims(h)
CanSubdivide(h, k, lengths) == CanReshape(h, k) /\ Product(lengths) = h.dims[k]
SubdividedAxis(h, k, lengths) ==
    [h EXCEPT !.dims = SubSeq(@, 1, k - 1) \o lengths \o SubSeq(@, k + 1, Len(@)),
              !.strides = SubSeq(@, 1, k - 1) \o <<@[k] * lengths[2], @[k]>> \o SubSeq(@, k + 1, Len(@)),
              !.is_view = TRUE]

CanAbsorb(h, k) == CanReshape(h, k) /\ k # 1
AbsorbedAxis(h, k) ==
    [h EXCEPT !.dims = SubSeq(@, 1, k - 2) \o <<@[k - 1] * @[k]>> \o SubSeq(@, k + 1, Len(@)),
              !.strides = SubSeq(@, 1, k - 2) \o SubSeq(@, k, Len(@)),
              !.is_view = TRUE]

Only(condition, h) == IF condition THEN {h} ELSE {}

\* The views that can be taken of array b.  The overloads for a const array make
\* it readonly, except when an axis is subdivided or absorbed.
Views(b) ==
    LET h == arrays[b]
        v == View(h, b \in constant \/ h.is_readonly)
        axes == 1 .. ndims(h)
    IN  {v} \cup {Indexed(v, i) : i \in {j \in 0 .. Max(Range(h.dims)) : CanIndex(h, j)}}
            \cup {Sliced(v, r) : r \in {s \in Ranges : CanSlice(h, s)}}
            \cup Only(Whole(h), Transposed(v))
            \cup UNION {Only(Whole(h), SwappedAxes(v, j, k)) : j, k \in axes}
            \cup UNION {Only(CanSubdivide(h, k, f), SubdividedAxis(h, k, f)) : k \in axes, f \in Factors}
            \cup UNION {Only(CanAbsorb(h, k), AbsorbedAxis(h, k)) : k \in axes}

-----------------------------------------------------------------------------
(* Copies, and writing elements                                            *)

\* A header of its own over a buffer still to be allocated.
Owner(dims) ==
    [dims |-> dims, strides |-> RowMajor(dims), offset |-> 0, rotation |-> 0,
     is_view |-> FALSE, is_readonly |-> FALSE, data |-> Len(buffers) + 1]

Elements(h) == [n \in 1 .. size(h) |-> Element(h, Nth(h.dims, n - 1))]

\* assign_recursively: element by element in row-major order, so that what is
\* written may be read again when the two arrays overlap.
Assigned(h, rhs) ==
    FoldLeft(LAMBDA d, i :
                 [d EXCEPT ![Address(h, i) + 1] =
                     IF rhs.data = h.data THEN d[Address(rhs, i) + 1] ELSE Element(rhs, i)],
             buffers[h.data], [n \in 1 .. size(h) |-> Nth(h.dims, n - 1)])

\* Mutant: views of const arrays can be written.
CanWrite_Readonly(b) == b \notin constant /\ Whole(arrays[b])

CanWrite(b) == b \notin constant /\ ~arrays[b].is_readonly /\ Whole(arrays[b])

CanAssign(b, rhs) == CanWrite(b) /\ Whole(rhs) /\ arrays[b].dims = rhs.dims

-----------------------------------------------------------------------------
(* Variables are declared, const or not ...                                *)

Declare(b, h) ==
    /\ b \notin DOMAIN arrays
    /\ ndims(h) <= MaxAxes
    /\ arrays' = [x \in DOMAIN arrays \cup {b} |-> IF x = b THEN h ELSE arrays[x]]
    /\ constant' \in {constant, constant \cup {b}}
    /\ UNCHANGED writes

Allocate(elements) ==
    /\ Len(buffers) < MaxBuffers
    /\ buffers' = Append(buffers, elements)

\* A new array with these dimensions, filled from a function of the indices.
Fresh(b, dims, Of(_)) ==
    Declare(b, Owner(dims)) /\ Allocate([n \in 1 .. Product(dims) |-> Of(Nth(dims, n - 1))])

construct(b) == \E dims \in Shapes, v \in Initial : Fresh(b, dims, LAMBDA i : v)

view(b, a) == \E h \in Views(a) : Declare(b, h) /\ UNCHANGED buffers

\* copy, copy_transposed and copy_swapped_axes: a fresh copy of a view.
copy(b, a) ==
    \E h \in Views(a) :
        Whole(h) /\ Declare(b, Owner(h.dims)) /\ Allocate(Elements(h))

\* copy_subdivided_axis and copy_absorbed_axis: a view of a fresh copy.
copy_reshaped(b, a) ==
    LET h == Owner(arrays[a].dims)
    IN  /\ Whole(arrays[a])
        /\ \E k \in 1 .. ndims(h) :
              \/ \E f \in Factors : CanSubdivide(h, k, f) /\ Declare(b, SubdividedAxis(h, k, f))
              \/ CanAbsorb(h, k) /\ Declare(b, AbsorbedAxis(h, k))
        /\ Allocate(Elements(arrays[a]))

\* Mutant: the copy of an array shares its data, view or not.
copy_construct_Shared(b, a) == Declare(b, arrays[a]) /\ UNCHANGED buffers

\* The copy constructor shares the data of views only.
copy_construct(b, a) ==
    IF arrays[a].is_view THEN Declare(b, arrays[a]) /\ UNCHANGED buffers
    ELSE Declare(b, Owner(arrays[a].dims)) /\ Allocate(Elements(arrays[a]))

aligned(g, h) == Whole(g) /\ Whole(h) /\ g.dims = h.dims

\* The elements of array a with those of another, or with a scalar on either side.
Elementwise(b, a, f(_, _)) ==
    LET h == arrays[a]
    IN  /\ Whole(h)
        /\ \/ \E c \in DOMAIN arrays :
                 /\ aligned(h, arrays[c])
                 /\ Fresh(b, h.dims, LAMBDA i : f(Element(h, i), Element(arrays[c], i)))
           \/ \E v \in Values : \/ Fresh(b, h.dims, LAMBDA i : f(Element(h, i), v))
                                \/ Fresh(b, h.dims, LAMBDA i : f(v, Element(h, i)))

arithmetic(b, a) == Elementwise(b, a, Op)
comparison(b, a) == Elementwise(b, a, Rel)

\* replace: what is selected comes from an aligned array, or is a scalar.  The
\* selection need not be aligned, only reach as far as the array.
replace(b, a, s) ==
    LET h == arrays[a]
        selected(i) == Element(arrays[s], i) = TrueValue
    IN  /\ Whole(h) /\ Whole(arrays[s]) /\ ndims(h) = ndims(arrays[s])
        /\ \A k \in DOMAIN h.dims : h.dims[k] <= arrays[s].dims[k]
        /\ \/ \E c \in DOMAIN arrays :
                 /\ aligned(h, arrays[c])
                 /\ Fresh(b, h.dims, LAMBDA i : IF selected(i) THEN Element(arrays[c], i) ELSE Element(h, i))
           \/ \E v \in Values : Fresh(b, h.dims, LAMBDA i : IF selected(i) THEN v ELSE Element(h, i))

(* ... and, unless const, assigned to.                                     *)

Write(b, elements) ==
    /\ writes < MaxWrites
    /\ buffers' = [buffers EXCEPT ![arrays[b].data] = elements]
    /\ writes' = writes + 1
    /\ UNCHANGED <<arrays, constant>>

fill(b, v) ==
    /\ CanWrite(b)
    /\ Write(b, [p \in DOMAIN buffers[arrays[b].data] |->
                    IF p - 1 \in Addresses(arrays[b]) THEN v ELSE buffers[arrays[b].data][p]])

assign(b, rhs) == CanAssign(b, rhs) /\ Write(b, Assigned(arrays[b], rhs))

\* Copy assignment writes the elements of a view, and replaces any other array;
\* an array assigned to itself is read from the new, uninitialized buffer.
copy_assign(b, rhs) ==
    CASE b \in constant -> FALSE
      [] arrays[b].is_view -> assign(b, rhs)
      [] ~arrays[b].is_view /\ rhs.is_view ->
             arrays' = [arrays EXCEPT ![b] = rhs] /\ UNCHANGED <<constant, buffers, writes>>
      [] OTHER ->
             /\ arrays' = [arrays EXCEPT ![b] = Owner(rhs.dims)]
             /\ \/ rhs # arrays[b] /\ Allocate(Elements(rhs))
                \/ rhs = arrays[b] /\ \E v \in Values : Allocate([n \in 1 .. size(rhs) |-> v])
             /\ UNCHANGED <<constant, writes>>

\* The view returned is moved into b, but copied if it is const.
assign_view(b, a) ==
    \E h \in Views(a) :
        /\ ndims(h) = ndims(arrays[b])
        /\ IF a \in constant THEN copy_assign(b, h)
           ELSE /\ b \notin constant
                /\ arrays' = [arrays EXCEPT ![b] = h]
                /\ UNCHANGED <<constant, buffers, writes>>

-----------------------------------------------------------------------------
(* tostring of qualified_type.h walks along the strides and back again.    *)

Mark(c) == <<[mark |-> c]>>

Step(h, w) ==
    LET k == w.axis
        comma == IF w.indices[k] > 0 THEN Mark(",") ELSE <<>>
        back == [w EXCEPT !.indices[k] = 0, !.offset = @ - h.dims[k] * h.strides[k], !.axis = @ - 1]
    IN  IF w.indices[k] < h.dims[k]
        THEN IF k = ndims(h)
             THEN [w EXCEPT !.text = @ \o comma \o <<[element |-> buffers[h.data][w.offset + 1]]>>,
                            !.indices[k] = @ + 1, !.offset = @ + h.strides[k]]
             ELSE [w EXCEPT !.text = @ \o comma \o Mark("{"), !.axis = @ + 1]
        ELSE IF k = 1 THEN back
             ELSE [back EXCEPT !.text = @ \o Mark("}"),
                               !.indices[k - 1] = @ + 1, !.offset = @ + h.strides[k - 1]]

RECURSIVE Walked(_, _)
Walked(h, w) == IF w.axis = 0 THEN w.text \o Mark("}") ELSE Walked(h, Step(h, w))

tostring(h) ==
    Walked(h, [indices |-> [k \in DOMAIN h.dims |-> 0], offset |-> h.offset, axis |-> 1, text |-> Mark("{")])

-----------------------------------------------------------------------------
Init == arrays = [b \in {} |-> Owner(<<>>)] /\ constant = {} /\ buffers = <<>> /\ writes = 0

Next ==
    \E b \in Arrays :
        \/ construct(b)
        \/ \E a \in DOMAIN arrays :
              \/ view(b, a) \/ copy(b, a) \/ copy_reshaped(b, a) \/ copy_construct(b, a)
              \/ arithmetic(b, a) \/ comparison(b, a)
              \/ \E s \in DOMAIN arrays : replace(b, a, s)
              \/ /\ b \in DOMAIN arrays
                 /\ \/ ndims(arrays[a]) = ndims(arrays[b]) /\ copy_assign(b, arrays[a])
                    \/ assign_view(b, a)
        \/ b \in DOMAIN arrays /\ \E v \in Values : fill(b, v)

Spec == Init /\ [][Next]_vars

-----------------------------------------------------------------------------
(* Properties                                                              *)

\* However an array came about, its elements are distinct places within its
\* buffer, and no two arrays that are not views have a buffer in common.
AddressesSound ==
    /\ \A b \in DOMAIN arrays :
          LET h == arrays[b]
          IN  /\ Cardinality(Addresses(h)) = size(h)
              /\ \A p \in Addresses(h) : p + 1 \in DOMAIN buffers[h.data]
              /\ ~h.is_view => Whole(h) /\ is_contiguous(h)
    /\ \A a, b \in DOMAIN arrays :
          a # b /\ ~arrays[a].is_view /\ ~arrays[b].is_view => arrays[a].data # arrays[b].data

\* The indices a range stands for on an axis of length n, from the one it
\* starts with on.
Picks(r, n) ==
    {k \in 0 .. n - 1 :
        /\ (k - start(r)) % (IF r.stride < 0 THEN -r.stride ELSE r.stride) = 0
        /\ IF r.stride > 0 THEN start(r) <= k /\ k <= stop(r) ELSE stop(r) <= k /\ k <= start(r)}

\* A range that goes on from inside the array, not one that is past its stop.
Inside(r, n) == IF r.stride > 0 THEN stop(r) >= 0 ELSE stop(r) <= n - 1

\* One selector per axis: an index, or a range if the index is Colon.
Colon == -1
Selectors(h) ==
    [1 .. ndims(h) -> [index : {Colon}, range : Slices] \cup
                      [index : 0 .. Max(Range(h.dims)) - 1, range : {CHOOSE r \in Slices : TRUE}]]

\* The index along axis k that index i of the sliced array stands for.
Picked(sel, kept, i, k) ==
    IF sel[k].index # Colon THEN sel[k].index
    ELSE start(sel[k].range) + sel[k].range.stride * i[CHOOSE j \in DOMAIN kept : kept[j] = k]

\* Slicing every axis in turn gives the array whose axes are those sliced by a
\* range, and whose elements are the ones the selectors pick.
SlicesExact ==
    \A b \in DOMAIN arrays :
        LET h == arrays[b]
        IN  Whole(h) /\ ndims(h) <= 2 =>
            \A sel \in Selectors(h) :
                LET axes == 1 .. ndims(h)
                    kept == SelectSeq([k \in axes |-> k], LAMBDA k : sel[k].index = Colon)
                    slice(g, s) == IF s.index = Colon THEN Sliced(g, s.range) ELSE Indexed(g, s.index)
                    result == FoldLeft(slice, h, sel)
                IN  /\ kept # <<>>
                    /\ \A k \in axes :
                          LET r == sel[k].range
                          IN  /\ sel[k].index < h.dims[k]
                              /\ sel[k].index = Colon => 0 <= start(r) /\ start(r) < h.dims[k] /\ Inside(r, h.dims[k])
                    => /\ Whole(result)
                       /\ result.dims = [j \in DOMAIN kept |-> Cardinality(Picks(sel[kept[j]].range, h.dims[kept[j]]))]
                       /\ \A i \in Indices(result.dims) :
                             Address(result, i) = Address(h, [k \in axes |-> Picked(sel, kept, i, k)])

\* Ranges are the same in whatever order their limits and stride are given, and
\* without a limit they reach the end of the array that they head for.
RangesInAnyOrder ==
    \A limit \in {0, 2}, stride \in {-2, 2} :
        /\ \A r \in {stop_at(range, limit), stop_before(range, limit), range} :
              /\ start_at(stride_by(r, stride), limit) = stride_by(start_at(r, limit), stride)
              /\ start_after(stride_by(r, stride), limit) = stride_by(start_after(r, limit), stride)
        /\ stop_at(stride_by(range, stride), limit) = stride_by(stop_at(range, limit), stride)
        /\ stop_before(stride_by(range, stride), limit) = stride_by(stop_before(range, limit), stride)
        /\ LET r == stride_by(stride_by(start_at(range, limit), -stride), stride)
           IN  Length(r, 3) = Cardinality({k \in 0 .. 2 : IF stride > 0 THEN k >= limit ELSE k <= limit} \ {1})

\* Subdividing an axis and absorbing one keep the elements in their order, and
\* the one undoes the other.
ReshapesExact ==
    \A b \in DOMAIN arrays : \A k \in 1 .. ndims(arrays[b]) :
        LET h == arrays[b]
            InOrder(g) == [n \in 1 .. size(g) |-> Address(g, Nth(g.dims, n - 1))]
        IN  /\ \A f \in Factors : CanSubdivide(h, k, f) =>
                  LET g == SubdividedAxis(h, k, f)
                  IN  InOrder(g) = InOrder(h) /\ CanAbsorb(g, k + 1)
                      /\ AbsorbedAxis(g, k + 1) = View(h, h.is_readonly)
            /\ CanAbsorb(h, k) => InOrder(AbsorbedAxis(h, k)) = InOrder(h)
            /\ Transposed(Transposed(h)) = h

\* The text of an array has its elements in braces, axis within axis.
RECURSIVE Nested(_, _)
Nested(h, i) ==
    IF Len(i) = ndims(h) THEN <<[element |-> Element(h, i)]>>
    ELSE Mark("{") \o FoldLeft(LAMBDA text, n : text \o (IF n = 1 THEN <<>> ELSE Mark(",")) \o Nested(h, Append(i, n - 1)),
                               <<>>, [n \in 1 .. h.dims[Len(i) + 1] |-> n]) \o Mark("}")

TextsNested == \A b \in DOMAIN arrays : Whole(arrays[b]) => tostring(arrays[b]) = Nested(arrays[b], <<>>)

\* Elements only change through an array that is neither const nor readonly,
\* those of one array at a time.
WritesThroughOne ==
    [][\A d \in DOMAIN buffers : buffers'[d] # buffers[d] =>
          \E b \in DOMAIN arrays \ constant :
              /\ arrays[b].data = d /\ ~arrays[b].is_readonly
              /\ \A p \in DOMAIN buffers[d] : p - 1 \notin Addresses(arrays[b]) => buffers'[d][p] = buffers[d][p]]_buffers

\* arraynd.h:135-136, "If data is shared with a constant multidimensional array, then
\* neither array can be modified."
ConstantsUnchanged ==
    [][\A b \in constant : ~arrays[b].is_view => Elements(arrays[b])' = Elements(arrays[b])]_vars
=============================================================================
