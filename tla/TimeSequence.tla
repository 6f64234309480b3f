---------------------------- MODULE TimeSequence ----------------------------
(***************************************************************************)
(* time_sequence.cpp: increasing time points, stored as the duration since *)
(* the start of a partition.  A partition begins where no duration holds   *)
(* the exact difference to the start of the last one.  Iterators carry the *)
(* number of their partition along, and are moved between appends.         *)
(*                                                                         *)
(* Entries and partitions count from 0, as in the code.  An offset is a    *)
(* number of ticks of scale 0.                                             *)
(***************************************************************************)
EXTENDS TimeScale, Sequences, FiniteSets

CONSTANTS
    TimePoints,  \* the time points appended and searched for
    Jumps,       \* the distances iterators are moved by
    MaxSize      \* bound: the number of entries

ASSUME TimeSequenceAssumption == TimePoints \subseteq Int /\ Jumps \subseteq Int

VARIABLES
    partitions_,  \* where each partition begins: index and time
    offsets_,     \* for each entry, the ticks since its partition began
    it,           \* an iterator: partition, and entry_ (index and time)
    live          \* history: it was obtained or moved in a way after which it
                  \* knows its partition

sequenceVars == <<partitions_, offsets_, it, live>>

size == Len(offsets_)
empty == partitions_ = <<>>
Partition(q) == partitions_[q + 1]
Offset(i) == offsets_[i + 1]

\* Some duration is exactly n ticks: what time_point::operator- finds out, its
\* result being infinite otherwise.
Exact(n) == \E p \in 0 .. MaxScale : n % Tick(p) = 0 /\ Magnitude(n) < quantity_limit * Tick(p)

\* The entries of partition q: those before the next one.
EndOf(q) == IF q + 1 < Len(partitions_) THEN Partition(q + 1).first ELSE size

\* std::lower_bound and upper_bound: the first position from lo on that is not
\* below, or above, what is sought.
First(lo, hi, Stop(_)) ==
    CHOOSE i \in lo .. hi : (i < hi => Stop(i)) /\ \A j \in lo .. i - 1 : ~Stop(j)

-----------------------------------------------------------------------------
(* Searching: partition and index of the iterator returned                 *)

\* The first entry after the start of partition q, or the end of the
\* partition, whose time is not below t.
Within(q, Stop(_)) == First(Partition(q).first + 1, EndOf(q), LAMBDA i : Stop(Partition(q).second + Offset(i)))

lower_bound(t) ==
    LET n == Len(partitions_)
        p == First(0, n, LAMBDA q : Partition(q).second >= t)
    IN  CASE empty -> <<0, 0>>
          [] ~empty /\ p < n /\ Partition(p).second = t -> <<p, Partition(p).first>>
          [] ~empty /\ p = 0 /\ Partition(0).second # t -> <<0, 0>>
          [] OTHER -> <<p - 1, Within(p - 1, LAMBDA s : s >= t)>>

\* Mutant: the entry sought itself is found.
upper_bound_Same(t) ==
    LET p == First(0, Len(partitions_), LAMBDA q : Partition(q).second > t)
    IN  IF empty \/ p = 0 THEN <<0, 0>> ELSE <<p - 1, Within(p - 1, LAMBDA s : s >= t)>>

upper_bound(t) ==
    LET p == First(0, Len(partitions_), LAMBDA q : Partition(q).second > t)
    IN  IF empty \/ p = 0 THEN <<0, 0>> ELSE <<p - 1, Within(p - 1, LAMBDA s : s > t)>>

-----------------------------------------------------------------------------
(* Iterators                                                               *)

\* The entry an iterator refreshes when index i is in range.
Entry(qi, i, otherwise) ==
    [qi |-> qi, first |-> i,
     second |-> IF 0 <= i /\ i < size THEN Partition(qi).second + Offset(i) ELSE otherwise]

const_iterator(qi, i) == Entry(qi, i, 0)
begin == const_iterator(0, 0)
end == const_iterator(IF empty THEN 0 ELSE Len(partitions_) - 1, size)

\* Mutant: the partition left is the one the iterator stays with.
Incremented_Stay == Entry(it.qi, it.first + 1, it.second)

\* operator++ and operator--, which only look at the neighbouring partition.
Incremented ==
    LET i == it.first + 1
        next == it.qi + 1 < Len(partitions_) /\ Partition(it.qi + 1).first = i
    IN  Entry(IF next THEN it.qi + 1 ELSE it.qi, i, it.second)

Decremented ==
    LET i == it.first - 1
        previous == it.qi > 0 /\ i < Partition(it.qi).first
    IN  Entry(IF previous THEN it.qi - 1 ELSE it.qi, i, it.second)

\* operator+=, and with it +, - and [], finds the partition by its index.
Moved(from, n) ==
    LET i == from.first + n
        p == First(0, Len(partitions_), LAMBDA q : Partition(q).first >= i)
        found == p < Len(partitions_) /\ Partition(p).first = i
    IN  Entry(IF found \/ p = 0 THEN p ELSE p - 1, i, 0)

front == begin.second
back == Moved(end, -1).second
At(i) == Moved(begin, i).second

-----------------------------------------------------------------------------
SequenceInit ==
    /\ partitions_ = <<>> /\ offsets_ = <<>>
    /\ it = begin /\ live = TRUE

\* Mutant: a time point no later than the last one is let in.
Rejected_Earlier(t) ==
    ~empty /\ t < partitions_[Len(partitions_)].second

\* Time points that append throws out_of_range for.  A difference no duration
\* holds is infinite, and its sign is all that is left to compare.
Rejected(t) ==
    LET d == t - partitions_[Len(partitions_)].second
    IN  ~empty /\ IF Exact(d) THEN d <= offsets_[size] ELSE d < 0

\* Mutant: a time point joins the last partition when its difference is rounded.
append_Rounded(t) ==
    LET d == t - partitions_[Len(partitions_)].second
    IN  /\ size < MaxSize /\ ~Rejected(t)
        /\ IF ~empty
           THEN /\ offsets_' = Append(offsets_, IF Exact(d) THEN d ELSE Floor(d, 1))
                /\ UNCHANGED partitions_
           ELSE /\ partitions_' = Append(partitions_, [first |-> size, second |-> t])
                /\ offsets_' = Append(offsets_, 0)
        /\ live' = (live /\ it.first < size)
        /\ UNCHANGED it

append(t) ==
    LET d == t - partitions_[Len(partitions_)].second
    IN  /\ size < MaxSize /\ ~Rejected(t)
        /\ IF ~empty /\ Exact(d)
           THEN offsets_' = Append(offsets_, d) /\ UNCHANGED partitions_
           ELSE /\ partitions_' = Append(partitions_, [first |-> size, second |-> t])
                /\ offsets_' = Append(offsets_, 0)
        /\ live' = (live /\ it.first < size)
        /\ UNCHANGED it

\* An iterator is obtained ...
Obtain ==
    /\ it' \in {begin, end}
    /\ live' = TRUE
    /\ UNCHANGED <<partitions_, offsets_>>

\* The partition of entry i, and the time it stands for.
PartitionOf(i) ==
    CHOOSE q \in 0 .. Len(partitions_) - 1 : Partition(q).first <= i /\ i < EndOf(q)
TimeAt(i) == Partition(PartitionOf(i)).second + Offset(i)

\* What the binary searches presume.
Increasing == \A i, j \in 0 .. size - 1 : i < j => TimeAt(i) < TimeAt(j)

\* ... by searching, which for an entry that begins a partition hands out the
\* number of the partition before, unless lower_bound finds it there ...
Search ==
    /\ Increasing
    /\ \E t \in TimePoints : \E found \in {lower_bound(t), upper_bound(t)} :
          /\ it' = const_iterator(found[1], found[2])
          /\ live' = (found[2] < EndOf(found[1]) \/ found[2] = size)
    /\ ~empty
    /\ UNCHANGED <<partitions_, offsets_>>

\* ... and moved, but no further than one beyond the ends.
Move ==
    /\ \/ it' \in {Incremented, Decremented} /\ UNCHANGED live
       \/ \E n \in Jumps : it' = Moved(it, n) /\ live' = TRUE
    /\ -1 <= it'.first /\ it'.first <= size
    /\ UNCHANGED <<partitions_, offsets_>>

SequenceNext == (\E t \in TimePoints : append(t)) \/ Obtain \/ Search \/ Move

SequenceSpec == SequenceInit /\ [][SequenceNext]_sequenceVars

-----------------------------------------------------------------------------
(* Properties                                                              *)

Times == [k \in 1 .. size |-> TimeAt(k - 1)]

\* time_sequence.h:76, "Appends `tp` if it exceeds all previously added time
\* points": the sequence implements a record of increasing time points.
Promised == INSTANCE Recording WITH recorded <- Times
ImplementsRecording == Promised!Spec

\* What is appended is kept exactly, whatever partition it goes to, and is later
\* than the one before unless no duration holds how far it is from the last start.
KeepsWhatItIsGiven ==
    [][\E t \in TimePoints :
          /\ Times' = Append(Times, t)
          /\ \/ empty \/ Times[size] < t
             \/ ~Exact(t - partitions_[Len(partitions_)].second)]_Times

\* Partitions are not empty, begin at offset 0, and within one the entries are
\* later than its start by what a duration holds.
PartitionsMeet ==
    /\ empty <=> size = 0
    /\ ~empty => Partition(0).first = 0
    /\ \A q \in 0 .. Len(partitions_) - 1 :
          /\ Partition(q).first < EndOf(q)
          /\ Offset(Partition(q).first) = 0
          /\ \A i \in Partition(q).first .. EndOf(q) - 1 : Exact(Offset(i))

\* An iterator reads the time of its index, however it is moved across
\* partitions and whatever is appended in between, if it comes from begin(),
\* end(), operator+= or a search that stopped within its partition, and did not
\* stand at the end when something was appended; front(), back() and [] read
\* the same.
IteratorsExact ==
    /\ live /\ 0 <= it.first /\ it.first < size => it.second = TimeAt(it.first)
    /\ ~empty => front = TimeAt(0) /\ back = TimeAt(size - 1)
    /\ \A i \in 0 .. size - 1 : At(i) = TimeAt(i)

\* Searching returns the index of the first, and of the last, position a time
\* point could be inserted at.
BoundsFound ==
    Increasing => \A t \in TimePoints :
        /\ lower_bound(t)[2] = Cardinality({i \in 0 .. size - 1 : TimeAt(i) < t})
        /\ upper_bound(t)[2] = Cardinality({i \in 0 .. size - 1 : TimeAt(i) <= t})

\* What a search found is read rightly within its partition, and never where it
\* stopped at the end of one: the iterator then adds the first offset of the
\* next partition to the start of this one.
FoundReadWithin ==
    Increasing => \A t \in TimePoints : \A found \in {lower_bound(t), upper_bound(t)} :
        found[2] < size =>
            (const_iterator(found[1], found[2]).second = TimeAt(found[2])
                <=> found[2] < EndOf(found[1]))

\* time_sequence.cpp: partitions meet, the index found is the right one, and
\* iterators read the time of their index wherever they have been moved, those
\* from a search exactly if it stopped within a partition.
SequenceExact == PartitionsMeet /\ IteratorsExact /\ BoundsFound /\ FoundReadWithin

\* time_sequence.h:82, upper_bound() "Returns an iterator to the last position
\* `tp` could be inserted" (lower_bound(), :81, to the first), and iterators
\* "provide both the time point and the index" (:34-35).
FoundEntriesExact ==
    Increasing => \A t \in TimePoints : \A found \in {lower_bound(t), upper_bound(t)} :
        found[2] < size => const_iterator(found[1], found[2]).second = TimeAt(found[2])
=============================================================================
