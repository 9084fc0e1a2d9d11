----------------------------- MODULE RangeLists -----------------------------
(***************************************************************************)
(* RangeList of the primitives crate: a list of non-empty half-open ranges *)
(* in increasing order.  The readers of a table use it to say which rows   *)
(* are left to look at.  A range is a pair <<start, end>>.                 *)
(***************************************************************************)
EXTENDS Integers, Sequences, FiniteSets, SequencesExt

Least(a, b) == IF a <= b THEN a ELSE b
Greatest(a, b) == IF a >= b THEN a ELSE b

\* The rows a list stands for.
RowsOf(list) == UNION {list[i][1] .. (list[i][2] - 1) : i \in DOMAIN list}

\* What every list must satisfy (RangeList::try_from).
IsRangeList(list) ==
    /\ \A i \in DOMAIN list : list[i][1] < list[i][2]
    /\ \A i \in 2 .. Len(list) : list[i - 1][2] <= list[i][1]

\* Ranges that touch become one.
Seal(ranges) ==
    FoldLeft(LAMBDA sealed, range :
                 IF sealed # <<>> /\ Last(sealed)[2] = range[1]
                 THEN Append(Front(sealed), <<Last(sealed)[1], range[2]>>)
                 ELSE Append(sealed, range),
             <<>>, ranges)

FromSortedIndexes(indexes) ==
    Seal([i \in DOMAIN indexes |-> <<indexes[i], indexes[i] + 1>>])

RECURSIVE Intersection(_, _)
Intersection(a, b) ==
    IF a = <<>> \/ b = <<>> THEN <<>>
    ELSE LET start == Greatest(Head(a)[1], Head(b)[1])
             end   == Least(Head(a)[2], Head(b)[2])
         IN  (IF start < end THEN <<<<start, end>>>> ELSE <<>>)
             \o Intersection(IF Head(a)[2] = end THEN Tail(a) ELSE a,
                             IF Head(b)[2] = end THEN Tail(b) ELSE b)

\* One pass over both lists.  The head of the second list is cut at the end
\* of the first one's even where it begins above it, so that the gap between
\* the two comes out as a part of the union.
RECURSIVE UnionSteps(_, _)
UnionSteps(a, b) ==
    CASE a = <<>> -> b
      [] b = <<>> /\ a # <<>> -> a
      [] OTHER ->
           LET start == Least(Head(a)[1], Head(b)[1])
               end   == Least(Head(a)[2], Head(b)[2])
               cut(list) == <<<<end, Head(list)[2]>>>> \o Tail(list)
           IN  <<<<start, end>>>>
               \o UnionSteps(CASE Head(a)[2] = end -> Tail(a)
                               [] Head(a)[2] # end /\ Head(a)[1] < end -> cut(a)
                               [] OTHER -> a,
                             IF Head(b)[2] = end THEN Tail(b) ELSE cut(b))

Union(a, b) == Seal(UnionSteps(a, b))

\* The ranges that fall on one page, relative to its start, and the ranges
\* left for the pages above it.  A range that covers the page is not consumed.
RECURSIVE OnPage(_, _, _)
OnPage(ranges, start, end) ==
    IF ranges = <<>> THEN [whole |-> FALSE, included |-> <<>>, rest |-> <<>>]
    ELSE LET lo   == Greatest(start, Head(ranges)[1])
             hi   == Least(end, Head(ranges)[2])
             here == IF lo < hi THEN <<<<lo - start, hi - start>>>> ELSE <<>>
             rest == IF hi = Head(ranges)[2] THEN Tail(ranges) ELSE ranges
         IN  CASE <<lo, hi>> = <<start, end>> ->
                    [whole |-> TRUE, included |-> <<<<0, end - start>>>>, rest |-> ranges]
               [] hi = end /\ lo # start ->
                    [whole |-> FALSE, included |-> here, rest |-> rest]
               [] OTHER ->
                    LET above == OnPage(rest, start, end)
                    IN  [above EXCEPT !.included = here \o @]

\* The pages a list touches, in order, with what it selects on each of them.
RECURSIVE PagesFrom(_, _, _)
PagesFrom(ranges, offsets, p) ==
    IF p >= Len(offsets) \/ ranges = <<>> THEN <<>>
    ELSE LET on == OnPage(ranges, offsets[p], offsets[p + 1])
         IN  (IF on.included = <<>> THEN <<>>
              ELSE <<[page |-> p, whole |-> on.whole, ranges |-> on.included]>>)
             \o PagesFrom(on.rest, offsets, p + 1)

Paginate(list, offsets) == PagesFrom(list, offsets, 1)
=============================================================================
