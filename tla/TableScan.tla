------------------------------ MODULE TableScan ------------------------------
(***************************************************************************)
(* Reading the rows of one table that satisfy a predicate (query::scan):   *)
(* the predicates, what they can conclude from column statistics, and the  *)
(* two readers, of a parquet file and of a table of a storage snapshot.    *)
(*                                                                         *)
(* A table is a record: rows, a sequence of rows (functions of the column  *)
(* names, a cell is a value or Null; row indexes start at 0); types, the   *)
(* least and the greatest value of each column's type; stats, the columns  *)
(* that have statistics; groups, the offsets of its row groups; pages, the *)
(* offsets of each column's pages in each row group, relative to it.       *)
(*                                                                         *)
(* Statements about an array are evaluated item by item, to TRUE, FALSE or *)
(* Null.                                                                   *)
(***************************************************************************)
EXTENDS RangeLists

CONSTANTS
    Null,       \* a null cell, and the outcome of comparing one
    None,       \* no row selection, no statistics, no predicate
    Bits        \* the bits of a bloom filter each value sets

Cell(table, i, column) == table.rows[i + 1][column]
RowIndexes(table) == 0 .. (Len(table.rows) - 1)

-----------------------------------------------------------------------------
(* Array predicates: statements about the items of one column.             *)

\* arrow's "and" and "or": null as soon as one side is.
Strict(a, b, value) == IF a = Null \/ b = Null THEN Null ELSE value
AndMask(masks) == FoldLeft(LAMBDA a, b : Strict(a, b, a = TRUE /\ b = TRUE), TRUE, masks)
OrMask(masks) == FoldLeft(LAMBDA a, b : Strict(a, b, a = TRUE \/ b = TRUE), FALSE, masks)

\* Where a literal of a query lies with respect to the type of a column.
CastScalar(value, type) ==
    CASE value > type.max -> "greater"
      [] value < type.min -> "less"
      [] OTHER -> "cast"

\* A literal outside of the column's type decides a comparison for every item.
Compared(test, type, items, holds) ==
    LET cast == CastScalar(test.value, type)
    IN  CASE cast # "cast" /\ test.op = "eq" -> FALSE
          [] cast # "cast" /\ test.op = "at_most" -> cast = "greater"
          [] cast # "cast" /\ test.op = "at_least" -> cast = "less"
          [] OTHER -> IF Null \in items THEN Null ELSE holds

RECURSIVE Evaluate(_, _, _)
Evaluate(test, item, type) ==
    CASE test.op = "eq" -> Compared(test, type, {item}, item = test.value)
      [] test.op = "at_most" -> Compared(test, type, {item}, item <= test.value)
      [] test.op = "at_least" -> Compared(test, type, {item}, item >= test.value)
      [] test.op = "in_list" -> IF item = Null THEN Null ELSE item \in test.list
      [] test.op = "bloom" -> IF item = Null THEN Null ELSE Bits[test.value] \subseteq item
      [] test.op = "and" -> AndMask([i \in DOMAIN test.of |-> Evaluate(test.of[i], item, type)])
      [] test.op = "or" -> OrMask([i \in DOMAIN test.of |-> Evaluate(test.of[i], item, type)])

RECURSIVE CanEvaluateStats(_)
CanEvaluateStats(test) ==
    CASE test.op \in {"eq", "at_most", "at_least"} -> TRUE
      [] test.op \in {"in_list", "bloom"} -> FALSE
      [] test.op = "and" -> \E i \in DOMAIN test.of : CanEvaluateStats(test.of[i])
      [] test.op = "or" -> \A i \in DOMAIN test.of : CanEvaluateStats(test.of[i])

\* Whether an item between min and max may satisfy the test.
RECURSIVE EvaluateStats(_, _, _, _)
EvaluateStats(test, min, max, type) ==
    LET each == [i \in DOMAIN test.of |-> EvaluateStats(test.of[i], min, max, type)]
    IN  CASE test.op = "eq" ->
               Compared(test, type, {min, max}, min <= test.value /\ test.value <= max)
          [] test.op = "at_most" -> Compared(test, type, {min}, min <= test.value)
          [] test.op = "at_least" -> Compared(test, type, {max}, test.value <= max)
          [] test.op = "and" -> AndMask(each)
          [] test.op = "or" -> OrMask(each)

\* col_in_list: a short list is an "or" of equalities.
ColInList(list) ==
    LET seq == SetToSortSeq(list, <)
    IN  CASE Len(seq) = 1 -> [op |-> "eq", value |-> seq[1]]
          [] Len(seq) # 1 /\ Len(seq) < 10 ->
               [op |-> "or", of |-> [i \in DOMAIN seq |-> [op |-> "eq", value |-> seq[i]]]]
          [] OTHER -> [op |-> "in_list", list |-> list]

ColBetween(low, high) ==
    [op |-> "and", of |-> <<[op |-> "at_least", value |-> low],
                            [op |-> "at_most", value |-> high]>>]

-----------------------------------------------------------------------------
(* Row predicates: a test of one column, or a conjunction or disjunction.  *)

On(column, test) == [op |-> "column", column |-> column, test |-> test]
AllOf(predicates) == IF Len(predicates) = 1 THEN predicates[1] ELSE [op |-> "all", of |-> predicates]
AnyOf(predicates) == IF Len(predicates) = 1 THEN predicates[1] ELSE [op |-> "any", of |-> predicates]

RECURSIVE EvaluateRow(_, _, _)
EvaluateRow(p, row, types) ==
    LET each == [i \in DOMAIN p.of |-> EvaluateRow(p.of[i], row, types)]
    IN  CASE p.op = "column" -> Evaluate(p.test, row[p.column], types[p.column])
          [] p.op = "all" -> AndMask(each)
          [] p.op = "any" -> OrMask(each)

RECURSIVE RowCanEvaluateStats(_)
RowCanEvaluateStats(p) ==
    CASE p.op = "column" -> CanEvaluateStats(p.test)
      [] p.op = "all" -> \E i \in DOMAIN p.of : RowCanEvaluateStats(p.of[i])
      [] p.op = "any" -> \A i \in DOMAIN p.of : RowCanEvaluateStats(p.of[i])

\* The least and the greatest item of a column in rows start to end - 1; both
\* are null where every item is.
MinMax(table, column, start, end) ==
    LET items == {Cell(table, i, column) : i \in start .. (end - 1)} \ {Null}
    IN  IF items = {} THEN [min |-> Null, max |-> Null]
        ELSE [min |-> CHOOSE v \in items : \A w \in items : v <= w,
              max |-> CHOOSE v \in items : \A w \in items : v >= w]

\* The segments a column test cannot exclude; offsets are relative to base.
SegmentsLeft(table, p, base, offsets) ==
    LET may(i) == LET s == MinMax(table, p.column, base + offsets[i], base + offsets[i + 1])
                  IN  EvaluateStats(p.test, s.min, s.max, table.types[p.column]) = TRUE
        segments == [i \in 1 .. Len(offsets) - 1 |-> <<offsets[i], offsets[i + 1]>>]
        left == SelectSeq([i \in DOMAIN segments |-> <<i, segments[i]>>], LAMBDA s : may(s[1]))
    IN  Seal([i \in DOMAIN left |-> left[i][2]])

\* The row ranges the statistics leave, or None when they say nothing.
\* offsets gives the segments of each column, relative to row base.
RECURSIVE RowsLeft(_, _, _, _)
RowsLeft(table, p, base, offsets) ==
    LET each == [i \in DOMAIN p.of |->
                   IF RowCanEvaluateStats(p.of[i]) THEN RowsLeft(table, p.of[i], base, offsets)
                   ELSE None]
        known == SelectSeq(each, LAMBDA ranges : ranges # None)
    IN  CASE p.op = "column" ->
               IF p.column \in table.stats
               THEN SegmentsLeft(table, p, base, offsets[p.column]) ELSE None
          [] p.op = "all" ->
               IF known = <<>> THEN None ELSE FoldLeft(Intersection, Head(known), Tail(known))
          [] p.op = "any" ->
               IF known = <<>> \/ Len(known) < Len(each) THEN None
               ELSE FoldLeft(Union, Head(known), Tail(known))

Prunes(p) == p # None /\ RowCanEvaluateStats(p)

\* A selection narrowed by what the statistics leave.
Narrow(selection, left) ==
    CASE left = None -> selection
      [] left # None /\ selection = None -> left
      [] OTHER -> Intersection(selection, left)

-----------------------------------------------------------------------------
(* The readers.  Both return the indexes of the rows.                      *)

Satisfied(table, p, rows) ==
    IF p = None THEN rows
    ELSE {i \in rows : EvaluateRow(p, table.rows[i + 1], table.types) = TRUE}

\* SnapshotTableReader::read.  Each column's statistics have their own pages;
\* here they are the parquet pages of all row groups, one after another.
Segments(table) ==
    [c \in table.stats |->
       FoldLeft(LAMBDA all, g : all \o Tail([i \in DOMAIN table.pages[c][g] |->
                                                table.groups[g] + table.pages[c][g][i]]),
                <<0>>, [g \in 1 .. Len(table.groups) - 1 |-> g])]

SnapshotRead(table, p, selection) ==
    LET left == IF Prunes(p) THEN RowsLeft(table, p, 0, Segments(table)) ELSE None
        rows == Narrow(selection, left)
    IN  Satisfied(table, p, IF rows = None THEN RowIndexes(table) ELSE RowsOf(rows))

\* ParquetFile::read: row groups are pruned first, then their pages.
GroupsLeft(table, p, selection) ==
    LET groups == table.groups
        left   == IF Prunes(p) THEN RowsLeft(table, p, 0, [c \in table.stats |-> groups]) ELSE None
        rows   == Narrow(selection, left)
        whole(g) == [page |-> g, whole |-> TRUE, ranges |-> <<<<0, groups[g + 1] - groups[g]>>>>]
    IN  IF rows = None THEN [g \in 1 .. Len(groups) - 1 |-> whole(g)]
        ELSE Paginate(rows, groups)

PagesLeft(table, p, group) ==
    LET g    == group.page
        left == IF Prunes(p)
                THEN RowsLeft(table, p, table.groups[g], [c \in table.stats |-> table.pages[c][g]])
                ELSE None
    IN  Narrow(IF group.whole THEN None ELSE group.ranges, left)

\* read_row_group, the indexes of whose rows start at the group's offset.
ReadRowGroup(table, p, group) ==
    LET first == table.groups[group.page]
        left  == PagesLeft(table, p, group)
        rows  == IF left = None THEN RowsOf(group.ranges) ELSE RowsOf(left)
    IN  Satisfied(table, p, {first + i : i \in rows})

ParquetRead(table, p, selection) ==
    LET groups == GroupsLeft(table, p, selection)
    IN  UNION {ReadRowGroup(table, p, groups[i]) : i \in DOMAIN groups}

ReadTable(table, p, selection) ==
    IF table.file = "parquet" THEN ParquetRead(table, p, selection)
    ELSE SnapshotRead(table, p, selection)
=============================================================================
