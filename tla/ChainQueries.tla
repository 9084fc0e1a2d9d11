---------------------------- MODULE ChainQueries ----------------------------
(***************************************************************************)
(* The queries of a chain: the tables they know, the requests with their   *)
(* filters and relations, and what executing one on prepared tables gives. *)
(***************************************************************************)
EXTENDS JsonExp

\* TableSet: the key of a table, the tables whose rows all belong to its rows,
\* and the columns that hold the weights of other columns.
Queried(key, children, weights) == [key |-> key, children |-> children, weights |-> weights]
NoWeights == [c \in {} |-> c]
NoChildren == [t \in {} |-> <<>>]

Filter(op, column, literal) == [op |-> op, column |-> column, literal |-> literal]
In(literal, columns) == [c \in columns |-> Filter("in", c, literal)]
Join(table, inKey, outKey) == [rel |-> "join", table |-> table, inKey |-> inKey, outKey |-> outKey]
Tree(rel, table, key) == [rel |-> rel, table |-> table, inKey |-> key, outKey |-> key]
Request(table, fixed, filters, relations) ==
    [table |-> table, fixed |-> fixed, filters |-> filters, relations |-> relations]
NoFixed == [c \in {} |-> Absent]
NoFilters == [f \in {} |-> Absent]
NoRelations == [r \in {} |-> Absent]

-----------------------------------------------------------------------------
(* Execution.  A chunk is what Prepared gives; a column that is not there  *)
(* or has not the expected type ends the query with an error.              *)

HasColumns(chunk, t, columns) == columns \subseteq DOMAIN chunk[t].types

\* cast_scalar and the InList arrays: the literal must be of the column's family.
Comparable(op, literal, type) ==
    CASE op = "bloom" -> type = "bin"
      [] op = "contains" -> <<literal, type>> \in {<<"str", "list_str">>, <<"u32", "list_u32">>}
      [] OTHER -> \/ literal = type
                  \/ literal \in Numeric /\ type \in Numeric

\* The values of a numeric field are ordered as the items they are from.
Satisfies(filter, row, value) ==
    LET cell == row[IF filter.op = "prefix" THEN filter.column[value.len] ELSE filter.column]
    IN  CASE filter.op = "bloom" -> cell.k = "bloom" /\ value \in cell.of
          [] filter.op = "contains" -> cell.k = "list" /\ value \in Range(cell.items)
          [] filter.op = "non zero" -> cell \notin {Absent, Tag("0x0")}
          [] filter.op = "ge" -> cell.k = "value" /\ cell.item >= value.item
          [] filter.op = "le" -> cell.k = "value" /\ cell.item <= value.item
          [] OTHER -> cell = value

FilterFails(chunk, t, filter) ==
    LET columns == IF filter.op = "prefix" THEN filter.column ELSE <<filter.column>>
        literals == IF filter.op = "prefix" THEN filter.literal ELSE <<filter.literal>>
    IN  \/ ~HasColumns(chunk, t, Range(columns))
        \/ \E i \in DOMAIN columns : ~Comparable(filter.op, literals[i], chunk[t].types[columns[i]])

\* eval_join wants keys of the same types, the trees an address they can walk.
RelationFails(chunk, t, r) ==
    \/ ~HasColumns(chunk, t, Range(r.inKey))
    \/ ~HasColumns(chunk, r.table, Range(r.outKey))
    \/ \E i \in DOMAIN r.inKey : chunk[t].types[r.inKey[i]] # chunk[r.table].types[r.outKey[i]]
    \/ r.rel # "join" /\ chunk[r.table].types[Last(r.outKey)] \notin {"list_u32", "list_u16"}

Projected(exps) == UNION {ColumnsOf(exps[f]) : f \in DOMAIN exps}

\* execute_output: weights, then the items of the selected blocks in the order of the key.
OutputFails(chunk, queried, exps, t, selected) ==
    LET weights == {queried[t].weights[c] : c \in Projected(exps) \cap DOMAIN queried[t].weights}
    IN  \/ ~HasColumns(chunk, t, weights \cup Range(queried[t].key) \cup Projected(exps))
        \/ \E f \in DOMAIN exps : EvalFails(exps[f], chunk[t].types, selected)

\* The rows of the chunk a request selects: fixed conditions and at most one filter.
ScanRows(chunk, request, filters, value) ==
    LET rows == chunk[request.table].rows
    IN  {i \in DOMAIN rows :
           /\ \A c \in DOMAIN request.fixed : rows[i][c] = request.fixed[c]
           /\ \A f \in filters : Satisfies(request.filters[f], rows[i], value)}

ScanFails(chunk, request, filters) ==
    \/ ~HasColumns(chunk, request.table, DOMAIN request.fixed)
    \/ \E f \in filters : FilterFails(chunk, request.table, request.filters[f])

\* is_full_rel: every row of a child table is related to some row of the whole table.
IsFull(queried, request, filters, r) ==
    /\ filters = {} /\ DOMAIN request.fixed = {}
    /\ r.rel = "join"
    /\ r.table \in DOMAIN queried[request.table].children
    /\ r.outKey = queried[request.table].children[r.table]
    /\ r.inKey = queried[request.table].key

KeyCells(row, key) == [i \in DOMAIN key |-> row[key[i]]]
UnderAddress(rel, given, row, key) ==
    LET above == IF rel = "children" THEN given ELSE row
        below == IF rel = "children" THEN row ELSE given
        address(x) == x[Last(key)].items
    IN  /\ KeyCells(given, Front(key)) = KeyCells(row, Front(key))
        /\ IsPrefix(address(above), address(below))

RelatedRows(chunk, queried, request, filters, r, selected) ==
    LET rows == chunk[r.table].rows
        given == {chunk[request.table].rows[i] : i \in selected}
    IN  CASE IsFull(queried, request, filters, r) -> DOMAIN rows
          [] r.rel = "join" -> {j \in DOMAIN rows : \E g \in given :
                                  KeyCells(g, r.inKey) = KeyCells(rows[j], r.outKey)}
          [] OTHER -> {j \in DOMAIN rows : \E g \in given : UnderAddress(r.rel, g, rows[j], r.outKey)}
=============================================================================
