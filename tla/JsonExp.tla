------------------------------- MODULE JsonExp -------------------------------
(***************************************************************************)
(* The expressions that make JSON of a row (query::json): what evaluating  *)
(* one against the columns of a batch refuses, and what it shows.          *)
(***************************************************************************)
EXTENDS ChunkTables

\* A projection maps the fields of a selection to expressions on columns.
As(kind, columns) == [c \in columns |-> [e |-> kind, column |-> c]]
Shows(columns) == As("value", columns)
RollOf(columns) == [e |-> "roll", columns |-> columns]
ObjectOf(props) == [e |-> "object", props |-> props]
EnumOf(tag, variants) == [e |-> "enum", column |-> tag, variants |-> variants]

\* Exp::for_each_column.
RECURSIVE ColumnsOf(_)
ColumnsOf(exp) ==
    CASE exp.e = "roll" -> Range(exp.columns)
      [] exp.e = "object" -> UNION {ColumnsOf(exp.props[f]) : f \in DOMAIN exp.props}
      [] exp.e = "enum" -> {exp.column} \cup UNION {ColumnsOf(exp.variants[v]) : v \in DOMAIN exp.variants}
      [] OTHER -> {exp.column}

Unsigned == {"u8", "u16", "u32", "u64"}
Integral == Unsigned \cup {"i16", "i32", "i64"}
Numeric == Integral \cup {"f64"}
Encodable == Numeric \cup {"str", "bin", "bool", "ts_s", "ts_ms", "struct",
                           "list_str", "list_u16", "list_u32", "list_struct"}

\* The types each leaf accepts.
Accepts(kind) ==
    CASE kind = "value" -> Encodable
      [] kind = "json" -> {"str", "bin"}
      [] kind = "bignum" -> Numeric
      [] kind = "hex" -> Unsigned
      [] kind = "version" -> {"i16"}
      [] kind \in {"seconds", "millis"} -> {"ts_s", "ts_ms"}

\* eval_roll: a list can only come last, and once a column has nulls every
\* column after it must have some, since the first null ends the list.
HasNulls(rows, c) == \E i \in DOMAIN rows : rows[i][c] = Absent
RollFails(columns, types, rows) ==
    \E i \in DOMAIN columns :
        \/ i < Len(columns) /\ types[columns[i]] \in {"list_str", "list_u16", "list_u32"}
        \/ \E j \in 1 .. i - 1 : HasNulls(rows, columns[j]) /\ ~HasNulls(rows, columns[i])

RECURSIVE EvalFails(_, _, _)
EvalFails(exp, types, rows) ==
    CASE exp.e = "roll" -> RollFails(exp.columns, types, rows)
      [] exp.e = "object" -> \E f \in DOMAIN exp.props : EvalFails(exp.props[f], types, rows)
      [] exp.e = "enum" ->
           \/ types[exp.column] # "str"
           \/ \E v \in DOMAIN exp.variants : EvalFails(exp.variants[v], types, rows)
      [] OTHER -> types[exp.column] \notin Accepts(exp.e)

\* What a leaf shows of a cell that is there.
LeafShows(kind, type, cell) ==
    CASE kind = "json" -> IF cell.k = "json" THEN cell.of ELSE [k |-> "not json", of |-> cell]
      [] kind = "bignum" -> [k |-> "decimal string", of |-> cell]
      [] kind = "hex" -> [k |-> "hex string", of |-> cell]
      [] kind = "version" -> IF cell = Tag("-1") THEN Tag("legacy") ELSE cell
      [] kind = "seconds" /\ type = "ts_ms" -> [k |-> "divided", of |-> cell]
      [] kind = "millis" /\ type = "ts_s" -> [k |-> "multiplied", of |-> cell]
      [] OTHER -> cell

\* The items of a roll up to the first null; a list spreads its items.
RollShows(columns, types, row) ==
    LET there == Min({i \in 1 .. Len(columns) + 1 :
                        i = Len(columns) + 1 \/ row[columns[i]] = Absent}) - 1
        at(i) == IF row[columns[i]].k = "list" THEN row[columns[i]].items ELSE <<row[columns[i]]>>
    IN  ListOf(FoldLeft(LAMBDA all, i : all \o at(i), <<>>, [i \in 1 .. there |-> i]))

RECURSIVE EvalShows(_, _, _)
EvalShows(exp, types, row) ==
    CASE exp.e = "roll" -> RollShows(exp.columns, types, row)
      [] exp.e = "object" ->
           [k |-> "object", props |-> [f \in DOMAIN exp.props |-> EvalShows(exp.props[f], types, row)]]
      [] exp.e = "enum" ->
           IF row[exp.column].k = "tag" /\ row[exp.column].name \in DOMAIN exp.variants
           THEN EvalShows(exp.variants[row[exp.column].name], types, row) ELSE Absent
      [] OTHER -> IF row[exp.column] = Absent THEN Absent
                  ELSE LeafShows(exp.e, types[exp.column], row[exp.column])
=============================================================================
