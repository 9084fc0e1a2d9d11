----------------------------- MODULE ChunkTables -----------------------------
(***************************************************************************)
(* The tables of a chunk, from the items of ingested blocks to prepared    *)
(* tables (the data-core crate).                                           *)
(*                                                                         *)
(* An item is what a chain module's model.rs parsed: the tag of its        *)
(* variant and the fields that are there.  A field of a nested struct is   *)
(* named by its path.  A value is known by the field and the item it is    *)
(* from; numbers that may be downcast are numbers, wide ones exceed the    *)
(* narrow type (u32 for block numbers, u16 for item indexes).              *)
(***************************************************************************)
EXTENDS Naturals, Sequences, FiniteSets, SequencesExt

Absent == [k |-> "absent"]
Value(field, item, i) == [k |-> "value", of |-> field, item |-> item, i |-> i]
Number(v, wide) == [k |-> "number", v |-> v, wide |-> wide]
Tag(name) == [k |-> "tag", name |-> name]
ListOf(items) == [k |-> "list", items |-> items]
JsonText(cell) == [k |-> "json", of |-> cell]
SizeOf(cell) == [k |-> "size", of |-> cell]
PrefixOf(cell, n) == [k |-> "prefix", of |-> cell, len |-> n]
Sighash(cell) == PrefixOf(cell, 4)
BloomOf(cells) == [k |-> "bloom", of |-> cells]
EmptyList == ListOf(<<>>)

\* A variant of an item: its tag, the fields that are there and the lengths of its lists.
Variant(tag, fields, lists) == [tag |-> tag, fields |-> fields, lists |-> lists]
NoneGiven == [c \in {} |-> Absent]
NoLists == [f \in {} |-> 0]
ListsOf(fields, n) == [f \in fields |-> n]
Numbers(block, item) == [block |-> block, item |-> item]

\* The item a variant stands for: the n-th of the chunk, of a transaction of a block.
ItemOf(numbers, variant, place, wide) ==
    LET number(f, i) == IF f \in numbers.block THEN Number(place.block, wide.block) ELSE Number(i, wide.item)
        isNumber(f) == f \in numbers.block \cup numbers.item
        plain(f) == IF isNumber(f) THEN number(f, IF f = "transaction_index" THEN place.tx ELSE 0)
                    ELSE Value(f, place.n, 0)
        list(f) == ListOf([i \in 1 .. variant.lists[f] |-> IF isNumber(f) THEN number(f, i) ELSE Value(f, place.n, i)])
    IN  [tag |-> variant.tag, place |-> place,
         is |-> [f \in variant.fields \cup DOMAIN variant.lists |->
                   IF f \in DOMAIN variant.lists THEN list(f) ELSE plain(f)]]

Get(item, field) == IF field \in DOMAIN item.is THEN item.is[field] ELSE Absent
GetList(item, field) == IF field \in DOMAIN item.is THEN item.is[field] ELSE EmptyList
Mapped(cell, F(_)) == IF cell = Absent THEN Absent ELSE F(cell)
AsJson(item, field) == Mapped(Get(item, field), JsonText)
Nth(cell, i) == IF cell.k = "list" /\ i \in DOMAIN cell.items THEN cell.items[i] ELSE Absent

-----------------------------------------------------------------------------
(* table_builder!: columns by type, and the description of the table.      *)

TableOf(groups, block, item, sort) ==
    LET columns == UNION {groups[t] : t \in DOMAIN groups}
    IN  [columns |-> [c \in columns |-> CHOOSE t \in DOMAIN groups : c \in groups[t]],
         block |-> block, item |-> item, sort |-> sort]

\* A row whose columns are copies of the fields of the same name, but for the given ones.
Lists == {"list_str", "list_u32", "list_struct"}
RowOf(table, given, item) ==
    [c \in DOMAIN table.columns |->
       CASE c \in DOMAIN given -> given[c]
         [] c \notin DOMAIN given /\ table.columns[c] \in Lists -> GetList(item, c)
         [] OTHER -> Get(item, c)]

-----------------------------------------------------------------------------
(* Downcast: the block numbers and item indexes of all tables of a chunk   *)
(* get the narrowest types that hold all of them.                          *)

IsWide(cell) ==
    \/ cell.k = "number" /\ cell.wide
    \/ cell.k = "list" /\ \E i \in DOMAIN cell.items : cell.items[i].wide

\* DowncastState after every table of the builder was registered.
Registered(tables, rows) ==
    LET exceeds(kind) == \E t \in DOMAIN tables : \E i \in DOMAIN rows[t] :
                             \E c \in tables[t][kind] : IsWide(rows[t][i][c])
    IN  [block |-> exceeds("block"), item |-> exceeds("item")]

MinimalType(table, c, cast) ==
    LET list == table.columns[c] = "list_u32"
    IN  CASE c \in table.block -> IF cast.block THEN "u64" ELSE "u32"
          [] c \in table.item /\ ~list -> IF cast.item THEN "u32" ELSE "u16"
          [] c \in table.item /\ list -> IF cast.item THEN "list_u32" ELSE "list_u16"
          [] OTHER -> table.columns[c]

\* A cast fails on the first value that does not fit.
CastFails(table, rows, cast) ==
    \E i \in DOMAIN rows :
        \/ ~cast.block /\ \E c \in table.block : IsWide(rows[i][c])
        \/ ~cast.item /\ \E c \in table.item : IsWide(rows[i][c])

Prepared(tables, rows) ==
    LET cast == Registered(tables, rows)
    IN  [t \in DOMAIN tables |->
           [types |-> [c \in DOMAIN tables[t].columns |-> MinimalType(tables[t], c, cast)],
            rows |-> rows[t], failed |-> CastFails(tables[t], rows[t], cast)]]
=============================================================================
