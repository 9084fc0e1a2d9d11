------------------------------ MODULE QueryPlan ------------------------------
(***************************************************************************)
(* The execution of one query on one chunk (query::plan).                  *)
(*                                                                         *)
(* A query is compiled item by item into scans, each feeding the output of *)
(* its own table and relations to other tables; PlanBuilder::simplify then *)
(* replaces what a request for a whole table makes redundant.  Scans run   *)
(* in parallel, then relations; the rows they leave are weighed and the    *)
(* blocks of one package are written out in order.  The client asks again  *)
(* from the block after the last one it was given.                         *)
(*                                                                         *)
(* A relation is a record: kind, input, input_key, output, output_key.     *)
(***************************************************************************)
EXTENDS TableScan

CONSTANTS
    Tables,         \* the tables, the first one holds the block headers
    PrimaryKey,     \* Table.primary_key
    ChildKey,       \* Table.children: for each table, the keys of its children
    RowWeight,      \* the fixed weight of a row of each table
    WeightColumns,  \* the stored weight columns of each table
    Lists,          \* the columns whose cells are lists (addresses)
    Chunks,         \* the chunks a query may be executed on
    Items,          \* the item requests
    Ranges,         \* from, to (or None) and includeAllBlocks of a query
    MaxItems,       \* the limit of ensure_item_count
    PackageLimit    \* the weight of a package, 20 MiB

VARIABLES
    chunk,              \* the tables of the chunk
    query,              \* the block range, includeAllBlocks and the items
    scans, relations,   \* PlanBuilder.scans and PlanBuilder.relations
    pc,                 \* the phase of the execution
    waiting,            \* the scans or relations that have not run yet
    relation_inputs,    \* the RowList of each relation
    output_inputs,      \* the RowList of each output
    package,            \* the rows of a package and each DataItem.pos
    received            \* the blocks the client has received

vars == <<chunk, query, scans, relations, pc, waiting,
          relation_inputs, output_inputs, package, received>>

TableNames == Range(Tables)
Header == Tables[1]

-----------------------------------------------------------------------------
(* Compilation.                                                            *)

\* PredicateBuilder: an empty list makes a request that selects nothing.
IsNever(item) == \E i \in DOMAIN item.filters : item.filters[i].list = {}

Condition(filter) ==
    LET values == SetToSortSeq(filter.list, <)
        tests  == [i \in DOMAIN values |-> [op |-> "bloom", value |-> values[i]]]
    IN  CASE filter.op = "in" -> On(filter.column, ColInList(filter.list))
          [] filter.op = "mentions" ->
               On(filter.column, IF Len(tests) = 1 THEN tests[1] ELSE [op |-> "or", of |-> tests])

Predicate(item) ==
    IF item.filters = <<>> THEN None
    ELSE AllOf([i \in DOMAIN item.filters |-> Condition(item.filters[i])])

\* PlanBuilder::add_rel: a relation that is there already is shared.
AddRel(rels, rel) == IF rel \in Range(rels) THEN rels ELSE Append(rels, rel)
RelIndex(rels, rel) == CHOOSE i \in DOMAIN rels : rels[i] = rel

\* compile_plan! for one item request.
AddItem(item) ==
    /\ pc = "compiling"
    /\ Len(query.items) < MaxItems
    /\ query' = [query EXCEPT !.items = Append(@, item)]
    /\ IF IsNever(item) THEN UNCHANGED <<scans, relations>>
       ELSE /\ relations' = FoldLeft(AddRel, relations, item.relations)
            /\ scans' = Append(scans,
                 [table |-> item.table, predicate |-> Predicate(item), output |-> item.table,
                  relations |-> {RelIndex(relations', item.relations[i]) :
                                   i \in DOMAIN item.relations}])
    /\ UNCHANGED <<chunk, pc, waiting, relation_inputs, output_inputs, package, received>>

\* Defect: every join is taken for a full one.
IsFullRelJoins(rel) == rel.kind \in {"children", "parents", "join"}

\* Full input implies full output: every row of a child table has its parent.
IsFullRel(rel) ==
    \/ rel.kind \in {"children", "parents"}
    \/ /\ rel.kind = "join"
       /\ rel.input_key = PrimaryKey[rel.input]
       /\ rel.output \in DOMAIN ChildKey[rel.input]
       /\ rel.output_key = ChildKey[rel.input][rel.output]

\* PlanBuilder::simplify, where some scan has no predicate.  What is selected
\* in full is taken out of the plan, and put back as one scan per table.
FullScans == {i \in DOMAIN scans : scans[i].predicate = None}
FullInputs == UNION {scans[i].relations : i \in FullScans}
FullOutputs ==
    {scans[i].output : i \in FullScans}
    \cup {relations[r].output : r \in {r \in FullInputs : IsFullRel(relations[r])}}

KeptRelations == {r \in DOMAIN relations : relations[r].output \notin FullOutputs}
NewIndex(r) == Cardinality({k \in KeptRelations : k <= r})
StillFull == {NewIndex(r) : r \in FullInputs \cap KeptRelations}
LeftRelations == [n \in 1 .. Cardinality(KeptRelations) |->
                    relations[CHOOSE r \in KeptRelations : NewIndex(r) = n]]

LeftScan(scan) ==
    [scan EXCEPT !.output = IF @ \in FullOutputs THEN None ELSE @,
                 !.relations = {NewIndex(r) : r \in @ \cap KeptRelations} \ StillFull]

LeftScans ==
    SelectSeq([i \in DOMAIN scans |-> LeftScan(scans[i])],
              LAMBDA s : s.predicate # None /\ (s.relations # {} \/ s.output # None))

NewScans ==
    LET of(t) == {r \in StillFull : LeftRelations[r].input = t}
    IN  {[table |-> t, predicate |-> None, relations |-> of(t),
          output |-> IF t \in FullOutputs THEN t ELSE None] :
           t \in FullOutputs \cup {LeftRelations[r].input : r \in StillFull}}

\* PlanBuilder::build.  The order of the new scans is that of a hash map.
Build ==
    /\ pc = "compiling"
    /\ IF FullScans = {} THEN UNCHANGED <<scans, relations>>
       ELSE /\ relations' = LeftRelations
            /\ scans' = LeftScans \o SetToSeq(NewScans)
    /\ pc' = "ready"
    /\ UNCHANGED <<chunk, query, waiting, relation_inputs, output_inputs, package, received>>

-----------------------------------------------------------------------------
(* Scans and relations.                                                    *)

Start ==
    /\ pc = "ready"
    /\ relation_inputs' = [r \in DOMAIN relations |-> {}]
    /\ output_inputs' = [t \in TableNames |-> {}]
    /\ waiting' = DOMAIN scans
    /\ pc' = "scanning"
    /\ UNCHANGED <<chunk, query, scans, relations, package, received>>

\* A RowList takes the rows of every scan or relation that feeds it.
Extend(list, rows) == list \cup rows

ExecuteScan(i) ==
    /\ pc = "scanning" /\ i \in waiting
    /\ \E rows \in {ReadTable(chunk[scans[i].table], scans[i].predicate, None)} :
         /\ relation_inputs' = [r \in DOMAIN relations |->
              IF r \in scans[i].relations THEN Extend(relation_inputs[r], rows)
              ELSE relation_inputs[r]]
         /\ output_inputs' = [t \in TableNames |->
              IF t = scans[i].output THEN Extend(output_inputs[t], rows) ELSE output_inputs[t]]
    /\ waiting' = waiting \ {i}
    /\ UNCHANGED <<chunk, query, scans, relations, pc, package, received>>

\* Relations start when every scan has ended; an empty input has no effect.
StartRelations ==
    /\ pc = "scanning" /\ waiting = {}
    /\ waiting' = {r \in DOMAIN relations : relation_inputs[r] # {}}
    /\ pc' = "relating"
    /\ UNCHANGED <<chunk, query, scans, relations, relation_inputs, output_inputs, package, received>>

KeyOf(t, i, columns) == [k \in DOMAIN columns |-> Cell(chunk[t], i, columns[k])]
SameKey(a, b) == a = b /\ \A k \in DOMAIN a : a[k] # Null

EvalJoin(rel, input) ==
    {o \in RowIndexes(chunk[rel.output]) :
       \E i \in input : SameKey(KeyOf(rel.output, o, rel.output_key),
                                KeyOf(rel.input, i, rel.input_key))}

\* Rows are grouped by all key columns but the last, which is the address.
GroupOf(t, i, key) == KeyOf(t, i, Front(key))
AddressOf(t, i, key) == Cell(chunk[t], i, Last(key))

LexLess(a, b) ==
    \/ IsStrictPrefix(a, b)
    \/ \E k \in DOMAIN a \cap DOMAIN b : a[k] < b[k] /\ \A j \in 1 .. k - 1 : a[j] = b[j]

\* The rows of one group in the order of their addresses.
SortedGroup(t, key, rows) ==
    SetToSortSeq(rows, LAMBDA i, j : LexLess(AddressOf(t, i, key), AddressOf(t, j, key)))

\* find_children_impl: the rows under a parent follow it in address order.
RECURSIVE FindChildren(_, _, _, _)
FindChildren(addr, rows, parents, include_parent) ==
    IF rows = <<>> THEN {}
    ELSE IF Head(rows) \notin parents THEN FindChildren(addr, Tail(rows), parents, include_parent)
    ELSE LET n == Max({n \in 1 .. Len(rows) :
                         \A k \in 2 .. n : IsStrictPrefix(addr[rows[1]], addr[rows[k]])})
         IN  {rows[k] : k \in 2 .. n} \cup (IF include_parent THEN {rows[1]} ELSE {})
             \cup FindChildren(addr, SubSeq(rows, n + 1, Len(rows)), parents, include_parent)

\* find_parents_impl: a stack of the rows on the path to the current one.
RECURSIVE Unwind(_, _, _)
Unwind(addr, stack, i) ==
    IF stack = <<>> \/ IsStrictPrefix(addr[Last(stack)], addr[i]) THEN stack
    ELSE Unwind(addr, Front(stack), i)

FindParents(addr, rows, children) ==
    LET step(s, i) ==
            LET path == Append(Unwind(addr, s.stack, i), i)
            IN  [stack |-> path,
                 found |-> IF i \in children THEN s.found \cup Range(path) ELSE s.found]
    IN  FoldLeft(step, [stack |-> <<>>, found |-> {}], rows).found

\* Both walk the groups of the output table that hold a row of the input;
\* the rows of a foreign input stand for the rows with the same full key.
EvalTree(rel, input) ==
    LET own    == rel.kind \in {"children", "parents"}
        rows   == RowIndexes(chunk[rel.output])
        chosen == IF own THEN input ELSE EvalJoin(rel, input)
        group(i) == {j \in rows : SameKey(GroupOf(rel.output, i, rel.output_key),
                                          GroupOf(rel.output, j, rel.output_key))}
        addr   == [i \in rows |-> AddressOf(rel.output, i, rel.output_key)]
        found(g) == LET sorted == SortedGroup(rel.output, rel.output_key, g)
                    IN  IF rel.kind \in {"children", "foreign_children"}
                        THEN FindChildren(addr, sorted, chosen, ~own)
                        ELSE FindParents(addr, sorted, chosen)
    IN  UNION {found(g) : g \in {group(i) : i \in chosen}}

EvalRel(rel, input) == IF rel.kind = "join" THEN EvalJoin(rel, input) ELSE EvalTree(rel, input)

ExecuteRelation(r) ==
    /\ pc = "relating" /\ r \in waiting
    /\ LET t == relations[r].output
       IN  output_inputs' = [output_inputs EXCEPT
                               ![t] = Extend(@, EvalRel(relations[r], relation_inputs[r]))]
    /\ waiting' = waiting \ {r}
    /\ UNCHANGED <<chunk, query, scans, relations, pc, relation_inputs, package, received>>

-----------------------------------------------------------------------------
(* Output: the weights of the blocks, the package, the writer.             *)

BlockOf(t, i) == Cell(chunk[t], i, PrimaryKey[t][1])

BlockNumberPredicate(t) ==
    LET column == PrimaryKey[t][1]
    IN  On(column, IF query.to = None THEN [op |-> "at_least", value |-> query.from]
                   ELSE ColBetween(query.from, query.to))

\* The rows of an output in the block range.
OutputRows(t) ==
    IF t # Header /\ output_inputs[t] = {} THEN {}
    ELSE ReadTable(chunk[t], BlockNumberPredicate(t),
                   IF t = Header THEN None
                   ELSE FromSortedIndexes(SetToSortSeq(output_inputs[t], <)))

WeightOf(t, i) ==
    RowWeight[t] + FoldSet(LAMBDA c, sum : sum + Cell(chunk[t], i, c), 0, WeightColumns[t])

\* The weight of a block: its rows among rows, and its header.
BlockWeight(rows, b) ==
    FoldSet(LAMBDA t, sum :
              sum + FoldSet(LAMBDA i, s : s + WeightOf(t, i), 0,
                            {i \in rows[t] : BlockOf(t, i) = b}),
            0, TableNames)

\* The blocks that go into the answer: all of them, or those with items and
\* the first and the last of the range.
Candidates(rows) ==
    LET headers == {BlockOf(Header, i) : i \in rows[Header]}
        filled  == {b \in headers : \E t \in TableNames \ {Header} :
                      \E i \in rows[t] : BlockOf(t, i) = b}
    IN  IF query.all THEN headers ELSE filled \cup {Min(headers), Max(headers)}

\* Defect: the weight of the last block is not counted.
FitsBefore(rows, b) ==
    FoldSet(LAMBDA c, sum : sum + BlockWeight(rows, c), 0, {c \in Candidates(rows) : c < b})
        <= PackageLimit

Fits(rows, b) ==
    FoldSet(LAMBDA c, sum : sum + BlockWeight(rows, c), 0, {c \in Candidates(rows) : c <= b})
        <= PackageLimit

\* The blocks of the package: those that fit, or the first one.
Selected(rows) ==
    LET fitting == {b \in Candidates(rows) : Fits(rows, b)}
    IN  IF fitting = {} THEN {Min(Candidates(rows))} ELSE fitting

\* A primary key as one list, and the order of a DataItem.
FlatKey(t, i) ==
    FoldLeft(LAMBDA key, c : IF c \in Lists THEN key \o Cell(chunk[t], i, c)
                             ELSE Append(key, Cell(chunk[t], i, c)),
             <<>>, PrimaryKey[t])
ComputeOrder(t, rows) == SetToSortSeq(rows, LAMBDA i, j : LexLess(FlatKey(t, i), FlatKey(t, j)))

ExecuteOutput ==
    /\ pc = "relating" /\ waiting = {}
    /\ \E rows \in {[t \in TableNames |-> OutputRows(t)]} :
         IF rows[Header] = {} THEN pc' = "done" /\ UNCHANGED package
         ELSE \E selected \in {Selected(rows)} :
              LET written(t) == {i \in rows[t] : IF t = Header /\ ~query.all
                                                 THEN BlockOf(t, i) \in selected
                                                 ELSE BlockOf(t, i) <= Max(selected)}
              IN  /\ package' = [order |-> [t \in TableNames |-> ComputeOrder(t, written(t))],
                                 pos |-> [t \in TableNames |-> 1]]
                  /\ pc' = "writing"
    /\ UNCHANGED <<chunk, query, scans, relations, waiting, relation_inputs, output_inputs, received>>

\* DataItem::write_items: the items at the cursor, as long as they are of the
\* block.
ItemsEnd(t, b) ==
    LET order == package.order[t]
    IN  Max({n \in package.pos[t] .. Len(order) + 1 :
               \A k \in package.pos[t] .. n - 1 : BlockOf(t, order[k]) = b})

\* BlockWriter::write_next_block.
WriteNextBlock ==
    /\ pc = "writing"
    /\ package.pos[Header] <= Len(package.order[Header])
    /\ LET b == BlockOf(Header, package.order[Header][package.pos[Header]])
           items(t) == SubSeq(package.order[t], package.pos[t], ItemsEnd(t, b) - 1)
       IN  /\ received' = Append(received,
                [number |-> b, from |-> query.from,
                 items |-> [t \in TableNames \ {Header} |-> items(t)]])
           /\ package' = [package EXCEPT !.pos =
                [t \in TableNames |-> IF t = Header THEN @[t] + 1 ELSE ItemsEnd(t, b)]]
    /\ UNCHANGED <<chunk, query, scans, relations, pc, waiting, relation_inputs, output_inputs>>

\* Defect: the last block is asked for again.
ResumeAtLast ==
    /\ pc = "writing"
    /\ package.pos[Header] > Len(package.order[Header])
    /\ query' = [query EXCEPT !.from = Last(received).number]
    /\ pc' = IF query.to # None /\ query'.from > query.to THEN "done" ELSE "ready"
    /\ UNCHANGED <<chunk, scans, relations, waiting, relation_inputs, output_inputs, package, received>>

\* The client asks for the blocks after the last one it was given.
Resume ==
    /\ pc = "writing"
    /\ package.pos[Header] > Len(package.order[Header])
    /\ query' = [query EXCEPT !.from = Last(received).number + 1]
    /\ pc' = IF query.to # None /\ query'.from > query.to THEN "done" ELSE "ready"
    /\ UNCHANGED <<chunk, scans, relations, waiting, relation_inputs, output_inputs, package, received>>

Ended == pc = "done" /\ UNCHANGED vars

-----------------------------------------------------------------------------
Init ==
    /\ chunk \in Chunks
    /\ \E r \in Ranges :
         query = [first |-> r.from, from |-> r.from, to |-> r.to, all |-> r.all, items |-> <<>>]
    /\ scans = <<>> /\ relations = <<>>
    /\ pc = "compiling" /\ waiting = {}
    /\ relation_inputs = <<>> /\ output_inputs = [t \in TableNames |-> {}]
    /\ package = None /\ received = <<>>

Next ==
    \/ \E item \in Items : AddItem(item)
    \/ Build
    \/ Start
    \/ \E i \in DOMAIN scans : ExecuteScan(i)
    \/ StartRelations
    \/ \E r \in DOMAIN relations : ExecuteRelation(r)
    \/ ExecuteOutput
    \/ WriteNextBlock
    \/ Resume
    \/ Ended

Spec == Init /\ [][Next]_vars

-----------------------------------------------------------------------------
(* What a query asks for, said without a plan.                             *)

Holds(t, i, filter) ==
    IF filter.op = "mentions" THEN Cell(chunk[t], i, "mentions") \cap filter.list # {}
    ELSE Cell(chunk[t], i, filter.column) \in filter.list

Direct(item) ==
    {i \in RowIndexes(chunk[item.table]) :
       \A f \in DOMAIN item.filters : Holds(item.table, i, item.filters[f])}

\* o is under (or above) the row a of its own table.
Under(rel, a, o) ==
    /\ SameKey(GroupOf(rel.output, a, rel.output_key), GroupOf(rel.output, o, rel.output_key))
    /\ IsPrefix(AddressOf(rel.output, a, rel.output_key), AddressOf(rel.output, o, rel.output_key))

Related(rel, rows) ==
    LET same == {o \in RowIndexes(chunk[rel.output]) : \E i \in rows :
                   SameKey(KeyOf(rel.output, o, rel.output_key), KeyOf(rel.input, i, rel.input_key))}
    IN  CASE rel.kind = "join" -> same
          [] rel.kind = "children" ->
               {o \in RowIndexes(chunk[rel.output]) : \E a \in rows \ {o} : Under(rel, a, o)}
          [] rel.kind = "foreign_children" ->
               {o \in RowIndexes(chunk[rel.output]) : \E a \in same : Under(rel, a, o)}
          [] rel.kind \in {"parents", "foreign_parents"} ->
               {o \in RowIndexes(chunk[rel.output]) :
                  \E a \in IF rel.kind = "parents" THEN rows ELSE same : Under(rel, o, a)}

Asked(t) ==
    UNION {(IF item.table = t THEN Direct(item) ELSE {})
           \cup UNION {Related(rel, Direct(item)) :
                         rel \in {r \in Range(item.relations) : r.output = t}} :
             item \in Range(query.items)}

Among(asked, b) == [t \in TableNames |-> {i \in asked[t] : BlockOf(t, i) = b}]

\* The blocks of the chunk from lo to hi may be left out of the answer: all
\* blocks were not asked for, and there is no item in them.
MayBeSkipped(asked, lo, hi) ==
    \A i \in RowIndexes(chunk[Header]) :
        BlockOf(Header, i) \in lo .. hi =>
            ~query.all /\ \A t \in TableNames \ {Header} : Among(asked, BlockOf(Header, i))[t] = {}

LastInChunk == Max({BlockOf(Header, i) : i \in RowIndexes(chunk[Header])})
Given(k) == IF k = 0 THEN query.first - 1 ELSE received[k].number

\* The answer is exact: however the plan was simplified, whatever the order of
\* the scans and relations and wherever the packages end, every block comes
\* with exactly the rows the items ask for, in the order of their primary
\* key, blocks come once and in order, and none with items is left out.
\* (Blocks are only ever appended: it is enough to look at the last one.)
AnswerExact ==
    LET n     == Len(received)
        asked == [t \in TableNames |-> Asked(t)]
    IN  /\ pc = "writing" /\ n > 0 =>
             /\ Given(n - 1) < Given(n)
             /\ MayBeSkipped(asked, Given(n - 1) + 1, Given(n) - 1)
             /\ \A t \in TableNames \ {Header} :
                  received[n].items[t] = ComputeOrder(t, Among(asked, Given(n))[t])
        /\ pc = "done" =>
             MayBeSkipped(asked, Given(n) + 1, IF query.to = None THEN LastInChunk ELSE query.to)

\* A package is bounded: the blocks answered in one go weigh at most the
\* limit, counted over the rows asked for, unless it is a single block.
PackageBounded ==
    LET together == {k \in DOMAIN received : received[k].from = query.from}
        asked    == [t \in TableNames |-> IF t = Header THEN RowIndexes(chunk[t]) ELSE Asked(t)]
    IN  pc = "writing" /\ Cardinality(together) > 1 =>
            FoldSet(LAMBDA k, sum : sum + BlockWeight(Among(asked, Given(k)), Given(k)), 0, together)
                <= PackageLimit

\* A query ends: every step takes it nearer to its end, be it through a block
\* heavier than a package.  Within a package the phases only go forward, and
\* in a phase what is left of it only shrinks; the next package begins above
\* the last one.  (That some step is left until then is TLC's deadlock check.)
Phases == <<"compiling", "ready", "scanning", "relating", "writing", "done">>
Phase(name) == CHOOSE k \in DOMAIN Phases : Phases[k] = name
QueryAdvances ==
    [][\/ query.from < query'.from /\ query'.from <= LastInChunk + 1
       \/ query'.from = query.from /\ Phase(pc) < Phase(pc')
       \/ /\ query'.from = query.from /\ pc' = pc
          /\ \/ Len(query'.items) > Len(query.items)
             \/ Cardinality(waiting') < Cardinality(waiting)
             \/ Len(received') > Len(received)]_vars
=============================================================================
