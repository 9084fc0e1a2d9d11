------------------------------ MODULE RoundTrip ------------------------------
(***************************************************************************)
(* Blocks of a chain go into the tables of a chunk and come out of queries *)
(* on it.  A chunk is built of blocks with a few transactions, each with   *)
(* one item of every kind; then it is prepared, and a client asks one      *)
(* query: one request with a filter or without, with one relation or       *)
(* without, and all fields.                                                *)
(***************************************************************************)
EXTENDS Chains

CONSTANTS MaxItems,    \* transactions in a chunk
          MaxVariants  \* variants of an item

VARIABLES chain,    \* the kind of the dataset
          items,    \* what was ingested: kind -> items, one per transaction or block
          builder,  \* the rows of the ChunkBuilder
          chunk,    \* the prepared tables
          asked,    \* the query
          answer, pc
vars == <<chain, items, builder, chunk, asked, answer, pc>>

Nothing == [k |-> "nothing"]
Kinds == DOMAIN Chain[chain].tables

Init ==
    /\ chain \in DOMAIN Chain
    /\ items = [t \in Kinds |-> <<>>]
    /\ builder = [t \in Kinds |-> <<>>]
    /\ chunk = Nothing /\ asked = Nothing /\ answer = Nothing
    /\ pc = "ingest"

Wide == {[block |-> FALSE, item |-> FALSE], [block |-> TRUE, item |-> FALSE], [block |-> FALSE, item |-> TRUE]}

Ingested == IF items["blocks"] = <<>> THEN 0 ELSE Last(items["blocks"]).place.n

\* BlockChunkBuilder::push of a block whose transactions are of the given variants.
PushBlock(txs, wide) ==
    LET b == Len(items["blocks"]) + 1
        variant(t, v) == Chain[chain].model[t][((v - 1) % Len(Chain[chain].model[t])) + 1]
        item(t, i) == ItemOf(Chain[chain].indexes, variant(t, txs[i]),
                             [block |-> b, tx |-> i, n |-> Ingested + i], wide)
        header == item("blocks", Len(txs))
        pushed(t) == IF t = "blocks" THEN <<header>> ELSE [i \in DOMAIN txs |-> item(t, i)]
        row(t, i) == RowFor(chain, t, header, pushed(t)[i])
    IN  /\ pc = "ingest" /\ Ingested + Len(txs) <= MaxItems
        /\ items' = [t \in Kinds |-> items[t] \o pushed(t)]
        /\ builder' = [t \in Kinds |-> builder[t] \o [i \in DOMAIN pushed(t) |-> row(t, i)]]
        /\ UNCHANGED <<chain, chunk, asked, answer, pc>>

\* ChunkBuilder::finish and ChunkProcessor::finish, or prepare_in_memory.
Prepare ==
    /\ pc = "ingest" /\ items["blocks"] # <<>>
    /\ chunk' = Prepared(Chain[chain].tables, builder)
    /\ builder' = [t \in Kinds |-> <<>>]
    /\ pc' = "ready"
    /\ UNCHANGED <<chain, items, asked, answer>>

-----------------------------------------------------------------------------
Requests == Chain[chain].query
Given(r, f) == Has(chain, r, f, items[Requests[r].table][1])

\* The queries asked: filters with a value of the first block's item; a relation
\* alone or with the request's first filter that the item satisfies.
Filters(r) == {f \in DOMAIN Requests[r].filters : Given(r, f) # {}}
FirstFilter(r) == IF Filters(r) = {} THEN {} ELSE {CHOOSE f \in Filters(r) : TRUE}
Query(r, filters, value, relations) == [k |-> "query", r |-> r, filters |-> filters, value |-> value, relations |-> relations]
Queries ==
    UNION {LET rels == {{rel} : rel \in DOMAIN Requests[r].relations}
               filtered(fs, rs) == UNION {{Query(r, {f}, v, rl) : v \in Given(r, f), rl \in rs} : f \in fs}
           IN  {Query(r, {}, Absent, rl) : rl \in rels \cup {{}}}
                 \cup filtered(Filters(r), {{}}) \cup filtered(FirstFilter(r), rels)
           : r \in DOMAIN Requests}

\* Plan::execute: headers of the blocks with selected items, and the items.
Ask(q) ==
    LET request == Requests[q.r]
        queried == Chain[chain].queried
        project == Chain[chain].project
        rel(n) == request.relations[n]
        rows(t) == chunk[t].rows
        failsEarly == \/ \E t \in Kinds : chunk[t].failed
                      \/ ScanFails(chunk, request, q.filters)
                      \/ \E n \in q.relations : RelationFails(chunk, request.table, rel(n))
        selected == ScanRows(chunk, request, q.filters, q.value)
        related(t) == UNION {RelatedRows(chunk, queried, request, q.filters, rel(n), selected) :
                               n \in {m \in q.relations : rel(m).table = t}}
        found == [t \in Kinds \ {"blocks"} |->
                    (IF t = request.table THEN selected ELSE {}) \cup related(t)]
        blockOf(t, i) == rows(t)[i]["block_number"]
        header == Head(queried["blocks"].key)
        output == found @@ [blocks |-> {b \in DOMAIN rows("blocks") :
                                          \E t \in DOMAIN found : \E i \in found[t] : blockOf(t, i) = rows("blocks")[b][header]}]
        out(t) == LET idx == SetToSortSeq(output[t], <) IN [i \in DOMAIN idx |-> rows(t)[idx[i]]]
        fails == failsEarly \/ \E t \in Kinds : /\ output[t] # {}
                                                /\ OutputFails(chunk, queried, project[t], t, out(t))
        shown(t) == [i \in output[t] |-> [f \in DOMAIN project[t] |->
                        EvalShows(project[t][f], chunk[t].types, rows(t)[i])]]
    IN  /\ asked' = q
        /\ answer' = IF failsEarly \/ fails THEN [k |-> "error"]
                     ELSE [k |-> "answer", shown |-> [t \in Kinds |-> shown(t)]]
        /\ pc' = "done"
        /\ UNCHANGED <<chain, items, builder, chunk>>

Done == pc = "done" /\ UNCHANGED vars

Next ==
    \/ \E txs \in TupleOf(1 .. MaxVariants, 1) \cup TupleOf(1 .. MaxVariants, 2), wide \in Wide : PushBlock(txs, wide)
    \/ Prepare
    \/ pc = "ready" /\ \E q \in Queries : Ask(q)
    \/ Done

Spec == Init /\ [][Next]_vars

-----------------------------------------------------------------------------
(* Properties *)

\* Every request, filter, relation and field of a query runs on every chunk of
\* the tables its chain fills: the columns are there, with types the plan can
\* filter, join, order and encode, whatever the downcast made of them.
\* But for the two filters of cancelByCloidActions, which name columns no table has.
QueriesRun ==
    answer.k = "error" => /\ asked.r = "cancel_by_cloid_actions"
                          /\ asked.filters \in {{"contains_asset"}, {"contains_cloid"}}

\* The value behind the format it is shown in.
RECURSIVE Plain(_)
Plain(shown) == IF shown.k \in {"decimal string", "hex string", "multiplied", "divided"} THEN Plain(shown.of) ELSE shown
Tells(shown, ingested) == Plain(shown) = ingested \/ (shown = EmptyList /\ ingested = Absent)

\* Every field of an answer shows what was ingested for it, through the flattening
\* into columns, the cast of the chunk and the encoding.
ShowsIngested ==
    answer.k = "answer" =>
        \A t \in Kinds : \A i \in DOMAIN answer.shown[t] : \A f \in DOMAIN answer.shown[t][i] :
            Tells(answer.shown[t][i][f], FieldOf(chain, t, f, items[t][i]))

Wanted == {i \in DOMAIN items[Requests[asked.r].table] :
             LET item == items[Requests[asked.r].table][i]
             IN  OfRequest(chain, asked.r, item) /\ \A f \in asked.filters : asked.value \in Has(chain, asked.r, f, item)}
Related(rel, given, item) ==
    /\ given.place.block = item.place.block /\ given.place.tx = item.place.tx
    /\ Relates(chain, asked.r, rel, given, item)

\* A filter finds exactly the items that have the value, and a relation adds
\* exactly the items of the same transactions that it names.
FilterExact ==
    answer.k = "answer" =>
        LET request == Requests[asked.r]
        IN  \A t \in Kinds \ {"blocks"} :
              DOMAIN answer.shown[t] =
                (IF t = request.table THEN Wanted ELSE {}) \cup
                {j \in DOMAIN items[t] : \E rel \in asked.relations : \E i \in Wanted :
                   request.relations[rel].table = t /\ Related(rel, items[request.table][i], items[t][j])}
=============================================================================
