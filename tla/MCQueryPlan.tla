----------------------------- MODULE MCQueryPlan -----------------------------
(***************************************************************************)
(* One chunk of three blocks, 1, 2 and 4: blocks, logs and traces are      *)
(* parquet files, transactions a table of a storage snapshot.  Rows are    *)
(* sorted by other columns than their primary key, a page may lack any     *)
(* value, and the type of a column ends at 7, below some of the literals.  *)
(***************************************************************************)
EXTENDS QueryPlan

MCTables == <<"blocks", "transactions", "logs", "traces">>
TxKey == <<"block_number", "transaction_index">>
TraceKey == Append(TxKey, "trace_address")
MCPrimaryKey ==
    [blocks |-> <<"number">>, transactions |-> TxKey,
     logs |-> <<"block_number", "log_index">>, traces |-> TraceKey]
MCChildKey ==
    [blocks |-> <<>>, transactions |-> [logs |-> TxKey, traces |-> TxKey],
     logs |-> <<>>, traces |-> <<>>]
MCRowWeight == [blocks |-> 1, transactions |-> 2, logs |-> 1, traces |-> 2]
MCWeightColumns == [blocks |-> {}, transactions |-> {}, logs |-> {"data_size"}, traces |-> {}]
MCLists == {"trace_address"}

\* Two values never share their bits: what a false positive adds is left out.
MCBits == [value \in 1 .. 2 |-> {value}]

Small == [min |-> 0, max |-> 7]
TableOf(file, rows, columns, groups, pages) ==
    [file |-> file, rows |-> rows, types |-> [c \in columns |-> Small],
     stats |-> DOMAIN pages, groups |-> groups, pages |-> pages]

Block(n) == [number |-> n]
Tx(b, i, v) == [block_number |-> b, transaction_index |-> i, v |-> v]
Log(b, l, i, addr, v, size, mentions) ==
    [block_number |-> b, log_index |-> l, transaction_index |-> i, trace_address |-> addr, v |-> v,
     data_size |-> size, mentions |-> mentions, bloom |-> UNION {Bits[x] : x \in mentions}]
Trace(b, i, addr, v) ==
    [block_number |-> b, transaction_index |-> i, trace_address |-> addr, v |-> v]

Blocks ==
    TableOf("parquet", <<Block(1), Block(2), Block(4)>>, {"number"}, <<0, 2, 3>>,
            [number |-> <<<<0, 1, 2>>, <<0, 1>>>>])
Transactions ==
    TableOf("snapshot", <<Tx(2, 0, 1), Tx(1, 1, 2), Tx(1, 0, 1), Tx(4, 0, 2)>>,
            {"block_number", "v"}, <<0, 4>>,
            [v |-> <<<<0, 2, 4>>>>, block_number |-> <<<<0, 1, 4>>>>])
Logs ==
    TableOf("parquet",
            <<Log(1, 0, 0, <<0>>, 1, 0, {1}), Log(4, 0, 0, <<>>, 2, 1, {1, 2}),
              Log(1, 2, 1, Null, Null, 0, {}), Log(2, 0, 0, <<>>, 1, 2, {2})>>,
            {"block_number", "v", "bloom"}, <<0, 2, 4>>,
            [v |-> <<<<0, 1, 2>>, <<0, 2>>>>])
Traces ==
    TableOf("parquet",
            <<Trace(1, 0, <<>>, 1), Trace(1, 0, <<1>>, 2), Trace(1, 0, <<0>>, 2),
              Trace(1, 0, <<0, 0>>, 1), Trace(2, 0, <<>>, 2), Trace(2, 0, <<0>>, 1)>>,
            {"block_number", "v"}, <<0, 3, 6>>,
            [v |-> <<<<0, 1, 3>>, <<0, 2, 3>>>>, block_number |-> <<<<0, 3>>, <<0, 3>>>>])
MCChunks ==
    {[blocks |-> Blocks, transactions |-> Transactions, logs |-> Logs, traces |-> Traces]}

Rel(kind, i, o, key) ==
    [kind |-> kind, input |-> i, input_key |-> key, output |-> o, output_key |-> key]
Join(i, o) == Rel("join", i, o, TxKey)
Tree(kind, i) == Rel(kind, i, "traces", TraceKey)

In(list) == [op |-> "in", column |-> "v", list |-> list]
Mentions(list) == [op |-> "mentions", column |-> "bloom", list |-> list]
Item(t, filters, rels) == [table |-> t, filters |-> filters, relations |-> rels]

\* Whole tables, single values, lists with a literal beyond the type, an empty
\* list, a bloom filter; every kind of relation, full and not.
MCItems ==
    {Item("transactions", <<>>, <<Join("transactions", "logs")>>),
     Item("transactions", <<>>, <<Join("transactions", "traces")>>),
     Item("transactions", <<In({1})>>, <<Join("transactions", "logs"), Join("transactions", "traces")>>),
     Item("transactions", <<In({2, 9})>>, <<>>),
     Item("logs", <<>>, <<Join("logs", "transactions"), Join("logs", "logs")>>),
     Item("logs", <<In({1})>>, <<Join("logs", "transactions")>>),
     Item("logs", <<In({})>>, <<Join("logs", "transactions")>>),
     Item("logs", <<Mentions({1, 2}), In({2, 9})>>, <<Tree("foreign_parents", "logs")>>),
     Item("logs", <<Mentions({2})>>, <<Tree("foreign_children", "logs")>>),
     Item("traces", <<>>, <<Tree("children", "traces"), Join("traces", "transactions")>>),
     Item("traces", <<In({2})>>, <<Tree("children", "traces"), Join("traces", "logs")>>),
     Item("traces", <<In({1, 9})>>, <<Tree("parents", "traces"), Join("traces", "transactions")>>)}

MCRanges ==
    {[from |-> 0, to |-> None, all |-> FALSE], [from |-> 1, to |-> 2, all |-> TRUE],
     [from |-> 2, to |-> 9, all |-> FALSE]}
=============================================================================
