----------------------------- MODULE FillsChain -----------------------------
(* The tables of Hyperliquid fills and the queries on them. *)
EXTENDS ChainQueries

-----------------------------------------------------------------------------
(* model.rs *)

BlockHeader == <<Variant("block", {"number", "hash", "parent_hash", "timestamp"}, NoLists)>>
Fill ==
    LET required == {"fill_index", "user", "coin", "px", "sz", "time", "start_position", "dir", "closed_pnl", "hash",
                     "oid", "crossed", "fee", "tid", "fee_token"}
    IN  << Variant("A", required \cup {"builder_fee", "cloid", "builder", "twap_id"}, NoLists),
           Variant("B", required, NoLists) >>
Model == [blocks |-> BlockHeader, fills |-> Fill]
Indexes == Numbers({"number"}, {"fill_index"})

-----------------------------------------------------------------------------
(* tables *)

BlockTable ==
    TableOf([u64 |-> {"number"}, str |-> {"hash", "parent_hash"}, ts_ms |-> {"timestamp"}],
            {"number"}, {}, <<"number">>)
FillTable ==
    TableOf([u64 |-> {"block_number", "oid", "tid", "twap_id"}, u32 |-> {"fill_index"}, bool |-> {"crossed"},
             f64 |-> {"px", "sz", "start_position", "closed_pnl", "fee", "builder_fee"}, ts_ms |-> {"time"},
             str |-> {"user", "coin", "side", "dir", "hash", "cloid", "fee_token", "builder"}],
            {"block_number"}, {"fill_index"}, <<"user", "coin", "block_number", "fill_index">>)
Tables == [blocks |-> BlockTable, fills |-> FillTable]

BlockRow(header) == RowOf(BlockTable, NoneGiven, header)
FillRow(at, item) == RowOf(FillTable, at @@ [side |-> Tag(item.tag)], item)
Row(t, header, item) ==
    IF t = "blocks" THEN BlockRow(item) ELSE FillRow([block_number |-> header.is["number"]], item)

-----------------------------------------------------------------------------
(* query/hyperliquid_fills.rs *)

TableSet ==
    [blocks |-> Queried(<<"number">>, NoChildren, NoWeights),
     fills |-> Queried(<<"block_number", "fill_index">>, NoChildren, NoWeights)]
BlockFields == Shows({"number", "hash", "parent_hash", "timestamp"})
FillFields ==
    Shows({"fill_index", "user", "coin", "px", "sz", "side", "time", "start_position", "dir", "closed_pnl", "hash", "oid",
           "crossed", "fee", "builder_fee", "tid", "cloid", "fee_token", "builder", "twap_id"})
Project == [blocks |-> BlockFields, fills |-> FillFields]

FillRequest ==
    Request("fills", NoFixed, In("str", {"user", "coin", "dir", "cloid", "fee_token", "builder"}), NoRelations)
HyperliquidFillsQuery == [fills |-> FillRequest]

-----------------------------------------------------------------------------
(* What the names of the query language stand for. *)

FieldOf(t, f, item) == IF t = "fills" /\ f = "side" THEN Tag(item.tag) ELSE Get(item, f)
Has(r, f, item) == {Get(item, f)} \ {Absent}
OfRequest(r, item) == TRUE
Relates(r, rel, given, item) == TRUE
=============================================================================
