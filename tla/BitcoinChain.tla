---------------------------- MODULE BitcoinChain ----------------------------
(* The tables of Bitcoin blocks and the queries on them. *)
EXTENDS ChainQueries

-----------------------------------------------------------------------------
(* model.rs: the items and the fields they may lack.  The place of an item in its list is a field. *)

BlockHeader == {"number", "hash", "parent_hash", "timestamp", "median_time", "version", "merkle_root", "nonce",
                "target", "bits", "difficulty", "chain_work", "stripped_size", "size", "weight"}
Transaction == {"transaction_index", "hex", "txid", "hash", "size", "vsize", "weight", "version", "locktime"}
ScriptSig(asm) == {"script_sig_hex"} \cup (IF asm THEN {"script_sig_asm"} ELSE {})
Prevout(optional) ==
    {"prevout_generated", "prevout_height", "prevout_value", "prevout_script_pub_key_hex"} \cup
    (IF optional THEN {"prevout_script_pub_key_asm", "prevout_script_pub_key_desc",
                       "prevout_script_pub_key_type", "prevout_script_pub_key_address"} ELSE {})
TransactionInputTx == {"transaction_index", "input_index", "txid", "vout", "sequence"}
TransactionInputCoinbase == {"transaction_index", "input_index", "coinbase", "sequence"}
TransactionInput ==
    << Variant("tx", TransactionInputTx \cup ScriptSig(TRUE) \cup Prevout(TRUE), ListsOf({"tx_in_witness"}, 2)),
       Variant("coinbase", TransactionInputCoinbase, NoLists),
       Variant("tx", TransactionInputTx \cup ScriptSig(FALSE) \cup Prevout(FALSE), NoLists),
       Variant("tx", TransactionInputTx \cup ScriptSig(TRUE), ListsOf({"tx_in_witness"}, 1)) >>
ScriptPubKey == {"script_pub_key_asm", "script_pub_key_desc", "script_pub_key_type", "script_pub_key_address"}
TransactionOutput ==
    LET required == {"transaction_index", "output_index", "value", "script_pub_key_hex"}
    IN  << Variant("output", required \cup ScriptPubKey, NoLists), Variant("output", required, NoLists) >>

Model == [blocks |-> <<Variant("block", BlockHeader, NoLists)>>,
          transactions |-> <<Variant("transaction", Transaction, NoLists)>>,
          inputs |-> TransactionInput, outputs |-> TransactionOutput]
Indexes == Numbers({"number", "prevout_height"}, {"transaction_index", "input_index", "output_index"})

-----------------------------------------------------------------------------
(* tables: the columns, and the row pushed for an item. *)

BlockTable ==
    TableOf([u64 |-> {"number", "stripped_size", "size", "weight"}, u32 |-> {"version", "nonce"},
             ts_s |-> {"timestamp", "median_time"}, f64 |-> {"difficulty"},
             str |-> {"hash", "parent_hash", "merkle_root", "target", "bits", "chain_work"}],
            {"number"}, {}, <<"number">>)
TransactionTable ==
    TableOf([u64 |-> {"block_number", "size", "vsize", "weight"}, u32 |-> {"transaction_index", "version", "locktime"},
             str |-> {"hex", "txid", "hash"}],
            {"block_number"}, {"transaction_index"}, <<"block_number", "transaction_index">>)
InputTable ==
    TableOf([u64 |-> {"block_number", "prevout_height"},
             u32 |-> {"transaction_index", "input_index", "vout", "sequence"},
             bool |-> {"prevout_generated"}, f64 |-> {"prevout_value"}, list_str |-> {"tx_in_witness"},
             str |-> {"type", "txid", "script_sig_hex", "script_sig_asm", "coinbase", "prevout_script_pub_key_hex",
                      "prevout_script_pub_key_asm", "prevout_script_pub_key_desc", "prevout_script_pub_key_type",
                      "prevout_script_pub_key_address"}],
            {"block_number", "prevout_height"}, {"transaction_index", "input_index"},
            <<"prevout_script_pub_key_address", "block_number", "transaction_index", "input_index">>)
OutputTable ==
    TableOf([u64 |-> {"block_number"}, u32 |-> {"transaction_index", "output_index"}, f64 |-> {"value"},
             str |-> {"script_pub_key_hex", "script_pub_key_asm", "script_pub_key_desc", "script_pub_key_type",
                      "script_pub_key_address"}],
            {"block_number"}, {"transaction_index", "output_index"},
            <<"script_pub_key_address", "block_number", "transaction_index", "output_index">>)
Tables == [blocks |-> BlockTable, transactions |-> TransactionTable, inputs |-> InputTable, outputs |-> OutputTable]

BlockRow(header) == RowOf(BlockTable, NoneGiven, header)
TransactionRow(at, item) == RowOf(TransactionTable, at, item)
InputRow(at, item) == RowOf(InputTable, at @@ [type |-> Tag(item.tag)], item)
OutputRow(at, item) == RowOf(OutputTable, at, item)
Row(t, header, item) ==
    LET at == [block_number |-> header.is["number"]]
    IN  CASE t = "blocks" -> BlockRow(item)
          [] t = "transactions" -> TransactionRow(at, item)
          [] t = "inputs" -> InputRow(at, item)
          [] t = "outputs" -> OutputRow(at, item)

-----------------------------------------------------------------------------
(* query/bitcoin.rs *)

TxKey == <<"block_number", "transaction_index">>
TableSet ==
    [blocks |-> Queried(<<"number">>, NoChildren, NoWeights),
     transactions |-> Queried(TxKey, [inputs |-> TxKey, outputs |-> TxKey], NoWeights),
     inputs |-> Queried(Append(TxKey, "input_index"), NoChildren, NoWeights),
     outputs |-> Queried(Append(TxKey, "output_index"), NoChildren, NoWeights)]

BlockFields ==
    Shows({"number", "hash", "parent_hash", "version", "merkle_root", "nonce", "target", "bits", "difficulty",
           "chain_work", "stripped_size", "size", "weight"}) @@ As("seconds", {"timestamp", "median_time"})
TransactionFields ==
    Shows({"transaction_index", "hex", "txid", "hash", "size", "vsize", "weight", "version", "locktime"})
InputFields ==
    Shows({"transaction_index", "input_index", "type", "txid", "vout", "script_sig_hex", "script_sig_asm", "sequence",
           "coinbase", "tx_in_witness", "prevout_generated", "prevout_height", "prevout_value",
           "prevout_script_pub_key_hex", "prevout_script_pub_key_asm", "prevout_script_pub_key_desc",
           "prevout_script_pub_key_type", "prevout_script_pub_key_address"})
OutputFields ==
    Shows({"transaction_index", "output_index", "value", "script_pub_key_hex", "script_pub_key_asm",
           "script_pub_key_desc", "script_pub_key_type", "script_pub_key_address"})
Project == [blocks |-> BlockFields, transactions |-> TransactionFields, inputs |-> InputFields, outputs |-> OutputFields]

SameTx(table) == Join(table, TxKey, TxKey)
TransactionRequest ==
    Request("transactions", NoFixed, NoFilters, [inputs |-> SameTx("inputs"), outputs |-> SameTx("outputs")])
InputRequest ==
    Request("inputs", NoFixed,
            In("str", {"type", "prevout_script_pub_key_address", "prevout_script_pub_key_type"})
              @@ In("bool", {"prevout_generated"}),
            [transaction |-> SameTx("transactions"), transaction_inputs |-> SameTx("inputs"),
             transaction_outputs |-> SameTx("outputs")])
OutputRequest ==
    Request("outputs", NoFixed, In("str", {"script_pub_key_address", "script_pub_key_type"}),
            [transaction |-> SameTx("transactions"), transaction_inputs |-> SameTx("inputs"),
             transaction_outputs |-> SameTx("outputs")])
BitcoinQuery == [transactions |-> TransactionRequest, inputs |-> InputRequest, outputs |-> OutputRequest]

-----------------------------------------------------------------------------
(* What the names of the query language stand for. *)

FieldOf(t, f, item) == IF t = "inputs" /\ f = "type" THEN Tag(item.tag) ELSE Get(item, f)
Has(r, f, item) == {FieldOf(BitcoinQuery[r].table, f, item)} \ {Absent}
OfRequest(r, item) == TRUE
Relates(r, rel, given, item) == TRUE
=============================================================================
