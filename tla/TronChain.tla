------------------------------ MODULE TronChain ------------------------------
(* The tables of Tron blocks and the queries on them. *)
EXTENDS ChainQueries

-----------------------------------------------------------------------------
(* model.rs.  The fields of a transaction's parameter are named parameter_... *)

BlockHeader ==
    LET required == {"height", "hash", "parent_hash", "tx_trie_root", "timestamp", "witness_address"}
    IN  << Variant("block", required \cup {"version", "witness_signature"}, NoLists),
           Variant("block", required, NoLists) >>
TransactionInfo == {"ret", "permission_id", "ref_block_bytes", "ref_block_hash", "fee_limit", "expiration", "timestamp",
                    "fee", "contract_result", "contract_address", "res_message", "withdraw_amount", "unfreeze_amount",
                    "withdraw_expire_amount", "cancel_unfreeze_v2_amount", "result", "energy_fee", "energy_usage",
                    "energy_usage_total", "net_usage", "net_fee", "origin_energy_usage", "energy_penalty_total"}
Transaction ==
    LET required == {"transaction_index", "hash", "parameter", "raw_data_hex"}
    IN  << Variant("TransferContract", required \cup TransactionInfo \cup {"parameter_owner_address", "parameter_to_address"},
                   ListsOf({"signature"}, 2)),
           Variant("TriggerSmartContract", required \cup TransactionInfo \cup
                     {"parameter_owner_address", "parameter_contract_address", "parameter_data"}, ListsOf({"signature"}, 1)),
           Variant("TransferAssetContract", required \cup
                     {"parameter_owner_address", "parameter_to_address", "parameter_asset_name"}, NoLists),
           Variant("TriggerSmartContract", required \cup {"parameter_owner_address"}, NoLists) >>
Log ==
    LET required == {"transaction_index", "log_index", "address"}
    IN  << Variant("log", required \cup {"data"}, ListsOf({"topics"}, 2)), Variant("log", required, NoLists),
           Variant("log", required \cup {"data"}, ListsOf({"topics"}, 4)), Variant("log", required, ListsOf({"topics"}, 1)) >>
InternalTransaction ==
    LET required == {"transaction_index", "internal_transaction_index", "hash", "caller_address", "note"}
    IN  << Variant("internal", required \cup {"transfer_to_address", "rejected", "extra"}, ListsOf({"call_value_info"}, 1)),
           Variant("internal", required, ListsOf({"call_value_info"}, 0)) >>

Model == [blocks |-> BlockHeader, transactions |-> Transaction, logs |-> Log,
          internal_transactions |-> InternalTransaction]
Indexes == Numbers({"height"}, {"transaction_index", "log_index", "internal_transaction_index"})

-----------------------------------------------------------------------------
(* tables *)

BlockTable ==
    TableOf([u64 |-> {"number"}, i32 |-> {"version"}, ts_ms |-> {"timestamp"},
             str |-> {"hash", "parent_hash", "tx_trie_root", "witness_address", "witness_signature"}],
            {"number"}, {}, <<"number">>)
TransactionTable ==
    TableOf([u64 |-> {"block_number", "raw_data_hex_size"}, u32 |-> {"transaction_index"}, i32 |-> {"permission_id"},
             list_str |-> {"signature"}, ts_ms |-> {"expiration", "timestamp"},
             i64 |-> {"fee_limit", "fee", "withdraw_amount", "unfreeze_amount", "withdraw_expire_amount", "energy_fee",
                      "energy_usage", "energy_usage_total", "net_usage", "net_fee", "origin_energy_usage",
                      "energy_penalty_total"},
             str |-> {"hash", "ret", "type", "parameter", "ref_block_bytes", "ref_block_hash", "raw_data_hex",
                      "contract_result", "contract_address", "res_message", "cancel_unfreeze_v2_amount", "result",
                      "_transfer_contract_owner", "_transfer_contract_to", "_transfer_asset_contract_owner",
                      "_transfer_asset_contract_to", "_transfer_asset_contract_asset", "_trigger_smart_contract_owner",
                      "_trigger_smart_contract_contract", "_trigger_smart_contract_sighash"}],
            {"block_number"}, {"transaction_index"},
            <<"type", "_trigger_smart_contract_sighash", "_trigger_smart_contract_contract",
              "_trigger_smart_contract_owner", "_transfer_contract_owner", "_transfer_contract_to",
              "_transfer_asset_contract_owner", "_transfer_asset_contract_to", "_transfer_asset_contract_asset",
              "block_number", "transaction_index">>)
LogTable ==
    TableOf([u64 |-> {"block_number", "data_size"}, u32 |-> {"transaction_index", "log_index"},
             str |-> {"address", "data", "topic0", "topic1", "topic2", "topic3"}],
            {"block_number"}, {"transaction_index", "log_index"},
            <<"topic0", "address", "block_number", "transaction_index", "log_index">>)
InternalTransactionTable ==
    TableOf([u64 |-> {"block_number"}, u32 |-> {"transaction_index", "internal_transaction_index"},
             str |-> {"hash", "caller_address", "transfer_to_address", "call_value_info", "note", "extra"},
             bool |-> {"rejected"}],
            {"block_number"}, {"transaction_index", "internal_transaction_index"},
            <<"transfer_to_address", "caller_address", "block_number", "transaction_index", "internal_transaction_index">>)
Tables == [blocks |-> BlockTable, transactions |-> TransactionTable, logs |-> LogTable,
           internal_transactions |-> InternalTransactionTable]

BlockRow(header) == RowOf(BlockTable, [number |-> header.is["height"]], header)

\* The parameter's fields go to the columns of the transaction's type.
TransactionRow(at, item) ==
    LET when(type, field) == IF item.tag = type THEN Get(item, field) ELSE Absent
        parameter == [_transfer_contract_owner |-> when("TransferContract", "parameter_owner_address"),
                      _transfer_contract_to |-> when("TransferContract", "parameter_to_address"),
                      _transfer_asset_contract_owner |-> when("TransferAssetContract", "parameter_owner_address"),
                      _transfer_asset_contract_to |-> when("TransferAssetContract", "parameter_to_address"),
                      _transfer_asset_contract_asset |-> when("TransferAssetContract", "parameter_asset_name"),
                      _trigger_smart_contract_owner |-> when("TriggerSmartContract", "parameter_owner_address"),
                      _trigger_smart_contract_contract |-> when("TriggerSmartContract", "parameter_contract_address"),
                      _trigger_smart_contract_sighash |-> Mapped(when("TriggerSmartContract", "parameter_data"), Sighash)]
    IN  RowOf(TransactionTable,
              at @@ parameter @@
              [type |-> Tag(item.tag), ret |-> AsJson(item, "ret"), parameter |-> AsJson(item, "parameter"),
               cancel_unfreeze_v2_amount |-> AsJson(item, "cancel_unfreeze_v2_amount"),
               raw_data_hex_size |-> SizeOf(Get(item, "raw_data_hex"))], item)
LogRow(at, item) ==
    LET topic(i) == Nth(GetList(item, "topics"), i)
    IN  RowOf(LogTable, at @@ [topic0 |-> topic(1), topic1 |-> topic(2), topic2 |-> topic(3), topic3 |-> topic(4),
                               data_size |-> SizeOf(Get(item, "data"))], item)
InternalTransactionRow(at, item) ==
    RowOf(InternalTransactionTable, at @@ [call_value_info |-> AsJson(item, "call_value_info")], item)
Row(t, header, item) ==
    LET at == [block_number |-> header.is["height"]]
    IN  CASE t = "blocks" -> BlockRow(item)
          [] t = "transactions" -> TransactionRow(at, item)
          [] t = "logs" -> LogRow(at, item)
          [] t = "internal_transactions" -> InternalTransactionRow(at, item)

-----------------------------------------------------------------------------
(* query/tron.rs *)

TxKey == <<"block_number", "transaction_index">>
TableSet ==
    [blocks |-> Queried(<<"number">>, NoChildren, NoWeights),
     transactions |-> Queried(TxKey, [logs |-> TxKey, internal_transactions |-> TxKey],
                              [raw_data_hex |-> "raw_data_hex_size"]),
     logs |-> Queried(Append(TxKey, "log_index"), NoChildren, [data |-> "data_size"]),
     internal_transactions |-> Queried(Append(TxKey, "internal_transaction_index"), NoChildren, NoWeights)]

BlockFields ==
    Shows({"number", "hash", "parent_hash", "tx_trie_root", "version", "witness_address", "witness_signature"})
      @@ As("millis", {"timestamp"})
TransactionFields ==
    Shows({"transaction_index", "hash", "signature", "type", "permission_id", "ref_block_bytes", "ref_block_hash",
           "raw_data_hex", "contract_result", "contract_address", "res_message", "result"})
      @@ As("json", {"ret", "parameter", "cancel_unfreeze_v2_amount"}) @@ As("millis", {"expiration", "timestamp"})
      @@ As("bignum", {"fee_limit", "fee", "withdraw_amount", "unfreeze_amount", "withdraw_expire_amount", "energy_fee",
                       "energy_usage", "energy_usage_total", "net_usage", "net_fee", "origin_energy_usage",
                       "energy_penalty_total"})
LogFields ==
    Shows({"transaction_index", "log_index", "address", "data"})
      @@ [topics |-> RollOf(<<"topic0", "topic1", "topic2", "topic3">>)]
InternalTransactionFields ==
    Shows({"transaction_index", "internal_transaction_index", "hash", "caller_address", "transfer_to_address", "note",
           "rejected", "extra"}) @@ As("json", {"call_value_info"})
Project == [blocks |-> BlockFields, transactions |-> TransactionFields, logs |-> LogFields,
            internal_transactions |-> InternalTransactionFields]

SameTx(table) == Join(table, TxKey, TxKey)
TransactionRequest ==
    Request("transactions", NoFixed, In("str", {"type"}),
            [logs |-> SameTx("logs"), internal_transactions |-> SameTx("internal_transactions")])
TransferTransactionRequest ==
    Request("transactions", [type |-> Tag("TransferContract")],
            [owner |-> Filter("in", "_transfer_contract_owner", "str"),
             to |-> Filter("in", "_transfer_contract_to", "str")],
            [logs |-> SameTx("logs"), internal_transactions |-> SameTx("internal_transactions")])
TransferAssetTransactionRequest ==
    Request("transactions", [type |-> Tag("TransferAssetContract")],
            [owner |-> Filter("in", "_transfer_asset_contract_owner", "str"),
             to |-> Filter("in", "_transfer_asset_contract_to", "str"),
             asset |-> Filter("in", "_transfer_asset_contract_asset", "str")],
            [logs |-> SameTx("logs"), internal_transactions |-> SameTx("internal_transactions")])
TriggerSmartContractTransactionRequest ==
    Request("transactions", [type |-> Tag("TriggerSmartContract")],
            [owner |-> Filter("in", "_trigger_smart_contract_owner", "str"),
             contract |-> Filter("in", "_trigger_smart_contract_contract", "str"),
             sighash |-> Filter("in", "_trigger_smart_contract_sighash", "str")],
            [logs |-> SameTx("logs"), internal_transactions |-> SameTx("internal_transactions")])
LogRequest ==
    Request("logs", NoFixed, In("str", {"address", "topic0", "topic1", "topic2", "topic3"}),
            [transaction |-> SameTx("transactions")])
InternalTransactionRequest ==
    Request("internal_transactions", NoFixed,
            [caller |-> Filter("in", "caller_address", "str"), transfer_to |-> Filter("in", "transfer_to_address", "str")],
            [transaction |-> SameTx("transactions")])
TronQuery ==
    [transactions |-> TransactionRequest, transfer_transactions |-> TransferTransactionRequest,
     transfer_asset_transactions |-> TransferAssetTransactionRequest,
     trigger_smart_contract_transactions |-> TriggerSmartContractTransactionRequest,
     logs |-> LogRequest, internal_transactions |-> InternalTransactionRequest]

-----------------------------------------------------------------------------
(* What the names of the query language stand for. *)

FieldOf(t, f, item) ==
    CASE t = "transactions" /\ f = "type" -> Tag(item.tag)
      [] t = "blocks" /\ f = "number" -> Get(item, "height")
      [] OTHER -> Get(item, f)
OfRequest(r, item) ==
    CASE r = "transfer_transactions" -> item.tag = "TransferContract"
      [] r = "transfer_asset_transactions" -> item.tag = "TransferAssetContract"
      [] r = "trigger_smart_contract_transactions" -> item.tag = "TriggerSmartContract"
      [] OTHER -> TRUE
Has(r, f, item) ==
    LET field == [owner |-> "parameter_owner_address", to |-> "parameter_to_address", asset |-> "parameter_asset_name",
                  contract |-> "parameter_contract_address", caller |-> "caller_address",
                  transfer_to |-> "transfer_to_address", address |-> "address"]
        topic == [topic0 |-> 1, topic1 |-> 2, topic2 |-> 3, topic3 |-> 4]
    IN  (CASE f \in DOMAIN topic -> {Nth(GetList(item, "topics"), topic[f])}
           [] f = "type" -> {Tag(item.tag)}
           [] f = "sighash" -> {Mapped(Get(item, "parameter_data"), Sighash)}
           [] OTHER -> {Get(item, field[f])}) \ {Absent}
Relates(r, rel, given, item) == TRUE
=============================================================================
