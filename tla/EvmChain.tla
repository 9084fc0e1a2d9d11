------------------------------ MODULE EvmChain ------------------------------
(* The tables of EVM blocks and the queries on them. *)
EXTENDS ChainQueries

-----------------------------------------------------------------------------
(* model.rs *)

BlockHeader ==
    LET required == {"number", "hash", "parent_hash", "timestamp", "transactions_root", "receipts_root", "state_root",
                     "logs_bloom", "sha3_uncles", "extra_data", "miner", "size", "gas_limit", "gas_used"}
        optional == {"nonce", "mix_hash", "difficulty", "total_difficulty", "base_fee_per_gas", "withdrawals_root",
                     "blob_gas_used", "excess_blob_gas", "parent_beacon_block_root", "requests_hash", "l1_block_number",
                     "main_block_general_gas_limit", "shared_gas_limit", "timestamp_millis_part"}
    IN  << Variant("block", required \cup optional, [uncles |-> 1, withdrawals |-> 2]),
           Variant("block", required, NoLists) >>

\* The kinds of Tempo signatures and what each of them has; the tag of a transaction tells the kind.
TempoPrimitiveSignature ==
    [secp256k1 |-> {"r", "s", "y_parity", "v"},
     p256 |-> {"r", "s", "pub_key_x", "pub_key_y", "pre_hash"},
     webAuthn |-> {"r", "s", "pub_key_x", "pub_key_y", "webauthn_data"}]
Transaction ==
    LET required == {"transaction_index", "hash", "nonce", "from", "gas", "cumulative_gas_used", "gas_used", "logs_bloom"}
        plain == {"to", "input", "value", "type", "gas_price", "v", "r", "s", "y_parity", "chain_id",
                  "effective_gas_price", "status"}
        fees == {"max_fee_per_gas", "max_priority_fee_per_gas", "max_fee_per_blob_gas", "blob_gas_used", "blob_gas_price",
                 "l1_base_fee_scalar", "l1_blob_base_fee", "l1_blob_base_fee_scalar", "l1_fee", "l1_fee_scalar",
                 "l1_gas_price", "l1_gas_used"}
        tempo == {"nonce_key", "fee_token", "fee_payer_v", "fee_payer_r", "fee_payer_s", "signature", "valid_before",
                  "valid_after", "key_authorization"}
    IN  << Variant("plain", required \cup plain \cup fees,
                   [access_list |-> 2, blob_versioned_hashes |-> 1, authorization_list |-> 1]),
           Variant("plain", required \cup {"contract_address"}, NoLists),
           Variant("secp256k1", required \cup tempo, [calls |-> 2, aa_authorization_list |-> 1]),
           Variant("webAuthn", required \cup tempo \cup {"keychain"}, [calls |-> 1]),
           Variant("p256", required \cup tempo, [calls |-> 1]) >>
Log ==
    LET fields == {"log_index", "transaction_index", "transaction_hash", "address", "data"}
    IN  << Variant("log", fields, [topics |-> 4]), Variant("log", fields, [topics |-> 1]),
           Variant("log", fields, [topics |-> 0]) >>
TraceActionCreate == {"from", "value", "gas", "init"}
TraceActionCall == {"from", "to", "value", "gas", "input", "call_type"}
TraceActionReward == {"author", "value", "reward_type"}
TraceActionSelfDestruct == {"address", "refund_address", "balance"}
TraceResultCreate == {"result_gas_used", "result_code", "result_address"}
TraceResultCall == {"result_gas_used", "result_output"}
\* A list of zero's length 1 says that the amounts of the trace are zero.
Trace ==
    LET base == {"transaction_index", "subtraces"}
        lists(address, zero) == [trace_address |-> address, zero |-> zero]
    IN  << Variant("call", base \cup TraceActionCall \cup TraceResultCall, lists(0, 0)),
           Variant("create", base \cup TraceActionCreate \cup TraceResultCreate, lists(2, 1)),
           Variant("selfdestruct", base \cup TraceActionSelfDestruct, lists(1, 0)),
           Variant("call", base \cup TraceActionCall \cup {"error", "revert_reason"}, lists(2, 1)),
           Variant("reward", base \cup TraceActionReward, lists(0, 0)),
           Variant("create", base \cup (TraceActionCreate \ {"value"}), lists(1, 0)) >>
StateDiff ==
    LET fields == {"transaction_index", "address", "key", "kind"}
    IN  << Variant("diff", fields \cup {"prev", "next"}, NoLists), Variant("diff", fields \cup {"next"}, NoLists),
           Variant("diff", fields \cup {"prev"}, NoLists), Variant("diff", fields, NoLists) >>

Model == [blocks |-> BlockHeader, transactions |-> Transaction, logs |-> Log, traces |-> Trace, statediffs |-> StateDiff]
Indexes == Numbers({"number"}, {"transaction_index", "log_index", "trace_address"})

-----------------------------------------------------------------------------
(* tables *)

BlockTable ==
    TableOf([u64 |-> {"number", "size", "l1_block_number", "extra_data_size", "withdrawals_size"}, ts_s |-> {"timestamp"},
             list_str |-> {"uncles"}, list_struct |-> {"withdrawals"},
             str |-> {"hash", "parent_hash", "transactions_root", "receipts_root", "state_root", "logs_bloom",
                      "sha3_uncles", "extra_data", "miner", "nonce", "mix_hash", "gas_limit", "gas_used", "difficulty",
                      "total_difficulty", "base_fee_per_gas", "withdrawals_root", "blob_gas_used", "excess_blob_gas",
                      "parent_beacon_block_root", "requests_hash", "main_block_general_gas_limit", "shared_gas_limit",
                      "timestamp_millis_part"}],
            {"number"}, {}, <<"number">>)
TransactionTable ==
    TableOf([u64 |-> {"block_number", "nonce", "type", "chain_id", "l1_base_fee_scalar", "l1_blob_base_fee_scalar",
                      "input_size", "access_list_size"},
             u32 |-> {"transaction_index"}, u8 |-> {"y_parity", "fee_payer_v", "status"}, f64 |-> {"l1_fee_scalar"},
             struct |-> {"signature", "key_authorization"}, list_str |-> {"blob_versioned_hashes"},
             list_struct |-> {"access_list", "authorization_list", "calls", "aa_authorization_list"},
             str |-> {"hash", "from", "to", "input", "value", "gas", "gas_price", "max_fee_per_gas",
                      "max_priority_fee_per_gas", "v", "r", "s", "max_fee_per_blob_gas", "nonce_key", "fee_token",
                      "fee_payer_r", "fee_payer_s", "valid_before", "valid_after", "contract_address",
                      "cumulative_gas_used", "effective_gas_price", "gas_used", "logs_bloom", "sighash", "blob_gas_used",
                      "blob_gas_price", "l1_blob_base_fee", "l1_fee", "l1_gas_price", "l1_gas_used"}],
            {"block_number"}, {"transaction_index"}, <<"sighash", "to", "block_number", "transaction_index">>)
\* Defect: the transaction of a log is not narrowed.
LogTableUncast ==
    TableOf([u64 |-> {"block_number", "data_size"}, u32 |-> {"log_index", "transaction_index"},
             str |-> {"transaction_hash", "address", "data", "topic0", "topic1", "topic2", "topic3"}],
            {"block_number"}, {"log_index"}, <<"topic0", "address", "block_number", "log_index">>)
LogTable ==
    TableOf([u64 |-> {"block_number", "data_size"}, u32 |-> {"log_index", "transaction_index"},
             str |-> {"transaction_hash", "address", "data", "topic0", "topic1", "topic2", "topic3"}],
            {"block_number"}, {"transaction_index", "log_index"}, <<"topic0", "address", "block_number", "log_index">>)
\* The fields of each kind of trace by the columns they are flattened into.
TraceColumns ==
    [create |-> [create_from |-> "from", create_value |-> "value", create_gas |-> "gas", create_init |-> "init",
                 create_result_gas_used |-> "result_gas_used", create_result_code |-> "result_code",
                 create_result_address |-> "result_address"],
     call |-> [call_from |-> "from", call_to |-> "to", call_value |-> "value", call_gas |-> "gas", call_input |-> "input",
               call_type |-> "call_type", call_result_gas_used |-> "result_gas_used",
               call_result_output |-> "result_output"],
     selfdestruct |-> [suicide_address |-> "address", suicide_refund_address |-> "refund_address",
                       suicide_balance |-> "balance"],
     reward |-> [reward_author |-> "author", reward_value |-> "value", reward_type |-> "reward_type"]]
TraceTable ==
    TableOf([u64 |-> {"block_number", "create_init_size", "create_result_code_size", "call_input_size",
                      "call_result_output_size"},
             u32 |-> {"transaction_index", "subtraces"}, list_u32 |-> {"trace_address"},
             str |-> {"type", "error", "revert_reason", "call_sighash"} \cup
                     UNION {DOMAIN TraceColumns[k] : k \in DOMAIN TraceColumns}],
            {"block_number"}, {"transaction_index"},
            <<"type", "create_from", "call_sighash", "call_to", "block_number", "transaction_index", "trace_address">>)
StateDiffTable ==
    TableOf([u64 |-> {"block_number", "prev_size", "next_size"}, u32 |-> {"transaction_index"},
             str |-> {"address", "key", "kind", "prev", "next"}],
            {"block_number"}, {"transaction_index"}, <<"address", "block_number", "transaction_index">>)
Tables == [blocks |-> BlockTable, transactions |-> TransactionTable, logs |-> LogTable, traces |-> TraceTable,
           statediffs |-> StateDiffTable]

BlockRow(header) ==
    RowOf(BlockTable, [extra_data_size |-> SizeOf(Get(header, "extra_data")),
                       withdrawals_size |-> SizeOf(GetList(header, "withdrawals"))], header)

\* A signature as a struct of nullable columns.
Part(cell, name) == [k |-> "part", of |-> cell, name |-> name]
Struct(fields) == [k |-> "struct", of |-> fields]
PushPrimSig(kind, cell) ==
    Struct([f \in {"sig_type"} \cup UNION {TempoPrimitiveSignature[k] : k \in DOMAIN TempoPrimitiveSignature} |->
              CASE f = "sig_type" -> Tag(kind)
                [] f \in TempoPrimitiveSignature[kind] -> Part(cell, f)
                [] OTHER -> Absent])
PushTempoSig(kind, keychain, cell) ==
    Struct([f \in {"primitive", "user_address", "version"} |->
              CASE f = "primitive" -> PushPrimSig(kind, cell)
                [] f # "primitive" /\ keychain -> Part(cell, f)
                [] OTHER -> Absent])
Signature(item) ==
    Mapped(Get(item, "signature"), LAMBDA cell : PushTempoSig(item.tag, Get(item, "keychain") # Absent, cell))
TransactionRow(at, item) ==
    RowOf(TransactionTable,
          at @@ [signature |-> Signature(item), sighash |-> Mapped(Get(item, "input"), Sighash),
                 input_size |-> SizeOf(Get(item, "input")), access_list_size |-> SizeOf(GetList(item, "access_list"))],
          item)
Topics == <<"topic0", "topic1", "topic2", "topic3">>
LogRow(at, item) ==
    RowOf(LogTable,
          at @@ [c \in Range(Topics) |-> Nth(GetList(item, "topics"), CHOOSE i \in 1 .. 4 : Topics[i] = c)]
             @@ [data_size |-> SizeOf(Get(item, "data"))], item)

Zero == Tag("0x0")
Amount(item, f) ==
    IF f \in {"value", "balance"} /\ GetList(item, "zero") # EmptyList THEN Mapped(Get(item, f), LAMBDA cell : Zero)
    ELSE Get(item, f)
TraceRow(at, item) ==
    LET of(kind) == [c \in DOMAIN TraceColumns[kind] |->
                       IF item.tag = kind THEN Amount(item, TraceColumns[kind][c]) ELSE Absent]
        size(kind, f) == SizeOf(IF item.tag = kind THEN Get(item, f) ELSE Absent)
    IN  RowOf(TraceTable,
              at @@ of("create") @@ of("call") @@ of("reward") @@ of("selfdestruct")
                 @@ [type |-> Tag(IF item.tag = "selfdestruct" THEN "suicide" ELSE item.tag),
                     call_sighash |-> IF item.tag = "call" THEN Sighash(Get(item, "input")) ELSE Absent,
                     create_init_size |-> size("create", "init"), create_result_code_size |-> size("create", "result_code"),
                     call_input_size |-> size("call", "input"), call_result_output_size |-> size("call", "result_output")],
              item)
StateDiffRow(at, item) ==
    RowOf(StateDiffTable, at @@ [prev_size |-> SizeOf(Get(item, "prev")), next_size |-> SizeOf(Get(item, "next"))], item)
Row(t, header, item) ==
    LET at == [block_number |-> header.is["number"]]
    IN  CASE t = "blocks" -> BlockRow(item)
          [] t = "transactions" -> TransactionRow(at, item)
          [] t = "logs" -> LogRow(at, item)
          [] t = "traces" -> TraceRow(at, item)
          [] t = "statediffs" -> StateDiffRow(at, item)

-----------------------------------------------------------------------------
(* query/eth.rs *)

TxKey == <<"block_number", "transaction_index">>
TraceKey == Append(TxKey, "trace_address")
TableSet ==
    [blocks |-> Queried(<<"number">>, NoChildren, [extra_data |-> "extra_data_size", withdrawals |-> "withdrawals_size"]),
     transactions |-> Queried(TxKey, [logs |-> TxKey, traces |-> TxKey, statediffs |-> TxKey],
                              [input |-> "input_size", access_list |-> "access_list_size"]),
     logs |-> Queried(<<"block_number", "log_index">>, NoChildren, [data |-> "data_size"]),
     traces |-> Queried(TraceKey, NoChildren,
                        [create_init |-> "create_init_size", create_result_code |-> "create_result_code_size",
                         call_input |-> "call_input_size", call_result_output |-> "call_result_output_size"]),
     statediffs |-> Queried(TxKey \o <<"address", "key">>, NoChildren, [prev |-> "prev_size", next |-> "next_size"])]

BlockFields ==
    Shows({"number", "hash", "parent_hash", "transactions_root", "receipts_root", "state_root", "logs_bloom",
           "sha3_uncles", "extra_data", "miner", "nonce", "mix_hash", "size", "gas_limit", "gas_used", "difficulty",
           "total_difficulty", "base_fee_per_gas", "uncles", "withdrawals", "withdrawals_root", "blob_gas_used",
           "excess_blob_gas", "parent_beacon_block_root", "requests_hash", "l1_block_number",
           "main_block_general_gas_limit", "shared_gas_limit", "timestamp_millis_part"}) @@ As("seconds", {"timestamp"})
TransactionFields ==
    Shows({"transaction_index", "hash", "nonce", "from", "to", "input", "value", "gas", "gas_price", "max_fee_per_gas",
           "max_priority_fee_per_gas", "v", "r", "s", "y_parity", "access_list", "chain_id", "sighash",
           "contract_address", "gas_used", "logs_bloom", "cumulative_gas_used", "effective_gas_price", "type", "status",
           "blob_gas_used", "blob_gas_price", "max_fee_per_blob_gas", "blob_versioned_hashes", "authorization_list",
           "calls", "nonce_key", "signature", "fee_token", "fee_payer_v", "fee_payer_r", "fee_payer_s", "valid_before",
           "valid_after", "aa_authorization_list", "key_authorization", "l1_fee", "l1_fee_scalar", "l1_gas_price",
           "l1_gas_used", "l1_blob_base_fee", "l1_blob_base_fee_scalar", "l1_base_fee_scalar"})
LogFields ==
    Shows({"log_index", "transaction_index", "transaction_hash", "address", "data"}) @@ [topics |-> RollOf(Topics)]
\* A trace is one enum on its type; every kind shows the base, an action and maybe a result.
TraceFields ==
    LET prop(column) == Shows({column})[column]
        base == Shows({"transaction_index", "trace_address", "type", "subtraces", "error", "revert_reason"})
        action(props) == [action |-> ObjectOf(props)]
        result(props) == [result |-> ObjectOf(props)]
        create == action([from |-> prop("create_from"), value |-> prop("create_value"), gas |-> prop("create_gas"),
                          init |-> prop("create_init")])
                    @@ result([gas_used |-> prop("create_result_gas_used"), code |-> prop("create_result_code"),
                               address |-> prop("create_result_address")])
        call == action([from |-> prop("call_from"), to |-> prop("call_to"), value |-> prop("call_value"),
                        gas |-> prop("call_gas"), input |-> prop("call_input"), sighash |-> prop("call_sighash"),
                        type |-> prop("call_type"), call_type |-> prop("call_type")])
                  @@ result([gas_used |-> prop("call_result_gas_used"), output |-> prop("call_result_output")])
        suicide == action([address |-> prop("suicide_address"), refund_address |-> prop("suicide_refund_address"),
                           balance |-> prop("suicide_balance")])
        reward == action([author |-> prop("reward_author"), value |-> prop("reward_value"), type |-> prop("reward_type")])
    IN  [trace |-> EnumOf("type", [create |-> ObjectOf(base @@ create), call |-> ObjectOf(base @@ call),
                                   suicide |-> ObjectOf(base @@ suicide), reward |-> ObjectOf(base @@ reward)])]
StateDiffFields == Shows({"transaction_index", "address", "key", "kind", "prev", "next"})
Project == [blocks |-> BlockFields, transactions |-> TransactionFields, logs |-> LogFields, traces |-> TraceFields,
            statediffs |-> StateDiffFields]

\* Defect: items are related by their block alone.
SameBlock(table) == Join(table, <<"block_number">>, <<"block_number">>)
SameTx(table) == Join(table, TxKey, TxKey)
TransactionRequest ==
    Request("transactions", NoFixed,
            In("str", {"from", "to", "sighash"})
              @@ [first_nonce |-> Filter("ge", "nonce", "u64"), last_nonce |-> Filter("le", "nonce", "u64")],
            [logs |-> SameTx("logs"), traces |-> SameTx("traces"), state_diffs |-> SameTx("statediffs")])
LogRequest ==
    Request("logs", NoFixed, In("str", {"address"} \cup Range(Topics)),
            [transaction |-> SameTx("transactions"), transaction_traces |-> SameTx("traces"),
             transaction_logs |-> SameTx("logs"), transaction_state_diffs |-> SameTx("statediffs")])
NonZero == [call_value_non_zero |-> "call_value", create_value_non_zero |-> "create_value",
            suicide_balance_non_zero |-> "suicide_balance", reward_value_non_zero |-> "reward_value"]
TraceRequest ==
    Request("traces", NoFixed,
            In("str", {"type", "create_from", "create_result_address", "call_from", "call_to", "call_sighash",
                       "suicide_address", "suicide_refund_address", "reward_author"})
              @@ [call_call_type |-> Filter("in", "call_type", "str")]
              @@ [f \in DOMAIN NonZero |-> Filter("non zero", NonZero[f], "str")],
            [transaction |-> SameTx("transactions"), transaction_logs |-> SameTx("logs"),
             transaction_traces |-> SameTx("traces"), subtraces |-> Tree("children", "traces", TraceKey),
             parents |-> Tree("parents", "traces", TraceKey)])
StateDiffRequest ==
    Request("statediffs", NoFixed, In("str", {"address", "key", "kind"}), [transaction |-> SameTx("transactions")])
EthQuery == [transactions |-> TransactionRequest, logs |-> LogRequest, traces |-> TraceRequest,
             statediffs |-> StateDiffRequest]

-----------------------------------------------------------------------------
(* What the names of the query language stand for.  A selfdestruct is shown *)
(* as a suicide.                                                            *)

ObjectWith(props) == [k |-> "object", props |-> props]
ShownTrace(item) ==
    LET names == [create |-> [from |-> "from", value |-> "value", gas |-> "gas", init |-> "init"],
                  call |-> [from |-> "from", to |-> "to", value |-> "value", gas |-> "gas", input |-> "input",
                            type |-> "call_type", call_type |-> "call_type"],
                  selfdestruct |-> [address |-> "address", refund_address |-> "refund_address", balance |-> "balance"],
                  reward |-> [author |-> "author", value |-> "value", type |-> "reward_type"]]
        results == [create |-> [gas_used |-> "result_gas_used", code |-> "result_code", address |-> "result_address"],
                    call |-> [gas_used |-> "result_gas_used", output |-> "result_output"]]
        shown(fields) == [f \in DOMAIN fields |-> Amount(item, fields[f])]
        sighash == IF item.tag = "call" THEN [sighash |-> Sighash(Get(item, "input"))] ELSE NoneGiven
    IN  ObjectWith([f \in {"transaction_index", "subtraces", "error", "revert_reason"} |-> Get(item, f)]
                     @@ [trace_address |-> GetList(item, "trace_address"),
                         type |-> Tag(IF item.tag = "selfdestruct" THEN "suicide" ELSE item.tag),
                         action |-> ObjectWith(shown(names[item.tag]) @@ sighash)]
                     @@ (IF item.tag \in DOMAIN results THEN [result |-> ObjectWith(shown(results[item.tag]))]
                         ELSE NoneGiven))
FieldOf(t, f, item) ==
    CASE t = "traces" -> ShownTrace(item)
      [] t = "transactions" /\ f = "sighash" -> Mapped(Get(item, "input"), Sighash)
      [] t = "transactions" /\ f = "signature" -> Signature(item)
      [] OTHER -> Get(item, f)
TraceHas(f, item) ==
    LET of == [create |-> [create_from |-> "from", create_result_address |-> "result_address"],
               call |-> [call_from |-> "from", call_to |-> "to", call_call_type |-> "call_type"],
               selfdestruct |-> [suicide_address |-> "address", suicide_refund_address |-> "refund_address"],
               reward |-> [reward_author |-> "author"]]
        amounts == [create |-> [create_value_non_zero |-> "value"], call |-> [call_value_non_zero |-> "value"],
                    selfdestruct |-> [suicide_balance_non_zero |-> "balance"], reward |-> [reward_value_non_zero |-> "value"]]
    IN  CASE f = "type" -> {Tag(IF item.tag = "selfdestruct" THEN "suicide" ELSE item.tag)}
          [] f = "call_sighash" -> IF item.tag = "call" THEN {Sighash(Get(item, "input"))} ELSE {}
          [] f \in DOMAIN of[item.tag] -> {Get(item, of[item.tag][f])}
          [] f \in DOMAIN amounts[item.tag] ->
               IF Amount(item, amounts[item.tag][f]) \in {Zero, Absent} THEN {} ELSE {Tag("non zero")}
          [] OTHER -> {}
Nonces(numbers) == {Value("nonce", n, 0) : n \in numbers}
Has(r, f, item) ==
    (CASE r = "traces" -> TraceHas(f, item)
       [] f = "first_nonce" -> Nonces(0 .. item.place.n)
       [] f = "last_nonce" -> Nonces(item.place.n .. item.place.n + 2)
       [] f \in Range(Topics) -> {Nth(GetList(item, "topics"), CHOOSE i \in 1 .. 4 : Topics[i] = f)}
       [] OTHER -> {FieldOf(EthQuery[r].table, f, item)}) \ {Absent}
OfRequest(r, item) == TRUE
Relates(r, rel, given, item) ==
    LET address(x) == GetList(x, "trace_address").items
    IN  CASE rel = "subtraces" -> IsPrefix(address(given), address(item))
          [] rel = "parents" -> IsPrefix(address(item), address(given))
          [] OTHER -> TRUE
=============================================================================
