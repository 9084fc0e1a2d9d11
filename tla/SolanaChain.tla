----------------------------- MODULE SolanaChain -----------------------------
(* The tables of Solana blocks and the queries on them. *)
EXTENDS ChainQueries

-----------------------------------------------------------------------------
(* model.rs.  References to accounts are the accounts themselves, and the   *)
(* data of an instruction is known by its bytes' number and its prefixes.   *)

BlockHeader ==
    LET required == {"number", "hash", "parent_number", "parent_hash", "height"}
    IN  << Variant("block", required \cup {"timestamp"}, NoLists), Variant("block", required, NoLists) >>
Transaction ==
    LET required == {"transaction_index", "num_readonly_signed_accounts", "num_readonly_unsigned_accounts",
                     "num_required_signatures", "recent_blockhash", "fee", "has_dropped_log_messages"}
        optional == {"err", "compute_units_consumed", "cost_units"}
        lists(keys, signatures, lookups, readonly, writable) ==
            [account_keys |-> keys, signatures |-> signatures, address_table_lookups |-> lookups,
             loaded_readonly |-> readonly, loaded_writable |-> writable]
    IN  << Variant("v0", required \cup optional \cup {"version"}, lists(2, 1, 1, 1, 2)),
           Variant("legacy", required, lists(1, 2, 0, 0, 0)) >>
Instruction ==
    LET required == {"transaction_index", "program_id", "data", "is_committed", "has_dropped_log_messages"}
        lists(address, accounts, bytes) == [instruction_address |-> address, accounts |-> accounts, bytes |-> bytes]
    IN  << Variant("instruction", required \cup {"compute_units_consumed", "error"}, lists(2, 18, 17)),
           Variant("instruction", required, lists(1, 2, 8)),
           Variant("instruction", required, lists(2, 16, 1)),
           Variant("instruction", required \cup {"error"}, lists(1, 0, 0)) >>
LogMessage ==
    LET fields == {"transaction_index", "log_index", "program_id", "message"}
    IN  << Variant("log", fields, [instruction_address |-> 2]), Variant("data", fields, [instruction_address |-> 2]),
           Variant("other", fields, [instruction_address |-> 1]) >>
Balance == <<Variant("balance", {"transaction_index", "account", "pre", "post"}, NoLists)>>
TokenBalance ==
    LET pre == {"pre_mint", "pre_decimals", "pre_program_id", "pre_owner", "pre_amount"}
        post == {"post_mint", "post_decimals", "post_program_id", "post_owner", "post_amount"}
    IN  << Variant("token", {"transaction_index", "account"} \cup pre \cup post, NoLists),
           Variant("token", {"transaction_index", "account"} \cup post, NoLists),
           Variant("token", {"transaction_index", "account"} \cup pre, NoLists) >>
Reward ==
    << Variant("reward", {"pubkey", "lamports", "post_balance", "reward_type", "commission"}, NoLists),
       Variant("reward", {"pubkey", "lamports", "post_balance"}, NoLists) >>

Model == [blocks |-> BlockHeader, transactions |-> Transaction, instructions |-> Instruction, logs |-> LogMessage,
          balances |-> Balance, token_balances |-> TokenBalance, rewards |-> Reward]
Indexes == Numbers({"number", "parent_number", "height"}, {"transaction_index", "log_index", "instruction_address"})

-----------------------------------------------------------------------------
(* tables *)

BlockTable ==
    TableOf([u64 |-> {"number", "parent_number", "height"}, str |-> {"hash", "parent_hash"}, ts_s |-> {"timestamp"}],
            {"number", "parent_number", "height"}, {}, <<"number">>)
TransactionTable ==
    TableOf([u64 |-> {"block_number", "compute_units_consumed", "cost_units", "fee", "account_keys_size",
                      "address_table_lookups_size", "signatures_size", "loaded_addresses_size"},
             u32 |-> {"transaction_index"}, i16 |-> {"version"}, bool |-> {"has_dropped_log_messages"},
             u8 |-> {"num_readonly_signed_accounts", "num_readonly_unsigned_accounts", "num_required_signatures"},
             str |-> {"recent_blockhash", "err", "fee_payer"}, bin |-> {"accounts_bloom"}, struct |-> {"loaded_addresses"},
             list_str |-> {"account_keys", "signatures"}, list_struct |-> {"address_table_lookups"}],
            {"block_number"}, {"transaction_index"}, <<"fee_payer", "block_number", "transaction_index">>)
Accounts == <<"a0", "a1", "a2", "a3", "a4", "a5", "a6", "a7", "a8", "a9", "a10", "a11", "a12", "a13", "a14", "a15">>
DataPrefixes == <<"d1", "d2", "d3", "d4", "d5", "d6", "d7", "d8", "d9", "d10", "d11", "d12", "d13", "d14", "d15", "d16">>
InstructionTable ==
    TableOf([u64 |-> {"block_number", "compute_units_consumed", "d8", "accounts_size", "data_size"},
             u32 |-> {"transaction_index", "d4"}, u16 |-> {"d2"}, u8 |-> {"d1", "b9"},
             bool |-> {"is_committed", "has_dropped_log_messages"},
             bin |-> (Range(DataPrefixes) \ {"d1", "d2", "d4", "d8"}) \cup {"accounts_bloom"},
             str |-> {"program_id", "data", "error"} \cup Range(Accounts),
             list_u32 |-> {"instruction_address"}, list_str |-> {"rest_accounts"}],
            {"block_number"}, {"transaction_index", "instruction_address"},
            <<"program_id", "d1", "b9", "block_number", "transaction_index">>)
LogTable ==
    TableOf([u64 |-> {"block_number", "message_size"}, u32 |-> {"transaction_index", "log_index"},
             list_u32 |-> {"instruction_address"}, str |-> {"program_id", "kind", "message"}],
            {"block_number"}, {"transaction_index", "log_index", "instruction_address"},
            <<"program_id", "block_number", "transaction_index", "log_index">>)
BalanceTable ==
    TableOf([u64 |-> {"block_number", "pre", "post"}, u32 |-> {"transaction_index"}, str |-> {"account"}],
            {"block_number"}, {"transaction_index"}, <<"account", "block_number", "transaction_index">>)
TokenBalanceTable ==
    TableOf([u64 |-> {"block_number", "pre_amount", "post_amount"}, u32 |-> {"transaction_index"},
             u16 |-> {"pre_decimals", "post_decimals"},
             str |-> {"account", "pre_mint", "post_mint", "pre_program_id", "post_program_id", "pre_owner", "post_owner"}],
            {"block_number"}, {"transaction_index"},
            <<"post_program_id", "post_mint", "account", "block_number", "transaction_index">>)
RewardTable ==
    TableOf([u64 |-> {"block_number", "post_balance"}, i64 |-> {"lamports"}, u8 |-> {"commission"},
             str |-> {"pubkey", "reward_type"}], {"block_number"}, {}, <<"pubkey", "block_number">>)
Tables == [blocks |-> BlockTable, transactions |-> TransactionTable, instructions |-> InstructionTable, logs |-> LogTable,
           balances |-> BalanceTable, token_balances |-> TokenBalanceTable, rewards |-> RewardTable]

BlockRow(header) == RowOf(BlockTable, NoneGiven, header)

LoadedAddresses(item) ==
    [k |-> "struct", of |-> [readonly |-> GetList(item, "loaded_readonly"), writable |-> GetList(item, "loaded_writable")]]
TransactionBloom(item) ==
    BloomOf(UNION {Range(GetList(item, l).items) : l \in {"account_keys", "loaded_readonly", "loaded_writable"}})
TransactionRow(at, item) ==
    RowOf(TransactionTable,
          at @@ [version |-> IF item.tag = "legacy" THEN Tag("-1") ELSE Get(item, "version"),
                 err |-> AsJson(item, "err"), loaded_addresses |-> LoadedAddresses(item),
                 fee_payer |-> Nth(GetList(item, "account_keys"), 1),
                 account_keys_size |-> SizeOf(GetList(item, "account_keys")),
                 address_table_lookups_size |-> SizeOf(GetList(item, "address_table_lookups")),
                 signatures_size |-> SizeOf(GetList(item, "signatures")),
                 loaded_addresses_size |-> SizeOf(LoadedAddresses(item)),
                 accounts_bloom |-> TransactionBloom(item)], item)

At(c, columns) == CHOOSE i \in DOMAIN columns : columns[i] = c
PrefixColumn(item, n) ==
    IF Len(GetList(item, "bytes").items) >= n THEN PrefixOf(Get(item, "data"), n) ELSE Absent
\* Defect: the account after the sixteenth is lost.
RestAccountsLate(item) ==
    LET accounts == GetList(item, "accounts").items
    IN  IF Len(accounts) >= 16 THEN ListOf(SubSeq(accounts, 18, Len(accounts))) ELSE Absent
RestAccounts(item) ==
    LET accounts == GetList(item, "accounts").items
    IN  IF Len(accounts) >= 16 THEN ListOf(SubSeq(accounts, 17, Len(accounts))) ELSE Absent
InstructionBloom(item) == BloomOf(Range(GetList(item, "accounts").items))
InstructionRow(at, item) ==
    RowOf(InstructionTable,
          at @@ [c \in Range(Accounts) |-> Nth(GetList(item, "accounts"), At(c, Accounts))]
             @@ [c \in Range(DataPrefixes) |-> PrefixColumn(item, At(c, DataPrefixes))]
             @@ [rest_accounts |-> RestAccounts(item), accounts_bloom |-> InstructionBloom(item),
                 error |-> AsJson(item, "error"), b9 |-> Absent,
                 accounts_size |-> SizeOf(GetList(item, "accounts")), data_size |-> SizeOf(Get(item, "data"))], item)
LogRow(at, item) ==
    RowOf(LogTable, at @@ [kind |-> Tag(item.tag), message_size |-> SizeOf(Get(item, "message"))], item)
BalanceRow(at, item) == RowOf(BalanceTable, at, item)
TokenBalanceRow(at, item) == RowOf(TokenBalanceTable, at, item)
RewardRow(at, item) == RowOf(RewardTable, at, item)
Row(t, header, item) ==
    LET at == [block_number |-> header.is["number"]]
    IN  CASE t = "blocks" -> BlockRow(item)
          [] t = "transactions" -> TransactionRow(at, item)
          [] t = "instructions" -> InstructionRow(at, item)
          [] t = "logs" -> LogRow(at, item)
          [] t = "balances" -> BalanceRow(at, item)
          [] t = "token_balances" -> TokenBalanceRow(at, item)
          [] t = "rewards" -> RewardRow(at, item)

-----------------------------------------------------------------------------
(* query/solana.rs *)

TxKey == <<"block_number", "transaction_index">>
InstructionKey == Append(TxKey, "instruction_address")
TableSet ==
    [blocks |-> Queried(<<"number">>, NoChildren, NoWeights),
     transactions |-> Queried(TxKey, [logs |-> TxKey, balances |-> TxKey, token_balances |-> TxKey],
                              [account_keys |-> "account_keys_size",
                               address_table_lookups |-> "address_table_lookups_size",
                               signatures |-> "signatures_size", loaded_addresses |-> "loaded_addresses_size"]),
     instructions |-> Queried(InstructionKey, NoChildren, [data |-> "data_size", a0 |-> "accounts_size"]),
     logs |-> Queried(Append(TxKey, "log_index"), NoChildren, [message |-> "message_size"]),
     balances |-> Queried(Append(TxKey, "account"), NoChildren, NoWeights),
     token_balances |-> Queried(Append(TxKey, "account"), NoChildren, NoWeights),
     rewards |-> Queried(<<"block_number", "pubkey", "reward_type">>, NoChildren, NoWeights)]

BlockFields == Shows({"number", "hash", "parent_number", "parent_hash", "height"}) @@ As("seconds", {"timestamp"})
TransactionFields ==
    Shows({"transaction_index", "account_keys", "address_table_lookups", "num_readonly_signed_accounts",
           "num_readonly_unsigned_accounts", "num_required_signatures", "recent_blockhash", "signatures",
           "loaded_addresses", "fee_payer", "has_dropped_log_messages"})
      @@ As("version", {"version"}) @@ As("json", {"err"}) @@ As("bignum", {"fee", "compute_units_consumed"})
InstructionFields ==
    Shows({"transaction_index", "instruction_address", "program_id", "data", "error", "is_committed",
           "has_dropped_log_messages"})
      @@ [accounts |-> RollOf(Append(Accounts, "rest_accounts"))]
      @@ As("hex", {"d1", "d2", "d4", "d8"}) @@ As("bignum", {"compute_units_consumed"})
LogFields == Shows({"transaction_index", "log_index", "instruction_address", "program_id", "kind", "message"})
BalanceFields == Shows({"transaction_index", "account"}) @@ As("bignum", {"pre", "post"})
TokenBalanceFields ==
    Shows({"transaction_index", "account", "pre_mint", "post_mint", "pre_decimals", "post_decimals", "pre_program_id",
           "post_program_id", "pre_owner", "post_owner"}) @@ As("bignum", {"pre_amount", "post_amount"})
RewardFields == Shows({"pubkey", "reward_type", "commission"}) @@ As("bignum", {"lamports", "post_balance"})
Project == [blocks |-> BlockFields, transactions |-> TransactionFields, instructions |-> InstructionFields,
            logs |-> LogFields, balances |-> BalanceFields, token_balances |-> TokenBalanceFields,
            rewards |-> RewardFields]

SameTx(table) == Join(table, TxKey, TxKey)
\* The discriminators of one length are looked up in the column of that length.
Discriminator ==
    [op |-> "prefix", column |-> DataPrefixes,
     literal |-> [n \in 1 .. 16 |-> CASE n = 1 -> "u8" [] n = 2 -> "u16" [] n = 4 -> "u32" [] n = 8 -> "u64" [] OTHER -> "bin"]]
InstructionFilters ==
    In("str", {"program_id"} \cup Range(Accounts)) @@ In("bool", {"is_committed"})
      @@ In("u8", {"d1"}) @@ In("u16", {"d2"}) @@ In("u32", {"d4"}) @@ In("u64", {"d8"})
      @@ [mentions_account |-> Filter("bloom", "accounts_bloom", "str"), discriminator |-> Discriminator]
InstructionRelations ==
    [transaction |-> SameTx("transactions"), transaction_balances |-> SameTx("balances"),
     transaction_token_balances |-> SameTx("token_balances"), transaction_instructions |-> SameTx("instructions"),
     inner_instructions |-> Tree("children", "instructions", InstructionKey),
     parent_instructions |-> Tree("parents", "instructions", InstructionKey),
     logs |-> Join("logs", InstructionKey, InstructionKey)]
InstructionRequest == Request("instructions", NoFixed, InstructionFilters, InstructionRelations)
TransactionRequest ==
    Request("transactions", NoFixed,
            In("str", {"fee_payer"}) @@ [mentions_account |-> Filter("bloom", "accounts_bloom", "str")],
            [instructions |-> SameTx("instructions"), logs |-> SameTx("logs"), balances |-> SameTx("balances"),
             token_balances |-> SameTx("token_balances")])
LogRequest ==
    Request("logs", NoFixed, In("str", {"program_id", "kind"}),
            [instruction |-> Join("instructions", InstructionKey, InstructionKey), transaction |-> SameTx("transactions")])
BalanceRequest ==
    Request("balances", NoFixed, In("str", {"account"}),
            [transaction |-> SameTx("transactions"), transaction_instructions |-> SameTx("instructions")])
TokenBalanceRequest ==
    Request("token_balances", NoFixed,
            In("str", {"account", "pre_mint", "post_mint", "pre_program_id", "post_program_id", "pre_owner", "post_owner"}),
            [transaction |-> SameTx("transactions"), transaction_instructions |-> SameTx("instructions"),
             transaction_balances |-> SameTx("balances"), transaction_token_balances |-> SameTx("token_balances")])
RewardRequest == Request("rewards", NoFixed, In("str", {"pubkey"}), NoRelations)
SolanaQuery ==
    [transactions |-> TransactionRequest, instructions |-> InstructionRequest, logs |-> LogRequest,
     balances |-> BalanceRequest, token_balances |-> TokenBalanceRequest, rewards |-> RewardRequest]

-----------------------------------------------------------------------------
(* What the names of the query language stand for.  The error of an         *)
(* instruction is shown as the text of its JSON.                            *)

Prefix(item, f) == PrefixColumn(item, At(f, DataPrefixes))
FieldOf(t, f, item) ==
    CASE t = "transactions" /\ f = "version" -> IF item.tag = "legacy" THEN Tag("legacy") ELSE Get(item, f)
      [] t = "transactions" /\ f = "loaded_addresses" -> LoadedAddresses(item)
      [] t = "transactions" /\ f = "fee_payer" -> Nth(GetList(item, "account_keys"), 1)
      [] t = "instructions" /\ f = "error" -> AsJson(item, f)
      [] t = "instructions" /\ f \in Range(DataPrefixes) -> Prefix(item, f)
      [] t = "logs" /\ f = "kind" -> Tag(item.tag)
      [] OTHER -> Get(item, f)
Mentions(item, lists) == UNION {Range(GetList(item, l).items) : l \in lists}
Has(r, f, item) ==
    (CASE f = "mentions_account" /\ r = "instructions" -> Mentions(item, {"accounts"})
       [] f = "mentions_account" /\ r = "transactions" -> Mentions(item, {"account_keys", "loaded_readonly", "loaded_writable"})
       [] f = "discriminator" -> {Prefix(item, d) : d \in Range(DataPrefixes)}
       [] f \in Range(Accounts) -> {Nth(GetList(item, "accounts"), At(f, Accounts))}
       [] OTHER -> {FieldOf(SolanaQuery[r].table, f, item)}) \ {Absent}
OfRequest(r, item) == TRUE
Relates(r, rel, given, item) ==
    LET address(x) == GetList(x, "instruction_address").items
    IN  CASE <<r, rel>> \in {<<"instructions", "logs">>, <<"logs", "instruction">>} -> address(given) = address(item)
          [] rel = "inner_instructions" -> IsPrefix(address(given), address(item))
          [] rel = "parent_instructions" -> IsPrefix(address(item), address(given))
          [] OTHER -> TRUE
=============================================================================
