---------------------------- MODULE CommandsChain ----------------------------
(* The tables of Hyperliquid replica commands and the queries on them. *)
EXTENDS ChainQueries

-----------------------------------------------------------------------------
(* model.rs.  An action is tagged by its type; the assets and client ids of *)
(* what it orders, cancels or modifies are lists, without the repetitions.  *)

BlockHeader ==
    <<Variant("block", {"height", "hash", "parent_hash", "round", "parent_round", "proposer", "timestamp", "hardfork"},
              NoLists)>>
Action ==
    LET required == {"action_index", "action", "signature", "nonce", "status", "response"}
    IN  << Variant("order", required \cup {"user", "vault_address"}, ListsOf({"assets", "cloids"}, 2)),
           Variant("cancel", required \cup {"user"}, ListsOf({"assets"}, 1)),
           Variant("cancelByCloid", required, ListsOf({"assets", "cloids"}, 1)),
           Variant("batchModify", required \cup {"vault_address"}, [assets |-> 2, cloids |-> 0]) >>
Model == [blocks |-> BlockHeader, actions |-> Action]
Indexes == Numbers({"height"}, {"action_index"})

-----------------------------------------------------------------------------
(* tables *)

BlockTable ==
    TableOf([u64 |-> {"number", "round", "parent_round"}, str |-> {"hash", "parent_hash", "proposer", "hardfork"},
             ts_ms |-> {"timestamp"}], {"number"}, {}, <<"number">>)
ActionTable ==
    TableOf([u64 |-> {"block_number", "action_size", "nonce", "response_size"}, u32 |-> {"action_index"},
             str |-> {"user", "action_type", "action", "signature", "vault_address", "status", "response"},
             list_u32 |-> {"order_asset", "cancel_asset", "cancel_by_cloid_asset", "batch_modify_asset"},
             list_str |-> {"order_cloid", "cancel_by_cloid_cloid", "batch_modify_cloid"}],
            {"block_number"}, {"action_index"},
            <<"action_type", "user", "vault_address", "block_number", "action_index">>)
Tables == [blocks |-> BlockTable, actions |-> ActionTable]

BlockRow(header) ==
    RowOf(BlockTable, [number |-> header.is["height"], hardfork |-> AsJson(header, "hardfork")], header)

\* The lists of an action's type; those of the other types are null.
When(item, type, list) == IF item.tag = type THEN GetList(item, list) ELSE Absent
AppendOrder(item) == [order_asset |-> When(item, "order", "assets"), order_cloid |-> When(item, "order", "cloids")]
AppendCancel(item) == [cancel_asset |-> When(item, "cancel", "assets")]
AppendCancelByCloid(item) ==
    [cancel_by_cloid_asset |-> When(item, "cancelByCloid", "assets"),
     cancel_by_cloid_cloid |-> When(item, "cancelByCloid", "cloids")]
AppendBatchModify(item) ==
    [batch_modify_asset |-> When(item, "batchModify", "assets"), batch_modify_cloid |-> When(item, "batchModify", "cloids")]
ActionRow(at, item) ==
    RowOf(ActionTable,
          at @@ AppendOrder(item) @@ AppendCancel(item) @@ AppendCancelByCloid(item) @@ AppendBatchModify(item)
             @@ [action_type |-> Tag(item.tag), action |-> AsJson(item, "action"), signature |-> AsJson(item, "signature"),
                 response |-> AsJson(item, "response"), action_size |-> SizeOf(AsJson(item, "action")),
                 response_size |-> SizeOf(AsJson(item, "response"))], item)
Row(t, header, item) ==
    IF t = "blocks" THEN BlockRow(item) ELSE ActionRow([block_number |-> header.is["height"]], item)

-----------------------------------------------------------------------------
(* query/hyperliquid_replica_cmds.rs *)

TableSet ==
    [blocks |-> Queried(<<"number">>, NoChildren, NoWeights),
     actions |-> Queried(<<"block_number", "action_index">>, NoChildren,
                         [action |-> "action_size", response |-> "response_size"])]
BlockFields ==
    Shows({"number", "hash", "parent_hash", "round", "parent_round", "proposer", "timestamp"}) @@ As("json", {"hardfork"})
ActionFields ==
    Shows({"action_index", "user", "nonce", "vault_address", "status"}) @@ As("json", {"action", "signature", "response"})
Project == [blocks |-> BlockFields, actions |-> ActionFields]

ActionRequest ==
    Request("actions", NoFixed, In("str", {"action_type", "user", "vault_address", "status"}), NoRelations)
OrderActionRequest ==
    Request("actions", NoFixed,
            [contains_asset |-> Filter("contains", "order_asset", "u32"),
             contains_cloid |-> Filter("contains", "order_cloid", "str")] @@ In("str", {"user", "vault_address", "status"}),
            NoRelations)
CancelActionRequest ==
    Request("actions", NoFixed,
            [contains_asset |-> Filter("contains", "cancel_asset", "u32")] @@ In("str", {"user", "vault_address", "status"}),
            NoRelations)
CancelByCloidActionRequest ==
    Request("actions", NoFixed,
            [contains_asset |-> Filter("contains", "asset", "u32"), contains_cloid |-> Filter("contains", "cloid", "str")]
              @@ In("str", {"user", "vault_address", "status"}), NoRelations)
BatchModifyActionRequest ==
    Request("actions", NoFixed,
            [contains_asset |-> Filter("contains", "batch_modify_asset", "u32"),
             contains_cloid |-> Filter("contains", "batch_modify_cloid", "str")]
              @@ In("str", {"user", "vault_address", "status"}), NoRelations)
HyperliquidReplicaCmdsQuery ==
    [actions |-> ActionRequest, order_actions |-> OrderActionRequest, cancel_actions |-> CancelActionRequest,
     cancel_by_cloid_actions |-> CancelByCloidActionRequest, batch_modify_actions |-> BatchModifyActionRequest]

-----------------------------------------------------------------------------
(* What the names of the query language stand for.  A request for orders,   *)
(* cancels or modifications is one for actions of any type, unless it lists *)
(* assets or client ids.                                                    *)

FieldOf(t, f, item) == IF t = "blocks" /\ f = "number" THEN Get(item, "height") ELSE Get(item, f)
Has(r, f, item) ==
    LET type == [order_actions |-> "order", cancel_actions |-> "cancel", cancel_by_cloid_actions |-> "cancelByCloid",
                 batch_modify_actions |-> "batchModify"]
    IN  CASE f = "action_type" -> {Tag(item.tag)}
          [] f = "contains_asset" -> IF item.tag = type[r] THEN Range(GetList(item, "assets").items) ELSE {}
          [] f = "contains_cloid" -> IF item.tag = type[r] THEN Range(GetList(item, "cloids").items) ELSE {}
          [] OTHER -> {Get(item, f)} \ {Absent}
OfRequest(r, item) == TRUE
Relates(r, rel, given, item) == TRUE
=============================================================================
