----------------------------- MODULE Chains -----------------------------
(* The supported chains under one signature. *)
EXTENDS ChainQueries

Bitcoin == INSTANCE BitcoinChain
Tron == INSTANCE TronChain
Fills == INSTANCE FillsChain
Commands == INSTANCE CommandsChain
Solana == INSTANCE SolanaChain
Evm == INSTANCE EvmChain

Chain ==
    [bitcoin |-> [model |-> Bitcoin!Model, indexes |-> Bitcoin!Indexes, tables |-> Bitcoin!Tables,
        queried |-> Bitcoin!TableSet, project |-> Bitcoin!Project, query |-> Bitcoin!BitcoinQuery],
     tron |-> [model |-> Tron!Model, indexes |-> Tron!Indexes, tables |-> Tron!Tables,
        queried |-> Tron!TableSet, project |-> Tron!Project, query |-> Tron!TronQuery],
     fills |-> [model |-> Fills!Model, indexes |-> Fills!Indexes, tables |-> Fills!Tables,
        queried |-> Fills!TableSet, project |-> Fills!Project, query |-> Fills!HyperliquidFillsQuery],
     commands |-> [model |-> Commands!Model, indexes |-> Commands!Indexes, tables |-> Commands!Tables,
        queried |-> Commands!TableSet, project |-> Commands!Project, query |-> Commands!HyperliquidReplicaCmdsQuery],
     solana |-> [model |-> Solana!Model, indexes |-> Solana!Indexes, tables |-> Solana!Tables,
        queried |-> Solana!TableSet, project |-> Solana!Project, query |-> Solana!SolanaQuery],
     evm |-> [model |-> Evm!Model, indexes |-> Evm!Indexes, tables |-> Evm!Tables,
        queried |-> Evm!TableSet, project |-> Evm!Project, query |-> Evm!EthQuery]]

\* What push adds to a table for an item of the block with the header.
RowFor(chain, t, header, item) ==
    CASE chain = "bitcoin" -> Bitcoin!Row(t, header, item)
      [] chain = "tron" -> Tron!Row(t, header, item)
      [] chain = "fills" -> Fills!Row(t, header, item)
      [] chain = "commands" -> Commands!Row(t, header, item)
      [] chain = "solana" -> Solana!Row(t, header, item)
      [] chain = "evm" -> Evm!Row(t, header, item)

\* The ingested value a field of an answer is to show.
FieldOf(chain, t, f, item) ==
    CASE chain = "bitcoin" -> Bitcoin!FieldOf(t, f, item)
      [] chain = "tron" -> Tron!FieldOf(t, f, item)
      [] chain = "fills" -> Fills!FieldOf(t, f, item)
      [] chain = "commands" -> Commands!FieldOf(t, f, item)
      [] chain = "solana" -> Solana!FieldOf(t, f, item)
      [] chain = "evm" -> Evm!FieldOf(t, f, item)

\* The values a filter is to find an item by.
Has(chain, r, f, item) ==
    CASE chain = "bitcoin" -> Bitcoin!Has(r, f, item)
      [] chain = "tron" -> Tron!Has(r, f, item)
      [] chain = "fills" -> Fills!Has(r, f, item)
      [] chain = "commands" -> Commands!Has(r, f, item)
      [] chain = "solana" -> Solana!Has(r, f, item)
      [] chain = "evm" -> Evm!Has(r, f, item)

\* Whether a request without filters is about an item.
OfRequest(chain, r, item) ==
    CASE chain = "bitcoin" -> Bitcoin!OfRequest(r, item)
      [] chain = "tron" -> Tron!OfRequest(r, item)
      [] chain = "fills" -> Fills!OfRequest(r, item)
      [] chain = "commands" -> Commands!OfRequest(r, item)
      [] chain = "solana" -> Solana!OfRequest(r, item)
      [] chain = "evm" -> Evm!OfRequest(r, item)

\* Whether a relation is about a pair of items of one transaction.
Relates(chain, r, rel, given, item) ==
    CASE chain = "bitcoin" -> Bitcoin!Relates(r, rel, given, item)
      [] chain = "tron" -> Tron!Relates(r, rel, given, item)
      [] chain = "fills" -> Fills!Relates(r, rel, given, item)
      [] chain = "commands" -> Commands!Relates(r, rel, given, item)
      [] chain = "solana" -> Solana!Relates(r, rel, given, item)
      [] chain = "evm" -> Evm!Relates(r, rel, given, item)
=============================================================================
