----------------------------- MODULE StoredBlock -----------------------------
(***************************************************************************)
(* What insert_or_update_l2block (crates/indexer/src/indexer.rs) promises  *)
(* for a new block, said without batches, receipts, cursors and attempts:  *)
(* its rows are stored at once with the block's, and are those of a single *)
(* pass over its transactions. BlockPacking implements it.                 *)
(***************************************************************************)
EXTENDS Integers, Sequences

CONSTANTS
    Blocks,         \* as in BlockPacking
    NoRow

VARIABLES
    l2_block,       \* the block
    block_row,      \* its row of blocks
    transactions,   \* its rows of transactions, but for their ids
    logs            \* its rows of logs, but for the ids of their transactions

vars == <<l2_block, block_row, transactions, logs>>

Nothing == [transactions |-> 0, logs |-> 0, gas_used |-> 0, gas_limit |-> 0]

\* Only the transactions that are Ethereum's count.
Count(tally, tx) ==
    IF tx.eth
    THEN [transactions |-> tally.transactions + 1,
          logs |-> tally.logs + tx.logs,
          gas_used |-> tally.gas_used + tx.gas_used,
          gas_limit |-> tally.gas_limit + tx.gas_limit]
    ELSE tally

\* What the first n transactions have come to.
Tally(txs) ==
    LET tally[n \in 0 .. Len(txs)] ==
            IF n = 0 THEN Nothing ELSE Count(tally[n - 1], txs[n])
    IN  tally

Ethereum(txs) == {i \in 1 .. Len(txs) : txs[i].eth}

Block(txs) ==
    [gas_limit |-> Tally(txs)[Len(txs)].gas_limit, gas_used |-> Tally(txs)[Len(txs)].gas_used]

Transactions(txs) ==
    {[hash |-> i,
      transaction_index |-> Tally(txs)[i - 1].transactions,
      cumulative_gas_used |-> Tally(txs)[i].gas_used] : i \in Ethereum(txs)}

LogsOf(txs, i) ==
    {[hash |-> i,
      transaction_index |-> Tally(txs)[i - 1].transactions,
      log_index |-> l] : l \in Tally(txs)[i - 1].logs .. (Tally(txs)[i].logs - 1)}

Logs(txs) == UNION {LogsOf(txs, i) : i \in Ethereum(txs)}

Init ==
    /\ l2_block \in Blocks
    /\ block_row = NoRow
    /\ transactions = {}
    /\ logs = {}

Store ==
    /\ block_row = NoRow
    /\ block_row' = Block(l2_block)
    /\ transactions' = Transactions(l2_block)
    /\ logs' = Logs(l2_block)
    /\ UNCHANGED l2_block

Spec == Init /\ [][Store]_vars
=============================================================================
