---------------------------- MODULE BlockPacking ----------------------------
(***************************************************************************)
(* Web3Indexer::insert_or_update_l2block (crates/indexer/src/indexer.rs)   *)
(* for one new block: its L2 transactions are taken in batches, the        *)
(* receipts of a batch are fetched in parallel and with retries, the       *)
(* transactions that are Ethereum's are numbered within the block, and the *)
(* rows of each batch are inserted (insert_l2_block.rs) in one Postgres    *)
(* transaction that is committed with the block. Indexer.StoreBlock is     *)
(* this whole module, seen by the readers of the database.                 *)
(***************************************************************************)
EXTENDS Integers, Sequences, FiniteSets

CONSTANTS
    Blocks,         \* the blocks considered, each the sequence of its L2Transactions
    TX_BATCH_SIZE,
    MaxRetry,       \* max_retry of get_transaction_receipt
    MaxAborts       \* bound of the model: attempts at the block that fail

\* An L2 transaction: whether it is Ethereum's (an allowed account lock calls a
\* Polyjuice contract or transfers CKB), its gas, and its Polyjuice user logs.
L2Transaction == [eth : BOOLEAN, gas_limit : Nat, gas_used : Nat, logs : Nat]

ASSUME PackingAssumption ==
    /\ Blocks \subseteq Seq(L2Transaction)
    /\ TX_BATCH_SIZE \in Nat \ {0}
    /\ MaxRetry \in Nat
    /\ MaxAborts \in Nat

VARIABLES
    l2_block,       \* the block
    pc,
    start,          \* transactions in the batches that are inserted
    attempts,       \* attempts[i]: failed attempts at the receipt of transaction i
    received,       \* transactions of the batch whose receipt has come
    next,           \* the transaction to number next
    txs_vec,        \* the numbered transactions of the batch
    logs_vec,       \* and their logs, flattened
    tx_index_cursor, log_index_cursor, cumulative_gas_used, total_gas_limit,
    pg_txs,         \* rows of transactions inserted by the Postgres transaction
    pg_logs,        \* rows of logs inserted by the Postgres transaction
    nextId,         \* the sequence of transactions.id: it is never rolled back
    block_row,      \* the committed row of blocks
    aborts          \* attempts at the block that failed

cursorVars == <<tx_index_cursor, log_index_cursor, cumulative_gas_used, total_gas_limit>>
batchVars == <<start, attempts, received, next, txs_vec, logs_vec>>
pgVars == <<pg_txs, pg_logs>>
vars == <<l2_block, pc, batchVars, cursorVars, pgVars, nextId, block_row, aborts>>

Step == {"filter", "number", "insert", "commit", "done"}

NoRow == [gas_limit |-> -1, gas_used |-> -1]

\* The batch that follows the inserted ones: transactions start + 1 .. BatchEnd.
BatchEnd ==
    IF start + TX_BATCH_SIZE < Len(l2_block) THEN start + TX_BATCH_SIZE ELSE Len(l2_block)

FirstStep(txs) == IF txs = << >> THEN "commit" ELSE "filter"

Init ==
    /\ l2_block \in Blocks
    /\ pc = FirstStep(l2_block)
    /\ start = 0
    /\ attempts = [i \in 1 .. Len(l2_block) |-> 0]
    /\ received = {}
    /\ next = 1
    /\ txs_vec = << >>
    /\ logs_vec = << >>
    /\ tx_index_cursor = 0
    /\ log_index_cursor = 0
    /\ cumulative_gas_used = 0
    /\ total_gas_limit = 0
    /\ pg_txs = << >>
    /\ pg_logs = << >>
    /\ nextId = 1
    /\ block_row = NoRow
    /\ aborts = 0

-----------------------------------------------------------------------------
\* filter_single_transaction, for the transactions of a batch in parallel.

Wanted == {i \in (start + 1) .. BatchEnd : l2_block[i].eth}

Receipt(i) ==
    /\ pc = "filter"
    /\ i \in Wanted \ received
    /\ received' = received \cup {i}
    /\ UNCHANGED <<l2_block, pc, start, attempts, next, txs_vec, logs_vec,
                   cursorVars, pgVars, nextId, block_row, aborts>>

\* Mutant: one attempt more.
NoReceiptByOne(i) ==
    /\ pc = "filter"
    /\ i \in Wanted \ received
    /\ attempts[i] <= MaxRetry
    /\ attempts' = [attempts EXCEPT ![i] = @ + 1]
    /\ UNCHANGED <<l2_block, pc, start, received, next, txs_vec, logs_vec,
                   cursorVars, pgVars, nextId, block_row, aborts>>

\* An attempt that fails: an error of the call, or no receipt yet.
NoReceipt(i) ==
    /\ pc = "filter"
    /\ i \in Wanted \ received
    /\ attempts[i] < MaxRetry
    /\ attempts' = [attempts EXCEPT ![i] = @ + 1]
    /\ UNCHANGED <<l2_block, pc, start, received, next, txs_vec, logs_vec,
                   cursorVars, pgVars, nextId, block_row, aborts>>

Filtered ==
    /\ pc = "filter"
    /\ Wanted \subseteq received
    /\ pc' = "number"
    /\ UNCHANGED <<l2_block, batchVars, cursorVars, pgVars, nextId, block_row, aborts>>

-----------------------------------------------------------------------------
\* The closure that numbers a transaction, which is called for each in turn.

\* Mutant: a transaction's own gas is added for the next one only.
NumberingWithoutOwnGas(i) ==
    [hash |-> i,
     transaction_index |-> tx_index_cursor + Len(txs_vec),
     cumulative_gas_used |-> cumulative_gas_used]

\* Its row, but for the id.
NumberingOf(i) ==
    [hash |-> i,
     transaction_index |-> tx_index_cursor + Len(txs_vec),
     cumulative_gas_used |-> cumulative_gas_used + l2_block[i].gas_used]

\* Mutant: logs are numbered within their transaction.
LogsFromZero(i) ==
    [j \in 1 .. l2_block[i].logs |->
        [hash |-> i,
         tx_id |-> Len(txs_vec) + 1,
         transaction_index |-> tx_index_cursor + Len(txs_vec),
         log_index |-> j - 1]]

\* Its logs: tx_id is the position in the batch, to be replaced by the row's id.
LogsOf(i) ==
    [j \in 1 .. l2_block[i].logs |->
        [hash |-> i,
         tx_id |-> Len(txs_vec) + 1,
         transaction_index |-> tx_index_cursor + Len(txs_vec),
         log_index |-> log_index_cursor + j - 1]]

Number ==
    LET tx == l2_block[next] IN
    /\ pc = "number"
    /\ next <= BatchEnd
    /\ next' = next + 1
    /\ IF tx.eth
       THEN /\ txs_vec' = Append(txs_vec, NumberingOf(next))
            /\ logs_vec' = logs_vec \o LogsOf(next)
            /\ log_index_cursor' = log_index_cursor + tx.logs
            /\ cumulative_gas_used' = cumulative_gas_used + tx.gas_used
            /\ total_gas_limit' = total_gas_limit + tx.gas_limit
       ELSE UNCHANGED <<txs_vec, logs_vec, log_index_cursor, cumulative_gas_used,
                        total_gas_limit>>
    /\ UNCHANGED <<l2_block, pc, start, attempts, received, tx_index_cursor,
                   pgVars, nextId, block_row, aborts>>

\* Mutant: the next batch is numbered from the same index.
NumberedFromSame ==
    /\ pc = "number"
    /\ next > BatchEnd
    /\ pc' = "insert"
    /\ UNCHANGED <<l2_block, batchVars, cursorVars, pgVars, nextId, block_row, aborts>>

\* Mutant: the last transaction of the batch may be left out.
NumberedTooEarly ==
    /\ pc = "number"
    /\ next >= BatchEnd
    /\ tx_index_cursor' = tx_index_cursor + Len(txs_vec)
    /\ pc' = "insert"
    /\ UNCHANGED <<l2_block, batchVars, log_index_cursor, cumulative_gas_used,
                   total_gas_limit, pgVars, nextId, block_row, aborts>>

Numbered ==
    /\ pc = "number"
    /\ next > BatchEnd
    /\ tx_index_cursor' = tx_index_cursor + Len(txs_vec)
    /\ pc' = "insert"
    /\ UNCHANGED <<l2_block, batchVars, log_index_cursor, cumulative_gas_used,
                   total_gas_limit, pgVars, nextId, block_row, aborts>>

-----------------------------------------------------------------------------
\* The database.

\* insert_web3_txs_and_logs: the rows of the batch get ids in their order, and
\* the ids that RETURNING gives replace the positions in the logs.
TxRows ==
    [k \in 1 .. Len(txs_vec) |->
        [id |-> nextId + k - 1,
         hash |-> txs_vec[k].hash,
         transaction_index |-> txs_vec[k].transaction_index,
         cumulative_gas_used |-> txs_vec[k].cumulative_gas_used]]

\* Mutant: logs keep the position instead of the id.
LogRowsByPosition == logs_vec

LogRows ==
    [j \in 1 .. Len(logs_vec) |->
        [logs_vec[j] EXCEPT !.tx_id = TxRows[logs_vec[j].tx_id].id]]

InsertBatch ==
    /\ pc = "insert"
    /\ pg_txs' = pg_txs \o TxRows
    /\ pg_logs' = pg_logs \o LogRows
    /\ nextId' = nextId + Len(txs_vec)
    /\ start' = BatchEnd
    /\ received' = {}
    /\ txs_vec' = << >>
    /\ logs_vec' = << >>
    /\ pc' = IF BatchEnd = Len(l2_block) THEN "commit" ELSE "filter"
    /\ UNCHANGED <<l2_block, attempts, next, cursorVars, block_row, aborts>>

\* build_web3_block, insert_web3_block, commit.
Commit ==
    /\ pc = "commit"
    /\ block_row' = [gas_limit |-> total_gas_limit, gas_used |-> cumulative_gas_used]
    /\ pc' = "done"
    /\ UNCHANGED <<l2_block, batchVars, cursorVars, pgVars, nextId, aborts>>

\* Any error (the last attempt at a receipt fails, a log does not parse, an
\* insert is rejected) drops the Postgres transaction. The runner, or the
\* process started after it, asks for the block again.
Abort ==
    /\ pc # "done"
    /\ aborts < MaxAborts
    /\ aborts' = aborts + 1
    /\ pc' = FirstStep(l2_block)
    /\ start' = 0
    /\ attempts' = [i \in 1 .. Len(l2_block) |-> 0]
    /\ received' = {}
    /\ next' = 1
    /\ txs_vec' = << >>
    /\ logs_vec' = << >>
    /\ tx_index_cursor' = 0
    /\ log_index_cursor' = 0
    /\ cumulative_gas_used' = 0
    /\ total_gas_limit' = 0
    /\ pg_txs' = << >>
    /\ pg_logs' = << >>
    /\ UNCHANGED <<l2_block, nextId, block_row>>

Next ==
    \/ \E i \in 1 .. Len(l2_block) : Receipt(i) \/ NoReceipt(i)
    \/ Filtered
    \/ Number
    \/ Numbered
    \/ InsertBatch
    \/ Commit
    \/ Abort

Spec == Init /\ [][Next]_vars

-----------------------------------------------------------------------------
\* Properties.

Numbering == [hash : Nat, transaction_index : Nat, cumulative_gas_used : Nat]
TxRow == [id : Nat, hash : Nat, transaction_index : Nat, cumulative_gas_used : Nat]
LogRow == [hash : Nat, tx_id : Nat, transaction_index : Nat, log_index : Nat]

TypeOK ==
    /\ l2_block \in Blocks
    /\ pc \in Step
    /\ start \in 0 .. Len(l2_block)
    /\ attempts \in [1 .. Len(l2_block) -> 0 .. MaxRetry]
    /\ received \subseteq 1 .. Len(l2_block)
    /\ next \in 1 .. (Len(l2_block) + 1)
    /\ txs_vec \in Seq(Numbering)
    /\ logs_vec \in Seq(LogRow)
    /\ tx_index_cursor \in Nat
    /\ log_index_cursor \in Nat
    /\ cumulative_gas_used \in Nat
    /\ total_gas_limit \in Nat
    /\ pg_txs \in Seq(TxRow)
    /\ pg_logs \in Seq(LogRow)
    /\ nextId \in Nat
    /\ block_row \in [gas_limit : Int, gas_used : Int]
    /\ aborts \in 0 .. MaxAborts

\* Rows are numbered 0, 1, 2, ... in the order of the block, whatever the
\* batches they are inserted by and the transactions left out in between.
TransactionsNumbered ==
    \A k \in 1 .. Len(pg_txs) :
        /\ pg_txs[k].transaction_index = k - 1
        /\ l2_block[pg_txs[k].hash].eth
        /\ k > 1 => pg_txs[k - 1].hash < pg_txs[k].hash

\* Logs are numbered 0, 1, 2, ... through the block, as indexer.rs:297 says,
\* eth.ts:987 promises to clients and a migration repaired older rows to
\* (20221018014620_fix_log_index.ts), and never go back to an earlier transaction.
\* docs/schema_design.md:110 disagrees: there log_index is the log's position in the
\* receipt of its transaction, which it is for the first logs of a block only.
LogsNumbered ==
    \A j \in 1 .. Len(pg_logs) :
        /\ pg_logs[j].log_index = j - 1
        /\ j > 1 => pg_logs[j - 1].transaction_index <= pg_logs[j].transaction_index

\* The row a log's transaction_id names is that of its own transaction, although
\* ids are given by the database, per batch, and an attempt that failed has used
\* some up.
LogsLinked ==
    \A j \in 1 .. Len(pg_logs) : \E k \in 1 .. Len(pg_txs) :
        /\ pg_txs[k].id = pg_logs[j].tx_id
        /\ pg_txs[k].hash = pg_logs[j].hash
        /\ pg_txs[k].transaction_index = pg_logs[j].transaction_index

\* A committed block has all its Ethereum transactions with all their logs, and
\* its gas_used is what its last transaction has accumulated.
CommittedWhole ==
    pc = "done" =>
        /\ {pg_txs[k].hash : k \in 1 .. Len(pg_txs)}
               = {i \in 1 .. Len(l2_block) : l2_block[i].eth}
        /\ \A i \in 1 .. Len(l2_block) :
               Cardinality({j \in 1 .. Len(pg_logs) : pg_logs[j].hash = i})
                   = (IF l2_block[i].eth THEN l2_block[i].logs ELSE 0)
        /\ block_row.gas_used = (IF pg_txs = << >> THEN 0
                                 ELSE pg_txs[Len(pg_txs)].cumulative_gas_used)

\* The readers of the database see no batch and no attempt: all rows of a block
\* appear with the block's own, numbered and with the gas accumulated as in a
\* single pass over its transactions.
Committed(rows) == IF block_row = NoRow THEN {} ELSE rows

CommittedTransactions ==
    Committed({[hash |-> pg_txs[k].hash,
                transaction_index |-> pg_txs[k].transaction_index,
                cumulative_gas_used |-> pg_txs[k].cumulative_gas_used] :
                    k \in 1 .. Len(pg_txs)})

CommittedLogs ==
    Committed({[hash |-> pg_logs[j].hash,
                transaction_index |-> pg_logs[j].transaction_index,
                log_index |-> pg_logs[j].log_index] :
                    j \in 1 .. Len(pg_logs)})

Stored == INSTANCE StoredBlock WITH transactions <- CommittedTransactions, logs <- CommittedLogs

StoredAtOnce == Stored!Spec
=============================================================================
