------------------------- MODULE BlockPackingProofs -------------------------
(***************************************************************************)
(* Proofs about BlockPacking for blocks of any length and batches of any   *)
(* size: the rows of a block are numbered as if it were one batch.         *)
(***************************************************************************)
EXTENDS BlockPacking, SequenceTheorems, FiniteSetTheorems, WellFoundedInduction, TLAPS

-----------------------------------------------------------------------------
\* The inductive invariant.

\* Gas accumulated by the inserted rows.
InsertedGas ==
    IF pg_txs = << >> THEN 0 ELSE pg_txs[Len(pg_txs)].cumulative_gas_used

\* Where numbering stands within the block.
Progress ==
    /\ pc = "filter" => start < Len(l2_block)
    /\ pc \in {"filter", "commit"} => next = start + 1
    /\ pc = "number" => start < next /\ next <= BatchEnd + 1
    /\ pc = "insert" => start < next /\ next = BatchEnd + 1
    /\ pc \in {"filter", "commit", "done"} => txs_vec = << >> /\ logs_vec = << >>

\* The cursors count the rows.
Cursors ==
    /\ log_index_cursor = Len(pg_logs) + Len(logs_vec)
    /\ tx_index_cursor = Len(pg_txs) + IF pc = "insert" THEN Len(txs_vec) ELSE 0
    /\ cumulative_gas_used =
           IF txs_vec = << >> THEN InsertedGas
           ELSE txs_vec[Len(txs_vec)].cumulative_gas_used

\* The numbered transactions of the batch go on where the inserted rows end.
Batch ==
    \A k \in 1 .. Len(txs_vec) :
        /\ txs_vec[k].transaction_index = Len(pg_txs) + k - 1
        /\ txs_vec[k].hash \in (start + 1) .. (next - 1)
        /\ txs_vec[k].hash <= Len(l2_block)
        /\ l2_block[txs_vec[k].hash].eth
        /\ k > 1 => txs_vec[k - 1].hash < txs_vec[k].hash
        /\ txs_vec[k].cumulative_gas_used =
               (IF k = 1 THEN InsertedGas ELSE txs_vec[k - 1].cumulative_gas_used)
                   + l2_block[txs_vec[k].hash].gas_used

\* Inserted rows are of transactions in earlier batches.
Earlier == \A k \in 1 .. Len(pg_txs) : pg_txs[k].hash \in 1 .. start

\* A numbered log names the position of its own transaction in the batch.
BatchLogs ==
    \A j \in 1 .. Len(logs_vec) :
        /\ logs_vec[j].log_index = Len(pg_logs) + j - 1
        /\ logs_vec[j].tx_id \in 1 .. Len(txs_vec)
        /\ logs_vec[j].hash = txs_vec[logs_vec[j].tx_id].hash
        /\ logs_vec[j].transaction_index = Len(pg_txs) + logs_vec[j].tx_id - 1
        /\ j > 1 => logs_vec[j - 1].tx_id <= logs_vec[j].tx_id

\* Inserted logs are of inserted transactions.
InsertedLogs ==
    \A j \in 1 .. Len(pg_logs) : pg_logs[j].transaction_index < Len(pg_txs)

\* The gas a row accumulates is that of the row before it and its own.
GasAccumulates ==
    \A k \in 1 .. Len(pg_txs) :
        pg_txs[k].cumulative_gas_used =
            (IF k = 1 THEN 0 ELSE pg_txs[k - 1].cumulative_gas_used)
                + l2_block[pg_txs[k].hash].gas_used

IInv ==
    /\ TypeOK
    /\ Progress
    /\ Cursors
    /\ Batch
    /\ Earlier
    /\ BatchLogs
    /\ InsertedLogs
    /\ TransactionsNumbered
    /\ GasAccumulates
    /\ LogsNumbered
    /\ LogsLinked

-----------------------------------------------------------------------------
\* Lemmas about sequences.

\* A function on 1 .. n is a sequence of length n.
LEMMA FunctionSeq ==
    ASSUME NEW S, NEW n \in Nat, NEW f \in [1 .. n -> S]
    PROVE  f \in Seq(S) /\ Len(f) = n
<1>1. f \in Seq(S)  BY SeqDef
<1>2. Len(f) \in Nat /\ DOMAIN f = 1 .. Len(f)  BY <1>1, LenProperties
<1>3. 1 .. n = 1 .. Len(f)  BY <1>2
<1> QED  BY <1>1, <1>2, <1>3

\* Elements of a concatenation, each part counted from its own start.
LEMMA ConcatElements ==
    ASSUME NEW S, NEW s \in Seq(S), NEW t \in Seq(S)
    PROVE  /\ s \o t \in Seq(S)
           /\ Len(s) \in Nat /\ Len(t) \in Nat
           /\ Len(s \o t) = Len(s) + Len(t)
           /\ \A i \in 1 .. Len(s) : (s \o t)[i] = s[i]
           /\ \A i \in 1 .. Len(t) : (s \o t)[Len(s) + i] = t[i]
<1>1. Len(s) \in Nat /\ Len(t) \in Nat  BY LenProperties
<1>2. \A i \in 1 .. Len(t) : (s \o t)[Len(s) + i] = t[i]
    <2> TAKE i \in 1 .. Len(t)
    <2>1. Len(s) + i \in 1 .. Len(s) + Len(t) /\ ~(Len(s) + i <= Len(s))  BY <1>1
    <2>2. Len(s) + i - Len(s) = i  BY <1>1
    <2> QED  BY <2>1, <2>2, ConcatProperties
<1>3. \A i \in 1 .. Len(s) : i \in 1 .. Len(s) + Len(t)  BY <1>1
<1> QED  BY <1>1, <1>2, <1>3, ConcatProperties

\* The same of a named concatenation.
LEMMA Concatenation ==
    ASSUME NEW S, NEW s \in Seq(S), NEW t \in Seq(S), NEW u, u = s \o t
    PROVE  /\ u \in Seq(S) /\ Len(u) = Len(s) + Len(t)
           /\ \A i \in 1 .. Len(s) : u[i] = s[i]
           /\ \A i \in 1 .. Len(t) : u[Len(s) + i] = t[i]
BY ConcatElements

\* An index of a concatenation is one of the first part or one of the second.
LEMMA SplitIndex ==
    ASSUME NEW m \in Nat, NEW n \in Nat, NEW i \in 1 .. (m + n)
    PROVE  i \in 1 .. m \/ \E k \in 1 .. n : i = m + k
<1>1. CASE i <= m  BY <1>1
<1>2. CASE i > m
    <2>1. i - m \in 1 .. n /\ i = m + (i - m)  BY <1>2
    <2> QED  BY <2>1
<1> QED  BY <1>1, <1>2

\* A transaction of the block.
LEMMA BlockElement ==
    ASSUME TypeOK, NEW i \in 1 .. Len(l2_block)
    PROVE  /\ l2_block[i].eth \in BOOLEAN
           /\ l2_block[i].gas_limit \in Nat
           /\ l2_block[i].gas_used \in Nat
           /\ l2_block[i].logs \in Nat
<1>1. l2_block \in Seq(L2Transaction)  BY PackingAssumption DEF TypeOK
<1>2. l2_block[i] \in L2Transaction  BY <1>1, ElementOfSeq
<1> QED  BY <1>2 DEF L2Transaction

LEMMA Lengths ==
    ASSUME TypeOK
    PROVE  /\ Len(l2_block) \in Nat /\ Len(txs_vec) \in Nat /\ Len(logs_vec) \in Nat
           /\ Len(pg_txs) \in Nat /\ Len(pg_logs) \in Nat
           /\ BatchEnd \in start .. Len(l2_block)
           /\ start < Len(l2_block) => start < BatchEnd
<1>1. l2_block \in Seq(L2Transaction)  BY PackingAssumption DEF TypeOK
<1>2. Len(l2_block) \in Nat  BY <1>1, LenProperties
<1>3. /\ Len(txs_vec) \in Nat /\ Len(logs_vec) \in Nat
      /\ Len(pg_txs) \in Nat /\ Len(pg_logs) \in Nat
    BY LenProperties DEF TypeOK
<1>4. TX_BATCH_SIZE \in Nat \ {0} /\ start \in 0 .. Len(l2_block)
    BY PackingAssumption DEF TypeOK
<1> QED  BY <1>2, <1>3, <1>4 DEF BatchEnd

LEMMA RowTypes ==
    ASSUME TypeOK
    PROVE  /\ \A k \in 1 .. Len(txs_vec) : txs_vec[k] \in Numbering
           /\ \A j \in 1 .. Len(logs_vec) : logs_vec[j] \in LogRow
           /\ \A k \in 1 .. Len(pg_txs) : pg_txs[k] \in TxRow
           /\ \A j \in 1 .. Len(pg_logs) : pg_logs[j] \in LogRow
           /\ InsertedGas \in Nat
<1>1. /\ \A k \in 1 .. Len(txs_vec) : txs_vec[k] \in Numbering
      /\ \A j \in 1 .. Len(logs_vec) : logs_vec[j] \in LogRow
      /\ \A k \in 1 .. Len(pg_txs) : pg_txs[k] \in TxRow
      /\ \A j \in 1 .. Len(pg_logs) : pg_logs[j] \in LogRow
    BY ElementOfSeq DEF TypeOK
<1>2. pg_txs # << >> => Len(pg_txs) \in 1 .. Len(pg_txs)
    BY EmptySeq DEF TypeOK
<1> QED  BY <1>1, <1>2 DEF InsertedGas, TxRow

-----------------------------------------------------------------------------
\* The initial state, and starting over.

\* Nothing is numbered and nothing is inserted.
Fresh ==
    /\ pc = FirstStep(l2_block)
    /\ start = 0
    /\ attempts = [i \in 1 .. Len(l2_block) |-> 0]
    /\ received = {}
    /\ next = 1
    /\ txs_vec = << >>
    /\ logs_vec = << >>
    /\ tx_index_cursor = 0
    /\ log_index_cursor = 0
    /\ cumulative_gas_used = 0
    /\ total_gas_limit = 0
    /\ pg_txs = << >>
    /\ pg_logs = << >>

LEMMA FreshInvariant ==
    l2_block \in Blocks /\ Fresh /\ nextId \in Nat /\ aborts \in 0 .. MaxAborts
        /\ block_row \in [gas_limit : Int, gas_used : Int]
    => IInv
<1> SUFFICES ASSUME l2_block \in Blocks, Fresh, nextId \in Nat, aborts \in 0 .. MaxAborts,
                    block_row \in [gas_limit : Int, gas_used : Int]
             PROVE  IInv
    OBVIOUS
<1>1. l2_block \in Seq(L2Transaction)  BY PackingAssumption
<1>2. Len(l2_block) \in Nat /\ (l2_block # << >> => Len(l2_block) > 0)
    BY <1>1, LenProperties, EmptySeq
<1>3. /\ txs_vec \in Seq(Numbering) /\ Len(txs_vec) = 0
      /\ logs_vec \in Seq(LogRow) /\ Len(logs_vec) = 0
      /\ pg_txs \in Seq(TxRow) /\ Len(pg_txs) = 0
      /\ pg_logs \in Seq(LogRow) /\ Len(pg_logs) = 0
    BY EmptySeq DEF Fresh
<1>4. attempts \in [1 .. Len(l2_block) -> 0 .. MaxRetry]
    BY PackingAssumption DEF Fresh
<1>5. TypeOK
    BY <1>2, <1>3, <1>4 DEF Fresh, TypeOK, FirstStep, Step
<1>6. Progress
    BY <1>2 DEF Fresh, Progress, FirstStep
<1>7. Cursors
    BY <1>3 DEF Fresh, Cursors, FirstStep, InsertedGas
<1>8. Batch /\ Earlier /\ BatchLogs /\ InsertedLogs
    BY <1>3 DEF Batch, Earlier, BatchLogs, InsertedLogs
<1>9. TransactionsNumbered /\ GasAccumulates /\ LogsNumbered /\ LogsLinked
    BY <1>3 DEF TransactionsNumbered, GasAccumulates, LogsNumbered, LogsLinked
<1> QED  BY <1>5, <1>6, <1>7, <1>8, <1>9 DEF IInv

LEMMA InitInvariant == Init => IInv
<1> SUFFICES ASSUME Init PROVE IInv
    OBVIOUS
<1>1. l2_block \in Blocks /\ Fresh  BY DEF Init, Fresh
<1>2. nextId \in Nat /\ aborts \in 0 .. MaxAborts  BY PackingAssumption DEF Init
<1>3. block_row \in [gas_limit : Int, gas_used : Int]  BY DEF Init, NoRow
<1> QED  BY <1>1, <1>2, <1>3, FreshInvariant

LEMMA AbortInvariant == IInv /\ Abort => IInv'
<1> SUFFICES ASSUME IInv, Abort PROVE IInv'
    OBVIOUS
<1>1. l2_block' \in Blocks /\ Fresh'
    BY DEF IInv, TypeOK, Abort, Fresh
<1>2. nextId' \in Nat /\ aborts' \in 0 .. MaxAborts
    BY PackingAssumption DEF IInv, TypeOK, Abort
<1>3. block_row' \in [gas_limit : Int, gas_used : Int]
    BY DEF IInv, TypeOK, Abort
<1>4. (l2_block \in Blocks /\ Fresh /\ nextId \in Nat /\ aborts \in 0 .. MaxAborts
            /\ block_row \in [gas_limit : Int, gas_used : Int] => IInv)'
    BY FreshInvariant, PTL
<1> QED  BY <1>1, <1>2, <1>3, <1>4

-----------------------------------------------------------------------------
\* Steps that insert and number nothing.

LEMMA ReceiptInvariant ==
    ASSUME IInv, NEW i \in 1 .. Len(l2_block), Receipt(i) \/ NoReceipt(i)
    PROVE  IInv'
<1>1. /\ received' \subseteq 1 .. Len(l2_block)
      /\ attempts' \in [1 .. Len(l2_block) -> 0 .. MaxRetry]
    <2>1. /\ received \subseteq 1 .. Len(l2_block)
          /\ attempts \in [1 .. Len(l2_block) -> 0 .. MaxRetry]
          /\ MaxRetry \in Nat
        BY PackingAssumption DEF IInv, TypeOK
    <2>2. CASE Receipt(i)  BY <2>1, <2>2 DEF Receipt
    <2>3. CASE NoReceipt(i)
        <3>1. attempts[i] + 1 \in 0 .. MaxRetry  BY <2>1, <2>3 DEF NoReceipt
        <3> QED  BY <2>1, <2>3, <3>1 DEF NoReceipt
    <2> QED  BY <2>2, <2>3
<1>2. UNCHANGED <<l2_block, pc, start, next, txs_vec, logs_vec, cursorVars,
                  pgVars, nextId, block_row, aborts>>
    BY DEF Receipt, NoReceipt
<1>3. TypeOK'  BY <1>1, <1>2 DEF IInv, TypeOK, cursorVars, pgVars
<1>4. Progress' /\ Cursors' /\ Batch' /\ Earlier' /\ BatchLogs' /\ InsertedLogs'
    BY <1>2 DEF IInv, Progress, Cursors, Batch, Earlier, BatchLogs, InsertedLogs,
                InsertedGas, BatchEnd, cursorVars, pgVars
<1>5. TransactionsNumbered' /\ GasAccumulates' /\ LogsNumbered' /\ LogsLinked'
    BY <1>2 DEF IInv, TransactionsNumbered, GasAccumulates, LogsNumbered,
                LogsLinked, pgVars
<1> QED  BY <1>3, <1>4, <1>5 DEF IInv

LEMMA MoveInvariant ==
    ASSUME IInv, Filtered \/ Numbered \/ Commit
    PROVE  IInv'
<1> USE DEF IInv, batchVars, cursorVars, pgVars
<1>1. UNCHANGED <<l2_block, batchVars, pgVars, nextId, aborts, log_index_cursor,
                  cumulative_gas_used, total_gas_limit>>
    BY DEF Filtered, Numbered, Commit
<1>2. TypeOK'
    <2>1. tx_index_cursor' \in Nat
        <3>1. tx_index_cursor \in Nat  BY DEF TypeOK
        <3>2. Len(txs_vec) \in Nat  BY Lengths
        <3> QED  BY <3>1, <3>2 DEF Filtered, Numbered, Commit
    <2>2. block_row' \in [gas_limit : Int, gas_used : Int]
        <3>1. /\ block_row \in [gas_limit : Int, gas_used : Int]
              /\ total_gas_limit \in Int /\ cumulative_gas_used \in Int
            BY DEF TypeOK
        <3> QED  BY <3>1 DEF Filtered, Numbered, Commit
    <2>3. pc' \in Step  BY DEF Filtered, Numbered, Commit, Step
    <2> QED  BY <1>1, <2>1, <2>2, <2>3 DEF TypeOK
<1>3. Progress'
    <2>1. /\ start \in Nat /\ next \in Nat /\ Len(l2_block) \in Nat
          /\ BatchEnd \in start .. Len(l2_block)
          /\ start < Len(l2_block) => start < BatchEnd
        BY Lengths DEF TypeOK
    <2>2. BatchEnd' = BatchEnd  BY <1>1 DEF BatchEnd
    <2> QED  BY <1>1, <2>1, <2>2 DEF Progress, Filtered, Numbered, Commit
<1>4. Cursors'
    <2>1. Len(txs_vec) \in Nat /\ Len(pg_txs) \in Nat  BY Lengths
    <2>2. CASE Filtered  BY <1>1, <2>1, <2>2 DEF Cursors, Filtered, InsertedGas
    <2>3. CASE Numbered  BY <1>1, <2>1, <2>3 DEF Cursors, Numbered, InsertedGas
    <2>4. CASE Commit  BY <1>1, <2>1, <2>4 DEF Cursors, Commit, InsertedGas
    <2> QED  BY <2>2, <2>3, <2>4
<1>5. Batch' /\ Earlier' /\ BatchLogs' /\ InsertedLogs'
    BY <1>1 DEF Batch, Earlier, BatchLogs, InsertedLogs, InsertedGas
<1>6. TransactionsNumbered' /\ GasAccumulates' /\ LogsNumbered' /\ LogsLinked'
    BY <1>1 DEF TransactionsNumbered, GasAccumulates, LogsNumbered, LogsLinked
<1> QED  BY <1>2, <1>3, <1>4, <1>5, <1>6

-----------------------------------------------------------------------------
\* Numbering a transaction.

\* The rows of an Ethereum transaction and of its logs, after those of the batch.
LEMMA NumberedIs ==
    ASSUME IInv, Number, NEW i \in 1 .. Len(l2_block), i = next, l2_block[i].eth
    PROVE  /\ LogsOf(i) \in Seq(LogRow) /\ Len(LogsOf(i)) = l2_block[i].logs
           /\ logs_vec' \in Seq(LogRow) /\ Len(logs_vec') = Len(logs_vec) + l2_block[i].logs
           /\ \A j \in 1 .. Len(logs_vec) : logs_vec'[j] = logs_vec[j]
           /\ \A n \in 1 .. l2_block[i].logs : logs_vec'[Len(logs_vec) + n] = LogsOf(i)[n]
<1>1. TypeOK /\ logs_vec' = logs_vec \o LogsOf(i)
    BY DEF IInv, Number
<1> DEFINE many == l2_block[i].logs
<1>2. /\ i \in Nat /\ many \in Nat /\ Len(txs_vec) \in Nat
      /\ tx_index_cursor \in Nat /\ log_index_cursor \in Nat /\ logs_vec \in Seq(LogRow)
    <2>1. many \in Nat
        BY <1>1, BlockElement
    <2>2. Len(txs_vec) \in Nat /\ Len(l2_block) \in Nat
        BY <1>1, Lengths
    <2>3. i \in Nat
        BY <2>2
    <2> QED  BY <1>1, <2>1, <2>2, <2>3 DEF TypeOK
<1>3. LogsOf(i) \in [1 .. many -> LogRow]
    <2> SUFFICES ASSUME NEW j \in 1 .. many
                 PROVE  [hash |-> i, tx_id |-> Len(txs_vec) + 1,
                         transaction_index |-> tx_index_cursor + Len(txs_vec),
                         log_index |-> log_index_cursor + j - 1] \in LogRow
        BY DEF LogsOf
    <2>1. Len(txs_vec) + 1 \in Nat /\ tx_index_cursor + Len(txs_vec) \in Nat /\ log_index_cursor + j - 1 \in Nat
        BY <1>2
    <2> QED  BY <1>2, <2>1 DEF LogRow
<1> HIDE DEF many
<1>4. LogsOf(i) \in Seq(LogRow) /\ Len(LogsOf(i)) = many
    BY <1>2, <1>3, FunctionSeq
<1>5. /\ logs_vec' \in Seq(LogRow)
      /\ \A j \in 1 .. Len(logs_vec) : logs_vec'[j] = logs_vec[j]
      /\ \A n \in 1 .. Len(LogsOf(i)) : logs_vec'[Len(logs_vec) + n] = LogsOf(i)[n]
    BY <1>1, <1>2, <1>4, Concatenation
<1>6. Len(logs_vec') = Len(logs_vec) + Len(LogsOf(i))
    BY <1>1, <1>2, <1>4, ConcatProperties, Zenon
<1> QED  BY <1>4, <1>5, <1>6 DEF many

LEMMA NumberInvariant == IInv /\ Number => IInv'
<1> SUFFICES ASSUME IInv, Number PROVE IInv'
    OBVIOUS
<1> USE DEF IInv, pgVars
<1> DEFINE T == Len(txs_vec)
           G == Len(logs_vec)
           tx == l2_block[next]
<1>1. /\ T \in Nat /\ G \in Nat /\ Len(pg_txs) \in Nat /\ Len(pg_logs) \in Nat
      /\ Len(l2_block) \in Nat /\ start \in Nat /\ next \in Nat
      /\ BatchEnd \in start .. Len(l2_block)
    BY Lengths DEF TypeOK
<1>2. /\ pc = "number" /\ next <= BatchEnd /\ next' = next + 1
      /\ UNCHANGED <<l2_block, pc, start, attempts, received, tx_index_cursor,
                     pg_txs, pg_logs, nextId, block_row, aborts>>
    BY DEF Number
<1>3. next \in 1 .. Len(l2_block) /\ start < next
    BY <1>1, <1>2 DEF Progress
<1>4. tx.eth \in BOOLEAN /\ tx.gas_limit \in Nat /\ tx.gas_used \in Nat /\ tx.logs \in Nat
    BY <1>3, BlockElement
<1>5. BatchEnd' = BatchEnd /\ InsertedGas' = InsertedGas
    BY <1>2 DEF BatchEnd, InsertedGas
<1>6. Progress'
    BY <1>1, <1>2, <1>3, <1>5 DEF Progress
<1>7. Earlier' /\ InsertedLogs'
    BY <1>2 DEF Earlier, InsertedLogs
<1>8. TransactionsNumbered' /\ GasAccumulates' /\ LogsNumbered' /\ LogsLinked'
    BY <1>2 DEF TransactionsNumbered, GasAccumulates, LogsNumbered, LogsLinked
<1>9. CASE ~tx.eth
    <2>1. UNCHANGED <<txs_vec, logs_vec, log_index_cursor, cumulative_gas_used,
                      total_gas_limit>>
        BY <1>9 DEF Number
    <2>2. TypeOK'  BY <1>1, <1>2, <1>3, <2>1 DEF TypeOK
    <2>3. Cursors'  BY <1>2, <1>5, <2>1 DEF Cursors
    <2>4. Batch'
        <3>1. \A h : h \in (start + 1) .. (next - 1) => h \in (start + 1) .. (next' - 1)
            BY <1>1, <1>2
        <3> QED  BY <1>2, <1>5, <2>1, <3>1 DEF Batch
    <2>5. BatchLogs'  BY <1>2, <2>1 DEF BatchLogs
    <2> QED  BY <1>6, <1>7, <1>8, <2>2, <2>3, <2>4, <2>5
<1>10. CASE tx.eth
    <2> DEFINE e == [hash |-> next,
                     transaction_index |-> tx_index_cursor + T,
                     cumulative_gas_used |-> cumulative_gas_used + tx.gas_used]
    <2>1. /\ txs_vec' = Append(txs_vec, e)
          /\ logs_vec' = logs_vec \o LogsOf(next)
        BY <1>10 DEF Number, NumberingOf
    <2>0. /\ log_index_cursor' = log_index_cursor + tx.logs
           /\ cumulative_gas_used' = cumulative_gas_used + tx.gas_used
           /\ total_gas_limit' = total_gas_limit + tx.gas_limit
        BY <1>10 DEF Number
    <2>2. /\ tx_index_cursor \in Nat /\ log_index_cursor \in Nat
          /\ cumulative_gas_used \in Nat /\ total_gas_limit \in Nat
          /\ txs_vec \in Seq(Numbering) /\ logs_vec \in Seq(LogRow)
        BY DEF TypeOK
    <2>3. e \in Numbering  BY <1>1, <1>4, <2>2 DEF Numbering
    \* The batch, with the new transaction at its end.
    <2>4. /\ txs_vec' \in Seq(Numbering)
          /\ Len(txs_vec') = T + 1
          /\ \A k \in 1 .. T : txs_vec'[k] = txs_vec[k]
          /\ txs_vec'[T + 1] = e
        BY <1>1, <2>1, <2>2, <2>3, AppendProperties
    \* The logs, with those of the new transaction at their end.
    <2>5. LogsOf(next) \in Seq(LogRow) /\ Len(LogsOf(next)) = tx.logs
        BY <1>3, <1>10, NumberedIs
    <2>6. /\ logs_vec' \in Seq(LogRow)
          /\ Len(logs_vec') = G + tx.logs
          /\ \A j \in 1 .. G : logs_vec'[j] = logs_vec[j]
          /\ \A n \in 1 .. tx.logs : logs_vec'[G + n] = LogsOf(next)[n]
        BY <1>3, <1>10, NumberedIs
    <2>7. \A n \in 1 .. tx.logs :
              /\ LogsOf(next)[n] = [hash |-> next, tx_id |-> T + 1,
                                    transaction_index |-> tx_index_cursor + T,
                                    log_index |-> log_index_cursor + n - 1]
              /\ LogsOf(next)[n].tx_id = T + 1
        BY DEF LogsOf
    <2>8. tx_index_cursor = Len(pg_txs) /\ log_index_cursor = Len(pg_logs) + G
        BY <1>1, <1>2 DEF Cursors
    <2>9. TypeOK'
        <3>1. /\ log_index_cursor' \in Nat /\ cumulative_gas_used' \in Nat
              /\ total_gas_limit' \in Nat
            <4>1. \A a, b \in Nat : a + b \in Nat  OBVIOUS
            <4>2. /\ log_index_cursor \in Nat /\ cumulative_gas_used \in Nat
                  /\ total_gas_limit \in Nat
                BY <2>2
            <4> HIDE DEF tx, IInv
            <4> QED  BY <1>4, <2>0, <4>1, <4>2
        <3>2. next' \in 1 .. (Len(l2_block) + 1)  BY <1>1, <1>2, <1>3
        <3> QED  BY <1>2, <2>4, <2>6, <3>1, <3>2 DEF TypeOK
    <2>10. Cursors'
        <3>1. txs_vec' # << >>  BY <1>1, <2>2, <2>4, EmptySeq
        <3>2. cumulative_gas_used' = txs_vec'[Len(txs_vec')].cumulative_gas_used
            BY <2>4, <2>0
        <3>3. log_index_cursor' = Len(pg_logs') + Len(logs_vec')
            <4>1. Len(pg_logs') = Len(pg_logs)  BY <1>2
            <4>2. \A a, b, c \in Nat : (a + b) + c = a + (b + c)  OBVIOUS
            <4>3. Len(logs_vec') = G + tx.logs  BY <2>6
            <4>4. Len(pg_logs) \in Nat /\ G \in Nat /\ tx.logs \in Nat  BY <1>1, <1>4
            <4>5. (Len(pg_logs) + G) + tx.logs = Len(pg_logs) + (G + tx.logs)
                BY <4>2, <4>4
            <4>6. log_index_cursor' = (Len(pg_logs) + G) + tx.logs  BY <2>8, <2>0
            <4> QED  BY <4>1, <4>3, <4>5, <4>6
        <3> QED  BY <1>2, <2>8, <3>1, <3>2, <3>3 DEF Cursors
    <2>11. Batch'
        <3> SUFFICES ASSUME NEW k \in 1 .. (T + 1)
                     PROVE
            /\ txs_vec'[k].transaction_index = Len(pg_txs) + k - 1
            /\ txs_vec'[k].hash \in (start + 1) .. next
            /\ txs_vec'[k].hash <= Len(l2_block)
            /\ l2_block[txs_vec'[k].hash].eth
            /\ k > 1 => txs_vec'[k - 1].hash < txs_vec'[k].hash
            /\ txs_vec'[k].cumulative_gas_used =
                   (IF k = 1 THEN InsertedGas ELSE txs_vec'[k - 1].cumulative_gas_used)
                       + l2_block[txs_vec'[k].hash].gas_used
            <4>1. Len(txs_vec') = T + 1  BY <2>4
            <4>2. next' - 1 = next  BY <1>1, <1>2
            <4>3. UNCHANGED <<l2_block, pg_txs, start>>  BY <1>2
            <4> QED  BY <1>5, <4>1, <4>2, <4>3 DEF Batch
        <3>1. CASE k \in 1 .. T
            <4>1. txs_vec'[k] = txs_vec[k] /\ (k > 1 => txs_vec'[k - 1] = txs_vec[k - 1])
                <5>1. k > 1 => k - 1 \in 1 .. T  BY <1>1, <3>1
                <5> QED  BY <2>4, <3>1, <5>1
            <4>2. txs_vec[k].hash \in (start + 1) .. next
                BY <1>1, <3>1 DEF Batch
            <4>3. /\ txs_vec[k].transaction_index = Len(pg_txs) + k - 1
                  /\ txs_vec[k].hash <= Len(l2_block)
                  /\ l2_block[txs_vec[k].hash].eth
                  /\ k > 1 => txs_vec[k - 1].hash < txs_vec[k].hash
                  /\ txs_vec[k].cumulative_gas_used =
                         (IF k = 1 THEN InsertedGas ELSE txs_vec[k - 1].cumulative_gas_used)
                             + l2_block[txs_vec[k].hash].gas_used
                BY <3>1 DEF Batch
            <4>4. k = 1 \/ k > 1  BY <1>1
            <4> QED  BY <4>1, <4>2, <4>3, <4>4
        <3>2. CASE k = T + 1
            <4>1. txs_vec'[k] = e  BY <2>4, <3>2
            <4>2. CASE T = 0
                <5>1. txs_vec = << >>  BY <2>2, <4>2, EmptySeq
                <5>2. cumulative_gas_used = InsertedGas  BY <5>1 DEF Cursors
                <5> QED  BY <1>1, <1>2, <1>3, <1>10, <2>8, <3>2, <4>1, <4>2, <5>2
            <4>3. CASE T > 0
                <5>1. txs_vec # << >>  BY <4>3, EmptySeq
                <5>2. T \in 1 .. T /\ k - 1 = T  BY <1>1, <3>2, <4>3
                <5>3. txs_vec'[k - 1] = txs_vec[T]  BY <2>4, <5>2
                <5>4. cumulative_gas_used = txs_vec[T].cumulative_gas_used
                    BY <5>1 DEF Cursors
                <5>5. txs_vec[T].hash < next
                    <6>1. txs_vec[T].hash \in (start + 1) .. (next - 1)
                        BY <5>2 DEF Batch
                    <6> QED  BY <1>1, <6>1
                <5> QED  BY <1>1, <1>2, <1>3, <1>10, <2>8, <3>2, <4>1, <4>3, <5>3, <5>4, <5>5
            <4> QED  BY <1>1, <4>2, <4>3
        <3> QED  BY <1>1, <3>1, <3>2
    <2>12. BatchLogs'
        <3> SUFFICES ASSUME NEW j \in 1 .. (G + tx.logs)
                     PROVE
            /\ logs_vec'[j].log_index = Len(pg_logs) + j - 1
            /\ logs_vec'[j].tx_id \in 1 .. (T + 1)
            /\ logs_vec'[j].hash = txs_vec'[logs_vec'[j].tx_id].hash
            /\ logs_vec'[j].transaction_index = Len(pg_txs) + logs_vec'[j].tx_id - 1
            /\ j > 1 => logs_vec'[j - 1].tx_id <= logs_vec'[j].tx_id
            BY <1>2, <2>4, <2>6 DEF BatchLogs
        <3>1. \A i \in 1 .. G : logs_vec[i].tx_id \in 1 .. T
            BY DEF BatchLogs
        <3>2. CASE j \in 1 .. G
            <4>1. logs_vec'[j] = logs_vec[j] /\ (j > 1 => logs_vec'[j - 1] = logs_vec[j - 1])
                <5>1. j > 1 => j - 1 \in 1 .. G  BY <1>1, <3>2
                <5> QED  BY <2>6, <3>2, <5>1
            <4>2. logs_vec[j].tx_id \in 1 .. T  BY <3>1, <3>2
            <4>3. txs_vec'[logs_vec[j].tx_id] = txs_vec[logs_vec[j].tx_id]
                BY <2>4, <4>2
            <4>4. /\ logs_vec[j].log_index = Len(pg_logs) + j - 1
                  /\ logs_vec[j].hash = txs_vec[logs_vec[j].tx_id].hash
                  /\ logs_vec[j].transaction_index = Len(pg_txs) + logs_vec[j].tx_id - 1
                  /\ j > 1 => logs_vec[j - 1].tx_id <= logs_vec[j].tx_id
                BY <3>2 DEF BatchLogs
            <4>5. logs_vec[j].tx_id \in 1 .. (T + 1)  BY <1>1, <4>2
            <4> QED  BY <4>1, <4>3, <4>4, <4>5
        <3>3. ASSUME NEW n \in 1 .. tx.logs, j = G + n
              PROVE
            /\ logs_vec'[j].log_index = Len(pg_logs) + j - 1
            /\ logs_vec'[j].tx_id \in 1 .. (T + 1)
            /\ logs_vec'[j].hash = txs_vec'[logs_vec'[j].tx_id].hash
            /\ logs_vec'[j].transaction_index = Len(pg_txs) + logs_vec'[j].tx_id - 1
            /\ j > 1 => logs_vec'[j - 1].tx_id <= logs_vec'[j].tx_id
            <4>1. logs_vec'[j] = [hash |-> next, tx_id |-> T + 1,
                                  transaction_index |-> tx_index_cursor + T,
                                  log_index |-> log_index_cursor + n - 1]
                BY <2>6, <2>7, <3>3
            <4>2. /\ logs_vec'[j].log_index = Len(pg_logs) + j - 1
                  /\ logs_vec'[j].tx_id = T + 1
                  /\ logs_vec'[j].transaction_index = Len(pg_txs) + T
                  /\ logs_vec'[j].hash = txs_vec'[T + 1].hash
                BY <1>1, <2>4, <2>8, <3>3, <4>1
            <4>3. ASSUME j > 1 PROVE logs_vec'[j - 1].tx_id <= T + 1
                <5>1. CASE n = 1
                    <6>1. j - 1 \in 1 .. G  BY <1>1, <3>3, <4>3, <5>1
                    <6>2. logs_vec'[j - 1] = logs_vec[j - 1]  BY <2>6, <6>1
                    <6>3. logs_vec[j - 1].tx_id \in 1 .. T  BY <3>1, <6>1
                    <6> QED  BY <1>1, <6>2, <6>3
                <5>2. CASE n # 1
                    <6>1. n - 1 \in 1 .. tx.logs /\ j - 1 = G + (n - 1)
                        BY <1>1, <1>4, <3>3, <5>2
                    <6>2. logs_vec'[j - 1] = LogsOf(next)[n - 1]  BY <2>6, <6>1
                    <6>3. LogsOf(next)[n - 1].tx_id = T + 1  BY <2>7, <6>1
                    <6> QED  BY <1>1, <6>2, <6>3
                <5> QED  BY <5>1, <5>2
            <4> QED  BY <1>1, <4>2, <4>3
        <3>4. j \in 1 .. G \/ \E n \in 1 .. tx.logs : j = G + n
            BY <1>1, <1>4, SplitIndex
        <3> QED  BY <3>2, <3>3, <3>4
    <2> QED  BY <1>6, <1>7, <1>8, <2>9, <2>10, <2>11, <2>12
<1> QED  BY <1>4, <1>9, <1>10

-----------------------------------------------------------------------------
\* Inserting a batch.

\* What the rows of a batch hold.
LEMMA RowsOfBatch ==
    ASSUME IInv
    PROVE  /\ TxRows \in Seq(TxRow) /\ Len(TxRows) = Len(txs_vec)
           /\ \A k \in 1 .. Len(txs_vec) :
                  /\ TxRows[k].hash = txs_vec[k].hash
                  /\ TxRows[k].transaction_index = txs_vec[k].transaction_index
                  /\ TxRows[k].cumulative_gas_used = txs_vec[k].cumulative_gas_used
           /\ LogRows \in Seq(LogRow) /\ Len(LogRows) = Len(logs_vec)
           /\ \A j \in 1 .. Len(logs_vec) :
                  /\ LogRows[j].hash = logs_vec[j].hash
                  /\ LogRows[j].tx_id = TxRows[logs_vec[j].tx_id].id
                  /\ LogRows[j].transaction_index = logs_vec[j].transaction_index
                  /\ LogRows[j].log_index = logs_vec[j].log_index
<1> DEFINE T == Len(txs_vec)
           G == Len(logs_vec)
<1>1. TypeOK /\ BatchLogs  BY DEF IInv
<1>2. T \in Nat /\ G \in Nat /\ nextId \in Nat  BY <1>1, Lengths DEF TypeOK
<1>3. /\ \A k \in 1 .. T : txs_vec[k] \in Numbering
      /\ \A j \in 1 .. G : logs_vec[j] \in LogRow
    BY <1>1, RowTypes
<1>4. TxRows \in [1 .. T -> TxRow]
    <2> SUFFICES ASSUME NEW k \in 1 .. T
                 PROVE  [id |-> nextId + k - 1,
                         hash |-> txs_vec[k].hash,
                         transaction_index |-> txs_vec[k].transaction_index,
                         cumulative_gas_used |-> txs_vec[k].cumulative_gas_used] \in TxRow
        BY DEF TxRows
    <2>1. nextId + k - 1 \in Nat  BY <1>2
    <2>2. txs_vec[k] \in Numbering  BY <1>3
    <2> QED  BY <2>1, <2>2 DEF TxRow, Numbering
<1>5. \A k \in 1 .. T : TxRows[k] \in TxRow  BY <1>4
<1>6. \A j \in 1 .. G : logs_vec[j].tx_id \in 1 .. T  BY <1>1 DEF BatchLogs
<1>7. \A j \in 1 .. G : TxRows[logs_vec[j].tx_id].id \in Nat
    BY <1>5, <1>6 DEF TxRow
<1>8. \A j \in 1 .. G : LogRows[j] = [logs_vec[j] EXCEPT !.tx_id = TxRows[logs_vec[j].tx_id].id]
    BY DEF LogRows
<1>9. LogRows \in [1 .. G -> LogRow]
    <2> SUFFICES ASSUME NEW j \in 1 .. G
                 PROVE  [logs_vec[j] EXCEPT !.tx_id = TxRows[logs_vec[j].tx_id].id] \in LogRow
        BY DEF LogRows
    <2> HIDE DEF G
    <2>1. logs_vec[j] \in LogRow /\ TxRows[logs_vec[j].tx_id].id \in Nat  BY <1>3, <1>7
    <2> QED  BY <2>1 DEF LogRow
<1>10. \A j \in 1 .. G :
          /\ LogRows[j].hash = logs_vec[j].hash
          /\ LogRows[j].tx_id = TxRows[logs_vec[j].tx_id].id
          /\ LogRows[j].transaction_index = logs_vec[j].transaction_index
          /\ LogRows[j].log_index = logs_vec[j].log_index
    <2> TAKE j \in 1 .. G
    <2> HIDE DEF G
    <2>1. logs_vec[j] \in LogRow  BY <1>3
    <2>2. LogRows[j] = [logs_vec[j] EXCEPT !.tx_id = TxRows[logs_vec[j].tx_id].id]  BY <1>8
    <2> QED  BY <2>1, <2>2 DEF LogRow
<1>11. \A k \in 1 .. T :
          /\ TxRows[k].hash = txs_vec[k].hash
          /\ TxRows[k].transaction_index = txs_vec[k].transaction_index
          /\ TxRows[k].cumulative_gas_used = txs_vec[k].cumulative_gas_used
    BY DEF TxRows
<1>12. TxRows \in Seq(TxRow) /\ Len(TxRows) = T  BY <1>2, <1>4, FunctionSeq
<1>13. LogRows \in Seq(LogRow) /\ Len(LogRows) = G  BY <1>2, <1>9, FunctionSeq
<1> QED  BY <1>10, <1>11, <1>12, <1>13

\* What is inserted after the rows of earlier batches.
LEMMA InsertedIs ==
    ASSUME IInv, InsertBatch
    PROVE  /\ pg_txs' \in Seq(TxRow) /\ Len(pg_txs') = Len(pg_txs) + Len(txs_vec)
           /\ \A k \in 1 .. Len(pg_txs) : pg_txs'[k] = pg_txs[k]
           /\ \A k \in 1 .. Len(txs_vec) : pg_txs'[Len(pg_txs) + k] = TxRows[k]
           /\ pg_logs' \in Seq(LogRow) /\ Len(pg_logs') = Len(pg_logs) + Len(logs_vec)
           /\ \A j \in 1 .. Len(pg_logs) : pg_logs'[j] = pg_logs[j]
           /\ \A j \in 1 .. Len(logs_vec) : pg_logs'[Len(pg_logs) + j] = LogRows[j]
<1>1. TypeOK  BY DEF IInv
\* The rows of transactions, with those of the batch at their end.
<1>2. /\ pg_txs' \in Seq(TxRow) /\ Len(pg_txs') = Len(pg_txs) + Len(txs_vec)
      /\ \A k \in 1 .. Len(pg_txs) : pg_txs'[k] = pg_txs[k]
      /\ \A k \in 1 .. Len(txs_vec) : pg_txs'[Len(pg_txs) + k] = TxRows[k]
    <2>1. TxRows \in Seq(TxRow) /\ Len(TxRows) = Len(txs_vec)  BY RowsOfBatch
    <2>2. pg_txs \in Seq(TxRow)  BY <1>1 DEF TypeOK
    <2>3. pg_txs' = pg_txs \o TxRows  BY DEF InsertBatch
    <2>4. pg_txs' \in Seq(TxRow)
        BY <2>1, <2>2, <2>3, Concatenation
    <2>5. Len(pg_txs') = Len(pg_txs) + Len(TxRows)
        BY <2>1, <2>2, <2>3, ConcatProperties, Zenon
    <2>6. \A i \in 1 .. Len(pg_txs) : pg_txs'[i] = pg_txs[i]
        BY <2>1, <2>2, <2>3, Concatenation
    <2>7. \A i \in 1 .. Len(TxRows) : pg_txs'[Len(pg_txs) + i] = TxRows[i]
        BY <2>1, <2>2, <2>3, Concatenation
    <2> QED  BY <2>1, <2>4, <2>5, <2>6, <2>7
\* The rows of logs likewise.
<1>3. /\ pg_logs' \in Seq(LogRow) /\ Len(pg_logs') = Len(pg_logs) + Len(logs_vec)
      /\ \A j \in 1 .. Len(pg_logs) : pg_logs'[j] = pg_logs[j]
      /\ \A j \in 1 .. Len(logs_vec) : pg_logs'[Len(pg_logs) + j] = LogRows[j]
    <2>1. LogRows \in Seq(LogRow) /\ Len(LogRows) = Len(logs_vec)  BY RowsOfBatch
    <2>2. pg_logs \in Seq(LogRow)  BY <1>1 DEF TypeOK
    <2>3. pg_logs' = pg_logs \o LogRows  BY DEF InsertBatch
    <2>4. pg_logs' \in Seq(LogRow)
        BY <2>1, <2>2, <2>3, Concatenation
    <2>5. Len(pg_logs') = Len(pg_logs) + Len(LogRows)
        BY <2>1, <2>2, <2>3, ConcatProperties, Zenon
    <2>6. \A i \in 1 .. Len(pg_logs) : pg_logs'[i] = pg_logs[i]
        BY <2>1, <2>2, <2>3, Concatenation
    <2>7. \A i \in 1 .. Len(LogRows) : pg_logs'[Len(pg_logs) + i] = LogRows[i]
        BY <2>1, <2>2, <2>3, Concatenation
    <2> QED  BY <2>1, <2>4, <2>5, <2>6, <2>7
<1> QED  BY <1>2, <1>3

LEMMA InsertInvariant == IInv /\ InsertBatch => IInv'
<1> SUFFICES ASSUME IInv, InsertBatch PROVE IInv'
    OBVIOUS
<1> DEFINE T == Len(txs_vec)
           G == Len(logs_vec)
           P == Len(pg_txs)
           Q == Len(pg_logs)
<1>1. TypeOK  BY DEF IInv
<1>2. /\ T \in Nat /\ G \in Nat /\ P \in Nat /\ Q \in Nat
      /\ Len(l2_block) \in Nat /\ start \in Nat /\ next \in Nat
      /\ BatchEnd \in start .. Len(l2_block)
    BY <1>1, Lengths DEF TypeOK
<1>3. /\ pc = "insert" /\ start' = BatchEnd /\ received' = {}
      /\ txs_vec' = << >> /\ logs_vec' = << >>
      /\ pc' = (IF BatchEnd = Len(l2_block) THEN "commit" ELSE "filter")
      /\ nextId' = nextId + T
      /\ UNCHANGED <<l2_block, attempts, next, tx_index_cursor, log_index_cursor,
                     cumulative_gas_used, total_gas_limit, block_row, aborts>>
    BY DEF InsertBatch, cursorVars
<1>4. start < next /\ next = BatchEnd + 1  BY <1>3 DEF IInv, Progress
<1>5. /\ txs_vec' \in Seq(Numbering) /\ Len(txs_vec') = 0
      /\ logs_vec' \in Seq(LogRow) /\ Len(logs_vec') = 0
    BY <1>3, EmptySeq
<1>6. /\ pg_txs' \in Seq(TxRow) /\ Len(pg_txs') = P + T
      /\ \A k \in 1 .. P : pg_txs'[k] = pg_txs[k]
      /\ \A k \in 1 .. T : pg_txs'[P + k] = TxRows[k]
    BY InsertedIs
<1>7. /\ pg_logs' \in Seq(LogRow) /\ Len(pg_logs') = Q + G
      /\ \A j \in 1 .. Q : pg_logs'[j] = pg_logs[j]
      /\ \A j \in 1 .. G : pg_logs'[Q + j] = LogRows[j]
    BY InsertedIs
<1>8. \A k \in 1 .. T :
          /\ pg_txs'[P + k].hash = txs_vec[k].hash
          /\ pg_txs'[P + k].transaction_index = txs_vec[k].transaction_index
          /\ pg_txs'[P + k].cumulative_gas_used = txs_vec[k].cumulative_gas_used
    BY <1>6, RowsOfBatch
<1>9. \A j \in 1 .. G :
          /\ pg_logs'[Q + j].hash = logs_vec[j].hash
          /\ pg_logs'[Q + j].tx_id = pg_txs'[P + logs_vec[j].tx_id].id
          /\ pg_logs'[Q + j].transaction_index = logs_vec[j].transaction_index
          /\ pg_logs'[Q + j].log_index = logs_vec[j].log_index
    <2>1. \A j \in 1 .. G : logs_vec[j].tx_id \in 1 .. T  BY DEF IInv, BatchLogs
    <2> QED  BY <1>6, <1>7, <2>1, RowsOfBatch
<1>10. \A k \in 1 .. (P + T) : k \in 1 .. P \/ \E n \in 1 .. T : k = P + n
    BY <1>2, SplitIndex
<1>11. \A j \in 1 .. (Q + G) : j \in 1 .. Q \/ \E n \in 1 .. G : j = Q + n
    BY <1>2, SplitIndex
<1>12. \A k \in 1 .. T :
           /\ txs_vec[k].transaction_index = P + k - 1
           /\ txs_vec[k].hash \in (start + 1) .. BatchEnd
           /\ l2_block[txs_vec[k].hash].eth
           /\ k > 1 => txs_vec[k - 1].hash < txs_vec[k].hash
           /\ txs_vec[k].cumulative_gas_used =
                  (IF k = 1 THEN InsertedGas ELSE txs_vec[k - 1].cumulative_gas_used)
                      + l2_block[txs_vec[k].hash].gas_used
    <2>1. next - 1 = BatchEnd  BY <1>2, <1>4
    <2> QED  BY <2>1 DEF IInv, Batch
<1>13. TypeOK'
    <2>1. nextId' \in Nat  BY <1>1, <1>2, <1>3 DEF TypeOK
    <2>2. start' \in 0 .. Len(l2_block)  BY <1>2, <1>3
    <2> QED  BY <1>1, <1>3, <1>5, <1>6, <1>7, <2>1, <2>2 DEF TypeOK, Step
<1>14. Progress'
    BY <1>2, <1>3, <1>4 DEF Progress
<1>15. Cursors'
    <2>1. /\ log_index_cursor = Q + G /\ tx_index_cursor = P + T
          /\ cumulative_gas_used = IF txs_vec = << >> THEN InsertedGas
                                   ELSE txs_vec[T].cumulative_gas_used
        BY <1>3 DEF IInv, Cursors
    <2>2. log_index_cursor' = Len(pg_logs') + Len(logs_vec')
        BY <1>2, <1>3, <1>5, <1>7, <2>1
    <2>3. pc' # "insert" /\ tx_index_cursor' = Len(pg_txs') + 0
        BY <1>2, <1>3, <1>6, <2>1
    <2>4. cumulative_gas_used' = InsertedGas'
        <3>1. pg_txs \in Seq(TxRow) /\ txs_vec \in Seq(Numbering)  BY <1>1 DEF TypeOK
        <3>2. CASE T = 0
            <4>1. txs_vec = << >>  BY <3>1, <3>2, EmptySeq
            <4>2. Len(pg_txs') = P  BY <1>2, <1>6, <3>2
            <4>3. CASE P = 0
                <5>1. pg_txs = << >> /\ pg_txs' = << >>
                    BY <1>6, <3>1, <4>2, <4>3, EmptySeq
                <5> QED  BY <1>3, <2>1, <4>1, <5>1 DEF InsertedGas
            <4>4. CASE P # 0
                <5>1. pg_txs # << >> /\ pg_txs' # << >>
                    BY <1>6, <3>1, <4>2, <4>4, EmptySeq
                <5>2. P \in 1 .. P  BY <1>2, <4>4
                <5>3. pg_txs'[P] = pg_txs[P]  BY <1>6, <5>2
                <5> QED  BY <1>3, <2>1, <4>1, <4>2, <5>1, <5>3 DEF InsertedGas
            <4> QED  BY <4>3, <4>4
        <3>3. CASE T # 0
            <4>1. txs_vec # << >>  BY <3>1, <3>3, EmptySeq
            <4>2. T \in 1 .. T /\ P + T # 0  BY <1>2, <3>3
            <4>3. pg_txs' # << >>  BY <1>6, <4>2, EmptySeq
            <4>4. pg_txs'[P + T].cumulative_gas_used = txs_vec[T].cumulative_gas_used
                BY <1>8, <4>2
            <4> QED  BY <1>3, <1>6, <2>1, <4>1, <4>3, <4>4 DEF InsertedGas
        <3> QED  BY <3>2, <3>3
    <2> QED  BY <1>3, <2>2, <2>3, <2>4 DEF Cursors
<1>16. Batch' /\ BatchLogs'  BY <1>5 DEF Batch, BatchLogs
<1>17. Earlier'
    <2> SUFFICES ASSUME NEW k \in 1 .. (P + T) PROVE pg_txs'[k].hash \in 1 .. BatchEnd
        BY <1>3, <1>6 DEF Earlier
    <2>1. CASE k \in 1 .. P
        <3>1. pg_txs'[k].hash \in 1 .. start  BY <1>6, <2>1 DEF IInv, Earlier
        <3> QED  BY <1>2, <3>1
    <2>2. ASSUME NEW n \in 1 .. T, k = P + n PROVE pg_txs'[k].hash \in 1 .. BatchEnd
        <3>1. pg_txs'[k].hash \in (start + 1) .. BatchEnd  BY <1>8, <1>12, <2>2
        <3> QED  BY <1>2, <3>1
    <2> QED  BY <1>10, <2>1, <2>2
<1>18. InsertedLogs'
    <2> SUFFICES ASSUME NEW j \in 1 .. (Q + G)
                 PROVE  pg_logs'[j].transaction_index < P + T
        BY <1>6, <1>7 DEF InsertedLogs
    <2>1. CASE j \in 1 .. Q
        <3>1. pg_logs[j] \in LogRow  BY <1>1, <2>1, RowTypes
        <3>2. pg_logs[j].transaction_index \in Nat  BY <3>1 DEF LogRow
        <3>3. pg_logs[j].transaction_index < P  BY <2>1 DEF IInv, InsertedLogs
        <3>4. pg_logs'[j] = pg_logs[j]  BY <1>7, <2>1
        <3> QED  BY <1>2, <3>2, <3>3, <3>4
    <2>2. ASSUME NEW n \in 1 .. G, j = Q + n
          PROVE  pg_logs'[j].transaction_index < P + T
        <3>1. logs_vec[n].tx_id \in 1 .. T
              /\ logs_vec[n].transaction_index = P + logs_vec[n].tx_id - 1
            BY DEF IInv, BatchLogs
        <3>2. pg_logs'[j].transaction_index = logs_vec[n].transaction_index  BY <1>9, <2>2
        <3> QED  BY <1>2, <3>1, <3>2
    <2> QED  BY <1>11, <2>1, <2>2
<1>19. TransactionsNumbered'
    <2> SUFFICES ASSUME NEW k \in 1 .. (P + T)
                 PROVE  /\ pg_txs'[k].transaction_index = k - 1
                        /\ l2_block[pg_txs'[k].hash].eth
                        /\ k > 1 => pg_txs'[k - 1].hash < pg_txs'[k].hash
        BY <1>3, <1>6 DEF TransactionsNumbered
    <2>1. CASE k \in 1 .. P
        <3>1. k > 1 => k - 1 \in 1 .. P  BY <1>2, <2>1
        <3>2. pg_txs'[k] = pg_txs[k] /\ (k > 1 => pg_txs'[k - 1] = pg_txs[k - 1])
            BY <1>6, <2>1, <3>1
        <3> QED  BY <2>1, <3>2 DEF IInv, TransactionsNumbered
    <2>2. ASSUME NEW n \in 1 .. T, k = P + n
          PROVE  /\ pg_txs'[k].transaction_index = k - 1
                 /\ l2_block[pg_txs'[k].hash].eth
                 /\ k > 1 => pg_txs'[k - 1].hash < pg_txs'[k].hash
        <3>1. /\ pg_txs'[k].transaction_index = P + n - 1
              /\ pg_txs'[k].hash = txs_vec[n].hash
              /\ txs_vec[n].hash \in (start + 1) .. BatchEnd
              /\ l2_block[txs_vec[n].hash].eth
            BY <1>8, <1>12, <2>2
        <3>2. ASSUME k > 1 PROVE pg_txs'[k - 1].hash < pg_txs'[k].hash
            <4>1. CASE n = 1
                <5>1. k - 1 = P /\ P \in 1 .. P  BY <1>2, <2>2, <3>2, <4>1
                <5>2. pg_txs'[k - 1].hash \in 1 .. start
                    BY <1>6, <5>1 DEF IInv, Earlier
                <5>3. \A a \in 1 .. start, b \in (start + 1) .. BatchEnd : a < b  BY <1>2
                <5> QED  BY <3>1, <5>2, <5>3
            <4>2. CASE n # 1
                <5>1. n - 1 \in 1 .. T /\ k - 1 = P + (n - 1) /\ n > 1
                    BY <1>2, <2>2, <4>2
                <5>2. pg_txs'[k - 1].hash = txs_vec[n - 1].hash  BY <1>8, <5>1
                <5>3. txs_vec[n - 1].hash < txs_vec[n].hash  BY <1>12, <5>1
                <5> QED  BY <3>1, <5>2, <5>3
            <4> QED  BY <4>1, <4>2
        <3>3. P + n - 1 = k - 1  BY <2>2
        <3> QED  BY <3>1, <3>2, <3>3
    <2> QED  BY <1>10, <2>1, <2>2
<1>20. GasAccumulates'
    <2> SUFFICES ASSUME NEW k \in 1 .. (P + T)
                 PROVE  pg_txs'[k].cumulative_gas_used =
                            (IF k = 1 THEN 0 ELSE pg_txs'[k - 1].cumulative_gas_used)
                                + l2_block[pg_txs'[k].hash].gas_used
        BY <1>3, <1>6 DEF GasAccumulates
    <2>1. CASE k \in 1 .. P
        <3>1. k # 1 => k - 1 \in 1 .. P  BY <1>2, <2>1
        <3>2. pg_txs'[k] = pg_txs[k] /\ (k # 1 => pg_txs'[k - 1] = pg_txs[k - 1])
            BY <1>6, <2>1, <3>1
        <3> QED  BY <2>1, <3>2 DEF IInv, GasAccumulates
    <2>2. ASSUME NEW n \in 1 .. T, k = P + n
          PROVE  pg_txs'[k].cumulative_gas_used =
                     (IF k = 1 THEN 0 ELSE pg_txs'[k - 1].cumulative_gas_used)
                         + l2_block[pg_txs'[k].hash].gas_used
        <3>1. /\ pg_txs'[k].hash = txs_vec[n].hash
              /\ pg_txs'[k].cumulative_gas_used =
                     (IF n = 1 THEN InsertedGas ELSE txs_vec[n - 1].cumulative_gas_used)
                         + l2_block[txs_vec[n].hash].gas_used
            BY <1>8, <1>12, <2>2
        <3>2. CASE n = 1
            <4>1. pg_txs \in Seq(TxRow)  BY <1>1 DEF TypeOK
            <4>2. InsertedGas = IF k = 1 THEN 0 ELSE pg_txs'[k - 1].cumulative_gas_used
                <5>1. CASE P = 0
                    <6>1. k = 1 /\ pg_txs = << >>  BY <2>2, <3>2, <4>1, <5>1, EmptySeq
                    <6> QED  BY <6>1 DEF InsertedGas
                <5>2. CASE P # 0
                    <6>1. k # 1 /\ k - 1 = P /\ P \in 1 .. P  BY <1>2, <2>2, <3>2, <5>2
                    <6>2. pg_txs # << >>  BY <5>2, EmptySeq
                    <6>3. pg_txs'[k - 1] = pg_txs[P]  BY <1>6, <6>1
                    <6> QED  BY <6>1, <6>2, <6>3 DEF InsertedGas
                <5> QED  BY <5>1, <5>2
            <4> QED  BY <3>1, <3>2, <4>2
        <3>3. CASE n # 1
            <4>1. n - 1 \in 1 .. T /\ k - 1 = P + (n - 1) /\ k # 1
                BY <1>2, <2>2, <3>3
            <4>2. pg_txs'[k - 1].cumulative_gas_used = txs_vec[n - 1].cumulative_gas_used
                BY <1>8, <4>1
            <4> QED  BY <3>1, <3>3, <4>1, <4>2
        <3> QED  BY <3>2, <3>3
    <2> QED  BY <1>10, <2>1, <2>2
<1>21. LogsNumbered'
    <2> SUFFICES ASSUME NEW j \in 1 .. (Q + G)
                 PROVE  /\ pg_logs'[j].log_index = j - 1
                        /\ j > 1 => pg_logs'[j - 1].transaction_index
                                        <= pg_logs'[j].transaction_index
        BY <1>7 DEF LogsNumbered
    <2>1. CASE j \in 1 .. Q
        <3>1. j > 1 => j - 1 \in 1 .. Q  BY <1>2, <2>1
        <3>2. pg_logs'[j] = pg_logs[j] /\ (j > 1 => pg_logs'[j - 1] = pg_logs[j - 1])
            BY <1>7, <2>1, <3>1
        <3> QED  BY <2>1, <3>2 DEF IInv, LogsNumbered
    <2>2. ASSUME NEW n \in 1 .. G, j = Q + n
          PROVE  /\ pg_logs'[j].log_index = j - 1
                 /\ j > 1 => pg_logs'[j - 1].transaction_index
                                 <= pg_logs'[j].transaction_index
        <3>1. /\ logs_vec[n].log_index = Q + n - 1
              /\ logs_vec[n].tx_id \in 1 .. T
              /\ logs_vec[n].transaction_index = P + logs_vec[n].tx_id - 1
              /\ n > 1 => logs_vec[n - 1].tx_id <= logs_vec[n].tx_id
            BY DEF IInv, BatchLogs
        <3>2. /\ pg_logs'[j].log_index = logs_vec[n].log_index
              /\ pg_logs'[j].transaction_index = logs_vec[n].transaction_index
            BY <1>9, <2>2
        <3>3. ASSUME j > 1
              PROVE  pg_logs'[j - 1].transaction_index <= pg_logs'[j].transaction_index
            <4>1. CASE n = 1
                <5>1. j - 1 = Q /\ Q \in 1 .. Q  BY <1>2, <2>2, <3>3, <4>1
                <5>2. pg_logs'[j - 1] = pg_logs[Q]  BY <1>7, <5>1
                <5>3. pg_logs[Q].transaction_index < P  BY <5>1 DEF IInv, InsertedLogs
                <5>4. pg_logs[Q] \in LogRow  BY <1>1, <5>1, RowTypes
                <5>5. pg_logs[Q].transaction_index \in Nat  BY <5>4 DEF LogRow
                <5>6. \A a, b \in Nat : \A i \in 1 .. T : a < b => a <= b + i - 1
                    BY <1>2
                <5> QED  BY <1>2, <3>1, <3>2, <5>2, <5>3, <5>5, <5>6
            <4>2. CASE n # 1
                <5>1. n - 1 \in 1 .. G /\ j - 1 = Q + (n - 1) /\ n > 1
                    BY <1>2, <2>2, <4>2
                <5>2. pg_logs'[j - 1].transaction_index = logs_vec[n - 1].transaction_index
                    BY <1>9, <5>1
                <5>3. /\ logs_vec[n - 1].tx_id \in 1 .. T
                      /\ logs_vec[n - 1].transaction_index = P + logs_vec[n - 1].tx_id - 1
                    BY <5>1 DEF IInv, BatchLogs
                <5>4. \A a, b, c \in Nat : b <= c => a + b - 1 <= a + c - 1  OBVIOUS
                <5>5. \A a \in 1 .. T : a \in Nat  OBVIOUS
                <5> QED  BY <1>2, <3>1, <3>2, <5>1, <5>2, <5>3, <5>4, <5>5
            <4> QED  BY <4>1, <4>2
        <3>4. Q + n - 1 = j - 1  BY <2>2
        <3> QED  BY <3>1, <3>2, <3>3, <3>4
    <2> QED  BY <1>11, <2>1, <2>2
<1>22. LogsLinked'
    <2> SUFFICES ASSUME NEW j \in 1 .. (Q + G)
                 PROVE  \E k \in 1 .. (P + T) :
                            /\ pg_txs'[k].id = pg_logs'[j].tx_id
                            /\ pg_txs'[k].hash = pg_logs'[j].hash
                            /\ pg_txs'[k].transaction_index = pg_logs'[j].transaction_index
        BY <1>6, <1>7 DEF LogsLinked
    <2>1. CASE j \in 1 .. Q
        <3>1. PICK k \in 1 .. P : /\ pg_txs[k].id = pg_logs[j].tx_id
                                  /\ pg_txs[k].hash = pg_logs[j].hash
                                  /\ pg_txs[k].transaction_index = pg_logs[j].transaction_index
            BY <2>1 DEF IInv, LogsLinked
        <3>2. pg_txs'[k] = pg_txs[k] /\ pg_logs'[j] = pg_logs[j]  BY <1>6, <1>7, <2>1
        <3>3. k \in 1 .. (P + T)  BY <1>2
        <3> QED  BY <3>1, <3>2, <3>3
    <2>2. ASSUME NEW n \in 1 .. G, j = Q + n
          PROVE  \E k \in 1 .. (P + T) :
                     /\ pg_txs'[k].id = pg_logs'[j].tx_id
                     /\ pg_txs'[k].hash = pg_logs'[j].hash
                     /\ pg_txs'[k].transaction_index = pg_logs'[j].transaction_index
        <3> DEFINE m == logs_vec[n].tx_id
        <3>1. /\ m \in 1 .. T
              /\ logs_vec[n].hash = txs_vec[m].hash
              /\ logs_vec[n].transaction_index = P + m - 1
            BY DEF IInv, BatchLogs
        <3>2. /\ pg_logs'[j].hash = logs_vec[n].hash
              /\ pg_logs'[j].tx_id = pg_txs'[P + m].id
              /\ pg_logs'[j].transaction_index = logs_vec[n].transaction_index
            BY <1>9, <2>2
        <3>3. /\ pg_txs'[P + m].hash = txs_vec[m].hash
              /\ pg_txs'[P + m].transaction_index = P + m - 1
            BY <1>8, <1>12, <3>1
        <3>4. P + m \in 1 .. (P + T)
            <4>1. \A a, b \in Nat : \A i \in 1 .. b : a + i \in 1 .. (a + b)  OBVIOUS
            <4> QED  BY <1>2, <3>1, <4>1
        <3> QED  BY <3>1, <3>2, <3>3, <3>4
    <2> QED  BY <1>11, <2>1, <2>2
<1> QED  BY <1>13, <1>14, <1>15, <1>16, <1>17, <1>18, <1>19, <1>20, <1>21, <1>22 DEF IInv

-----------------------------------------------------------------------------
\* A committed block is whole. The logs of the Postgres transaction and those of
\* the batch are looked at as one sequence, which inserting a batch leaves alone.

LogHash(j) == IF j <= Len(pg_logs) THEN pg_logs[j].hash ELSE logs_vec[j - Len(pg_logs)].hash

\* What is numbered of transaction i: its logs, once it is its turn.
Counted(i) == IF i < next /\ l2_block[i].eth THEN l2_block[i].logs ELSE 0

\* They follow one another.
Follow(i, a) ==
    /\ a + Counted(i) <= Len(pg_logs) + Len(logs_vec)
    /\ \A j \in 1 .. Len(pg_logs) + Len(logs_vec) : LogHash(j) = i <=> a < j /\ j <= a + Counted(i)

HasRow(i) ==
    \/ \E k \in 1 .. Len(pg_txs) : pg_txs[k].hash = i
    \/ \E k \in 1 .. Len(txs_vec) : txs_vec[k].hash = i

Whole ==
    /\ \A i \in 1 .. Len(l2_block) :
         /\ i < next /\ l2_block[i].eth => HasRow(i)
         /\ \E a \in Nat : Follow(i, a)
    /\ pc \in {"commit", "done"} => next = Len(l2_block) + 1
    /\ pc = "done" => block_row.gas_used = cumulative_gas_used

LEMMA WholeFresh == l2_block \in Blocks /\ Fresh => Whole
<1> SUFFICES ASSUME l2_block \in Blocks, Fresh PROVE Whole
    OBVIOUS
<1>1. /\ l2_block \in Seq(L2Transaction) /\ next = 1 /\ pc = FirstStep(l2_block)
      /\ logs_vec = << >> /\ pg_logs = << >>
    BY PackingAssumption DEF Fresh
<1>2. Len(logs_vec) = 0 /\ Len(pg_logs) = 0 /\ Len(l2_block) \in Nat
      /\ (l2_block = << >> => Len(l2_block) = 0)
    BY <1>1, EmptySeq, LenProperties
<1>3. \A i \in 1 .. Len(l2_block) : ~(i < next) /\ Counted(i) = 0
    BY <1>1, <1>2 DEF Counted
<1>4. \A i \in 1 .. Len(l2_block) : Follow(i, 0)
    BY <1>2, <1>3 DEF Follow
<1>5. pc # "done" /\ (pc = "commit" => next = Len(l2_block) + 1)
    BY <1>1, <1>2 DEF FirstStep
<1> QED  BY <1>3, <1>4, <1>5 DEF Whole

LEMMA WholeAbort == IInv /\ Abort => Whole'
<1> SUFFICES ASSUME IInv, Abort PROVE Whole'
    OBVIOUS
<1>1. l2_block' \in Blocks /\ Fresh'
    BY DEF IInv, TypeOK, Abort, Fresh
<1>2. (l2_block \in Blocks /\ Fresh => Whole)'
    BY WholeFresh, PTL
<1> QED  BY <1>1, <1>2

\* Steps that number and insert nothing.
LEMMA WholeStays ==
    ASSUME IInv, Whole, UNCHANGED <<l2_block, next, txs_vec, logs_vec, pgVars>>,
           pc' \in {"commit", "done"} => pc \in {"commit", "done"},
           pc' = "done" => block_row'.gas_used = cumulative_gas_used'
    PROVE  Whole'
BY DEF Whole, HasRow, Follow, Counted, LogHash, pgVars

LEMMA WholeMoves ==
    ASSUME IInv, Whole, Filtered \/ Numbered \/ Commit \/ \E i \in 1 .. Len(l2_block) : Receipt(i) \/ NoReceipt(i)
    PROVE  Whole'
<1>1. UNCHANGED <<l2_block, next, txs_vec, logs_vec, pgVars, cumulative_gas_used>>
    BY DEF Filtered, Numbered, Commit, Receipt, NoReceipt, batchVars, cursorVars
<1>2. /\ pc' \in {"commit", "done"} => pc \in {"commit", "done"}
      /\ pc' = "done" => block_row'.gas_used = cumulative_gas_used
    <2>1. CASE Commit
        BY <2>1 DEF Commit
    <2>2. CASE Filtered \/ Numbered
        BY <2>2 DEF Filtered, Numbered
    <2>3. CASE \E i \in 1 .. Len(l2_block) : Receipt(i) \/ NoReceipt(i)
        BY <2>3 DEF Receipt, NoReceipt
    <2> QED  BY <2>1, <2>2, <2>3
<1> QED  BY <1>1, <1>2, WholeStays

LEMMA WholeInsert == IInv /\ Whole /\ InsertBatch => Whole'
<1> SUFFICES ASSUME IInv, Whole, InsertBatch PROVE Whole'
    OBVIOUS
<1> DEFINE T == Len(txs_vec)
           G == Len(logs_vec)
           P == Len(pg_txs)
           Q == Len(pg_logs)
<1>1. /\ T \in Nat /\ G \in Nat /\ P \in Nat /\ Q \in Nat /\ Len(l2_block) \in Nat
    BY Lengths DEF IInv
<1>2. /\ pc = "insert" /\ pc' = (IF BatchEnd = Len(l2_block) THEN "commit" ELSE "filter")
      /\ logs_vec' = << >> /\ Len(logs_vec') = 0 /\ UNCHANGED <<l2_block, next>>
    BY EmptySeq DEF InsertBatch
<1>3. next = BatchEnd + 1
    BY <1>2 DEF IInv, Progress
<1>4. /\ Len(pg_txs') = P + T
      /\ \A k \in 1 .. P : pg_txs'[k].hash = pg_txs[k].hash
      /\ \A k \in 1 .. T : pg_txs'[P + k].hash = txs_vec[k].hash
    BY InsertedIs, RowsOfBatch
<1>5. /\ Len(pg_logs') = Q + G
      /\ \A j \in 1 .. Q : pg_logs'[j].hash = pg_logs[j].hash
      /\ \A j \in 1 .. G : pg_logs'[Q + j].hash = logs_vec[j].hash
    BY InsertedIs, RowsOfBatch
<1>6. \A i : HasRow(i) => HasRow(i)'
    <2> SUFFICES ASSUME NEW i, HasRow(i) PROVE \E k \in 1 .. Len(pg_txs') : pg_txs'[k].hash = i
        BY DEF HasRow
    <2>1. CASE \E k \in 1 .. P : pg_txs[k].hash = i
        <3>1. PICK k \in 1 .. P : pg_txs[k].hash = i
            BY <2>1
        <3>2. k \in 1 .. P + T
            BY <1>1
        <3> QED  BY <1>4, <3>1, <3>2
    <2>2. CASE \E k \in 1 .. T : txs_vec[k].hash = i
        <3>1. PICK k \in 1 .. T : txs_vec[k].hash = i
            BY <2>2
        <3>2. P + k \in 1 .. P + T
            BY <1>1
        <3> QED  BY <1>4, <3>1, <3>2
    <2> QED  BY <2>1, <2>2 DEF HasRow
<1> HIDE DEF G, Q
<1>7. \A j \in 1 .. Q + G : LogHash(j)' = LogHash(j)
    <2> SUFFICES ASSUME NEW j \in 1 .. Q + G PROVE pg_logs'[j].hash = LogHash(j)
        BY <1>1, <1>5 DEF LogHash
    <2>1. CASE j \in 1 .. Q
        BY <1>1, <1>5, <2>1 DEF LogHash, Q
    <2>2. ASSUME NEW k \in 1 .. G, j = Q + k PROVE pg_logs'[j].hash = LogHash(j)
        <3>1. ~(j <= Q) /\ j - Q = k
            BY <1>1, <2>2
        <3>2. LogHash(j) = logs_vec[j - Q].hash
            BY <3>1 DEF LogHash, Q
        <3> QED  BY <1>5, <2>2, <3>1, <3>2
    <2> QED  BY <1>1, <2>1, <2>2, SplitIndex
<1>8. \A i \in 1 .. Len(l2_block) : Counted(i)' = Counted(i)
    BY <1>2 DEF Counted
<1>9. Len(pg_logs') + Len(logs_vec') = Q + G
    BY <1>1, <1>2, <1>5
<1>10. \A i \in 1 .. Len(l2_block), a \in Nat : Follow(i, a) => Follow(i, a)'
    <2> SUFFICES ASSUME NEW i \in 1 .. Len(l2_block), NEW a \in Nat, Follow(i, a) PROVE Follow(i, a)'
        OBVIOUS
    <2>1. /\ a + Counted(i) <= Q + G
          /\ \A j \in 1 .. Q + G : LogHash(j) = i <=> a < j /\ j <= a + Counted(i)
        BY DEF Follow, Q, G
    <2> QED  BY <1>7, <1>8, <1>9, <2>1 DEF Follow
<1>11. pc' = "commit" => next' = Len(l2_block') + 1
    BY <1>2, <1>3
<1> QED  BY <1>2, <1>6, <1>10, <1>11 DEF Whole

LEMMA WholeNumber == IInv /\ Whole /\ Number => Whole'
<1> SUFFICES ASSUME IInv, Whole, Number PROVE Whole'
    OBVIOUS
<1> DEFINE Q == Len(pg_logs)
           L == Len(pg_logs) + Len(logs_vec)
<1>1. /\ Len(logs_vec) \in Nat /\ Len(txs_vec) \in Nat /\ Q \in Nat /\ Len(l2_block) \in Nat
      /\ BatchEnd \in start .. Len(l2_block) /\ start \in Nat /\ next \in Nat
    BY Lengths DEF IInv, TypeOK
<1>2. /\ pc = "number" /\ pc' = pc /\ next <= BatchEnd /\ next' = next + 1
      /\ UNCHANGED <<l2_block, pg_txs, pg_logs>>
    BY DEF Number, pgVars
<1>3. next \in 1 .. Len(l2_block)
    BY <1>1, <1>2 DEF IInv, Progress
<1>4. CASE ~l2_block[next].eth
    <2>1. UNCHANGED <<txs_vec, logs_vec>>
        BY <1>4 DEF Number
    <2>2. ASSUME NEW i \in 1 .. Len(l2_block)
          PROVE  /\ Counted(i)' = Counted(i)
                 /\ i < next' /\ l2_block[i].eth => i < next
        <3>1. i < next' <=> i < next \/ i = next
            BY <1>1, <1>2
        <3> QED  BY <1>2, <1>4, <3>1 DEF Counted
    <2> QED  BY <1>2, <2>1, <2>2 DEF Whole, HasRow, Follow, LogHash
<1>5. ASSUME NEW n \in 1 .. Len(l2_block), n = next, l2_block[n].eth PROVE Whole'
    <2> DEFINE many == l2_block[n].logs
    <2>1. many \in Nat
        BY BlockElement DEF IInv
    <2>2. /\ Len(logs_vec') = Len(logs_vec) + many
          /\ \A j \in 1 .. Len(logs_vec) : logs_vec'[j] = logs_vec[j]
          /\ \A j \in 1 .. many : logs_vec'[Len(logs_vec) + j].hash = n
        <3>1. \A j \in 1 .. many : LogsOf(n)[j].hash = n
            BY DEF LogsOf
        <3> QED  BY <1>5, <3>1, NumberedIs
    <2>3. /\ Len(txs_vec') = Len(txs_vec) + 1
          /\ \A k \in 1 .. Len(txs_vec) : txs_vec'[k] = txs_vec[k]
          /\ txs_vec'[Len(txs_vec) + 1].hash = n
        <3>1. txs_vec' = Append(txs_vec, NumberingOf(n)) /\ NumberingOf(n).hash = n
            BY <1>5 DEF Number, NumberingOf
        <3>2. txs_vec \in Seq(Numbering \cup {NumberingOf(n)})
            BY DEF IInv, TypeOK
        <3>3. NumberingOf(n) \in Numbering \cup {NumberingOf(n)}
            OBVIOUS
        <3> QED  BY <3>1, <3>2, <3>3, AppendProperties
    <2> HIDE DEF many
    <2>4. \A i \in 1 .. Len(l2_block) : i < next' /\ l2_block[i].eth => HasRow(i)'
        <3> SUFFICES ASSUME NEW i \in 1 .. Len(l2_block), i < next', l2_block[i].eth PROVE HasRow(i)'
            OBVIOUS
        <3>1. CASE i < next
            <4>1. HasRow(i)
                BY <3>1 DEF Whole
            <4>2. CASE \E k \in 1 .. Len(pg_txs) : pg_txs[k].hash = i
                BY <1>2, <4>2 DEF HasRow
            <4>3. CASE \E k \in 1 .. Len(txs_vec) : txs_vec[k].hash = i
                <5>1. PICK k \in 1 .. Len(txs_vec) : txs_vec[k].hash = i
                    BY <4>3
                <5>2. k \in 1 .. Len(txs_vec')
                    BY <1>1, <2>3
                <5> QED  BY <2>3, <5>1, <5>2 DEF HasRow
            <4> QED  BY <4>1, <4>2, <4>3 DEF HasRow
        <3>2. CASE i = n
            <4>1. Len(txs_vec) + 1 \in 1 .. Len(txs_vec')
                BY <1>1, <2>3
            <4> QED  BY <2>3, <3>2, <4>1 DEF HasRow
        <3> QED  BY <1>1, <1>2, <1>5, <3>1, <3>2
    \* The logs of the transaction come last.
    <2>5. Len(pg_logs') + Len(logs_vec') = L + many /\ L \in Nat
        BY <1>1, <1>2, <2>1, <2>2
    <2>6. \A j \in 1 .. L : LogHash(j)' = LogHash(j)
        <3> SUFFICES ASSUME NEW j \in 1 .. L PROVE LogHash(j)' = LogHash(j)
            OBVIOUS
        <3>1. CASE j <= Q
            BY <1>2, <3>1 DEF LogHash
        <3>2. CASE ~(j <= Q)
            <4>1. j - Q \in 1 .. Len(logs_vec)
                BY <1>1, <3>2
            <4> QED  BY <1>2, <2>2, <3>2, <4>1 DEF LogHash
        <3> QED  BY <3>1, <3>2
    <2>7. \A j \in 1 .. L + many : L < j => LogHash(j)' = n
        <3> SUFFICES ASSUME NEW j \in 1 .. L + many, L < j PROVE LogHash(j)' = n
            OBVIOUS
        <3> DEFINE k == j - Q - Len(logs_vec)
        <3>1. ~(j <= Q) /\ k \in 1 .. many /\ j - Q = Len(logs_vec) + k
            BY <1>1, <2>1
        <3> HIDE DEF k, Q
        <3>2. logs_vec'[j - Q].hash = n
            BY <2>2, <3>1
        <3> QED  BY <1>2, <3>1, <3>2 DEF LogHash, Q
    <2> HIDE DEF L
    <2>8. ASSUME NEW i \in 1 .. Len(l2_block) PROVE \E a \in Nat : Follow(i, a)'
        <3>1. PICK a \in Nat : Follow(i, a)
            BY DEF Whole
        <3>2. a + Counted(i) <= L /\ \A j \in 1 .. L : LogHash(j) = i <=> a < j /\ j <= a + Counted(i)
            BY <3>1 DEF Follow, L
        <3>3. CASE i = n
            <4>1. Counted(i) = 0 /\ Counted(i)' = many
                BY <1>1, <1>2, <1>5, <3>3 DEF Counted, many
            <4>2. ASSUME NEW j \in 1 .. L + many
                  PROVE  LogHash(j)' = i <=> L < j /\ j <= L + many
                <5>1. CASE L < j
                    <6>1. j <= L + many
                        BY <2>1, <2>5
                    <6> QED  BY <2>7, <3>3, <5>1, <6>1
                <5>2. CASE ~(L < j)
                    <6>1. j \in 1 .. L /\ ~(a < j /\ j <= a + 0)
                        BY <2>1, <2>5, <5>2
                    <6> QED  BY <2>6, <3>2, <4>1, <5>2, <6>1
                <5> QED  BY <5>1, <5>2
            <4>3. L + many <= L + many
                BY <2>1, <2>5
            <4> QED  BY <2>5, <4>1, <4>2, <4>3 DEF Follow
        <3>4. CASE i # n
            <4>1. Counted(i)' = Counted(i)
                <5>1. i < next' <=> i < next
                    BY <1>1, <1>2, <1>5, <3>4
                <5> QED  BY <1>2, <5>1 DEF Counted
            <4>2. Counted(i) \in Nat
                BY BlockElement DEF Counted, IInv
            <4>3. ASSUME NEW j \in 1 .. L + many
                  PROVE  LogHash(j)' = i <=> a < j /\ j <= a + Counted(i)
                <5>1. CASE L < j
                    <6>1. ~(j <= a + Counted(i))
                        BY <2>1, <2>5, <3>2, <4>2, <5>1
                    <6> QED  BY <2>7, <3>4, <5>1, <6>1
                <5>2. CASE ~(L < j)
                    <6>1. j \in 1 .. L
                        BY <2>1, <2>5, <5>2
                    <6> QED  BY <2>6, <3>2, <6>1
                <5> QED  BY <5>1, <5>2
            <4>4. a + Counted(i) <= L + many
                BY <2>1, <2>5, <3>2, <4>2
            <4> QED  BY <2>5, <4>1, <4>3, <4>4 DEF Follow
        <3> QED  BY <3>3, <3>4
    <2> QED  BY <1>2, <2>4, <2>8 DEF Whole
<1> QED  BY <1>3, <1>4, <1>5

-----------------------------------------------------------------------------
\* Every step.

LEMMA NextInvariant == IInv /\ [Next]_vars => IInv'
<1> SUFFICES ASSUME IInv, [Next]_vars PROVE IInv'
    OBVIOUS
<1>1. ASSUME NEW i \in 1 .. Len(l2_block), Receipt(i) \/ NoReceipt(i) PROVE IInv'
    BY <1>1, ReceiptInvariant
<1>2. CASE Filtered \/ Numbered \/ Commit  BY <1>2, MoveInvariant
<1>3. CASE Number  BY <1>3, NumberInvariant
<1>4. CASE InsertBatch  BY <1>4, InsertInvariant
<1>5. CASE Abort  BY <1>5, AbortInvariant
<1>6. CASE UNCHANGED vars
    <2>1. TypeOK'  BY <1>6 DEF IInv, TypeOK, vars, batchVars, cursorVars, pgVars
    <2>2. Progress' /\ Cursors' /\ Batch' /\ Earlier' /\ BatchLogs' /\ InsertedLogs'
        BY <1>6 DEF IInv, Progress, Cursors, Batch, Earlier, BatchLogs, InsertedLogs,
                    InsertedGas, BatchEnd, vars, batchVars, cursorVars, pgVars
    <2>3. TransactionsNumbered' /\ GasAccumulates' /\ LogsNumbered' /\ LogsLinked'
        BY <1>6 DEF IInv, TransactionsNumbered, GasAccumulates, LogsNumbered,
                    LogsLinked, vars, batchVars, pgVars
    <2> QED  BY <2>1, <2>2, <2>3 DEF IInv
<1> QED  BY <1>1, <1>2, <1>3, <1>4, <1>5, <1>6 DEF Next

\* The inductive invariant holds throughout.
THEOREM Invariance == Spec => []IInv
BY InitInvariant, NextInvariant, PTL DEF Spec

\* The state of a block being inserted is well typed, however long the block is
\* and however often an attempt fails.
THEOREM TypeCorrect == Spec => []TypeOK
<1>1. IInv => TypeOK  BY DEF IInv
<1> QED  BY <1>1, Invariance, PTL

\* The rows of a block's transactions are numbered 0, 1, 2, ... in the block's
\* order: tx_index_cursor carries the numbering over any number of batches.
THEOREM NumberedInOrder == Spec => []TransactionsNumbered
<1>1. IInv => TransactionsNumbered  BY DEF IInv
<1> QED  BY <1>1, Invariance, PTL

\* log_index numbers the logs of a block without a gap, in the order of its
\* transactions: log_index_cursor carries it over batches.
THEOREM LogsInOrder == Spec => []LogsNumbered
<1>1. IInv => LogsNumbered  BY DEF IInv
<1> QED  BY <1>1, Invariance, PTL

\* The ids that the database returns for a batch are given to the logs of the
\* right transactions.
THEOREM LogsAreLinked == Spec => []LogsLinked
<1>1. IInv => LogsLinked  BY DEF IInv
<1> QED  BY <1>1, Invariance, PTL

\* Whole stays, given the other invariants.
LEMMA WholeNext == IInv /\ Whole /\ [Next]_vars => Whole'
<1> SUFFICES ASSUME IInv, Whole, [Next]_vars PROVE Whole'
    OBVIOUS
<1>1. CASE UNCHANGED vars
    <2>1. UNCHANGED <<l2_block, next, txs_vec, logs_vec, pgVars, pc, block_row, cumulative_gas_used>>
        BY <1>1 DEF vars, batchVars, cursorVars
    <2>2. pc' = "done" => block_row'.gas_used = cumulative_gas_used'
        BY <2>1 DEF Whole
    <2> QED  BY <2>1, <2>2, WholeStays
<1> QED  BY <1>1, WholeAbort, WholeMoves, WholeInsert, WholeNumber DEF Next

\* What Whole says once the block is committed.
LEMMA WholeCommitted ==
    ASSUME IInv, Whole, pc = "done"
    PROVE  CommittedWhole
<1>1. /\ txs_vec = << >> /\ logs_vec = << >> /\ Len(txs_vec) = 0 /\ Len(logs_vec) = 0
      /\ next = Len(l2_block) + 1
      /\ Len(pg_logs) \in Nat /\ Len(l2_block) \in Nat /\ start \in 0 .. Len(l2_block)
    BY Lengths, EmptySeq DEF IInv, Progress, Whole, TypeOK
<1>2. \A i \in 1 .. Len(l2_block) : i < next
    BY <1>1
<1>3. {pg_txs[k].hash : k \in 1 .. Len(pg_txs)} = {i \in 1 .. Len(l2_block) : l2_block[i].eth}
    <2>1. ASSUME NEW k \in 1 .. Len(pg_txs)
          PROVE  pg_txs[k].hash \in 1 .. Len(l2_block) /\ l2_block[pg_txs[k].hash].eth
        <3>1. pg_txs[k].hash \in 1 .. start /\ l2_block[pg_txs[k].hash].eth
            BY DEF IInv, Earlier, TransactionsNumbered
        <3> QED  BY <1>1, <3>1
    <2>2. ASSUME NEW i \in 1 .. Len(l2_block), l2_block[i].eth
          PROVE  \E k \in 1 .. Len(pg_txs) : pg_txs[k].hash = i
        BY <1>1, <1>2, <2>2 DEF Whole, HasRow
    <2> QED  BY <2>1, <2>2
<1>4. ASSUME NEW i \in 1 .. Len(l2_block)
      PROVE  Cardinality({j \in 1 .. Len(pg_logs) : pg_logs[j].hash = i})
                = (IF l2_block[i].eth THEN l2_block[i].logs ELSE 0)
    <2> DEFINE count == IF l2_block[i].eth THEN l2_block[i].logs ELSE 0
    <2>1. Counted(i) = count /\ count \in Nat
        BY <1>2, BlockElement DEF Counted, IInv
    <2> HIDE DEF count
    <2>2. PICK a \in Nat : Follow(i, a)
        BY DEF Whole
    <2>3. /\ a + count <= Len(pg_logs)
          /\ \A j \in 1 .. Len(pg_logs) : pg_logs[j].hash = i <=> a < j /\ j <= a + count
        BY <1>1, <2>1, <2>2 DEF Follow, LogHash
    <2>4. {j \in 1 .. Len(pg_logs) : pg_logs[j].hash = i} = (a + 1) .. (a + count)
        <3>1. \A j : j \in (a + 1) .. (a + count) <=> j \in 1 .. Len(pg_logs) /\ a < j /\ j <= a + count
            BY <1>1, <2>1, <2>3
        <3> QED  BY <2>3, <3>1
    <2>5. Cardinality((a + 1) .. (a + count)) = count
        <3>1. Cardinality((a + 1) .. (a + count)) = IF a + 1 > a + count THEN 0 ELSE a + count - (a + 1) + 1
            BY <2>1, FS_Interval
        <3> QED  BY <2>1, <3>1
    <2> QED  BY <2>4, <2>5 DEF count
<1>5. block_row.gas_used = (IF pg_txs = << >> THEN 0 ELSE pg_txs[Len(pg_txs)].cumulative_gas_used)
    BY <1>1 DEF Whole, IInv, Cursors, InsertedGas
<1> QED  BY <1>3, <1>4, <1>5 DEF CommittedWhole

\* A committed block has every Ethereum transaction with every log, however many
\* batches it took and whatever attempts failed before, and the gas of its last.
THEOREM CommittedIsWhole == Spec => []CommittedWhole
<1>1. Init => Whole
    BY WholeFresh DEF Init, Fresh
<1>2. IInv /\ Whole => CommittedWhole
    <2>1. pc # "done" => CommittedWhole  BY DEF CommittedWhole
    <2> QED  BY <2>1, WholeCommitted
<1> QED  BY <1>1, <1>2, WholeNext, Invariance, PTL DEF Spec

-----------------------------------------------------------------------------
\* The rows are those of a single pass. First, induction over the naturals, said
\* of a set, and what the recursive definition of StoredBlock computes.

LEMMA LeastElement ==
    ASSUME NEW T \in SUBSET Nat, T # {}
    PROVE  \E x \in T : \A y \in T : x <= y
<1> DEFINE Less == {pair \in Nat \X Nat : pair[1] < pair[2]}
<1>1. IsWellFoundedOn(Less, Nat)
    <2>1. Less = OpToRel(<, Nat)  BY DEF OpToRel
    <2> QED  BY <2>1, NatLessThanWellFounded
<1>2. PICK x \in T : \A y \in T : <<y, x>> \notin Less
    BY <1>1, WFMin
<1>3. ASSUME NEW y \in T PROVE x <= y
    <2>1. x \in Nat /\ y \in Nat  OBVIOUS
    <2>2. ~(y < x)  BY <1>2, <2>1
    <2> QED  BY <2>1, <2>2
<1> QED  BY <1>3

LEMMA SetInduction ==
    ASSUME NEW T \in SUBSET Nat, 0 \in T, \A n \in T : n + 1 \in T
    PROVE  T = Nat
<1> SUFFICES ASSUME T # Nat PROVE FALSE
    OBVIOUS
<1>1. PICK x \in Nat \ T : \A y \in Nat \ T : x <= y
    BY LeastElement
<1>2. x # 0 /\ x - 1 \in Nat /\ ~(x <= x - 1) /\ (x - 1) + 1 = x
    BY <1>1
<1>3. x - 1 \in T
    BY <1>1, <1>2
<1> QED  BY <1>1, <1>2, <1>3

Tallies == [transactions : Nat, logs : Nat, gas_used : Nat, gas_limit : Nat]

LEMMA CountType ==
    ASSUME NEW tally \in Tallies, NEW tx \in L2Transaction
    PROVE  Stored!Count(tally, tx) \in Tallies
BY DEF Tallies, L2Transaction, Stored!Count

\* A table of the tallies of the first n transactions.
Table(txs, n, t) ==
    /\ t \in [0 .. n -> Tallies]
    /\ t[0] = Stored!Nothing
    /\ \A i \in 1 .. n : t[i] = Stored!Count(t[i - 1], txs[i])

LEMMA TableExists ==
    ASSUME NEW txs \in Seq(L2Transaction)
    PROVE  \E t : Table(txs, Len(txs), t)
<1> DEFINE T == {n \in Nat : n <= Len(txs) => \E t : Table(txs, n, t)}
<1>1. 0 \in T
    <2>1. Stored!Nothing \in Tallies  BY DEF Stored!Nothing, Tallies
    <2>2. Table(txs, 0, [i \in 0 .. 0 |-> Stored!Nothing])  BY <2>1 DEF Table
    <2> QED  BY <2>2
<1>2. ASSUME NEW n \in T PROVE n + 1 \in T
    <2> SUFFICES ASSUME n + 1 <= Len(txs) PROVE \E t : Table(txs, n + 1, t)
        OBVIOUS
    <2>1. n \in Nat /\ n <= Len(txs) /\ n + 1 \in 1 .. Len(txs) /\ (n + 1) - 1 = n
        BY LenProperties
    <2>2. PICK t : Table(txs, n, t)
        BY <2>1
    <2> DEFINE u == [i \in 0 .. (n + 1) |->
                        IF i = n + 1 THEN Stored!Count(t[n], txs[n + 1]) ELSE t[i]]
    <2>3. txs[n + 1] \in L2Transaction /\ t[n] \in Tallies
        BY <2>1, <2>2 DEF Table
    <2>4. Stored!Count(t[n], txs[n + 1]) \in Tallies
        BY <2>3, CountType
    <2>5. \A i \in 0 .. (n + 1) : i = n + 1 \/ i \in 0 .. n
        BY <2>1
    <2>6. u \in [0 .. (n + 1) -> Tallies]
        BY <2>2, <2>4, <2>5 DEF Table
    <2>7. /\ u[n + 1] = Stored!Count(t[n], txs[n + 1])
          /\ \A i \in 0 .. n : u[i] = t[i]
        BY <2>1
    <2>8. u[0] = Stored!Nothing /\ \A i \in 1 .. n : u[i] = Stored!Count(u[i - 1], txs[i])
        <3>1. 0 \in 0 .. n /\ \A i \in 1 .. n : i \in 0 .. n /\ i - 1 \in 0 .. n
            BY <2>1
        <3> HIDE DEF u
        <3> QED  BY <2>2, <2>7, <3>1 DEF Table
    <2>9. u[n + 1] = Stored!Count(u[(n + 1) - 1], txs[n + 1])
        <3> HIDE DEF u
        <3>1. n \in 0 .. n  BY <2>1
        <3> QED  BY <2>1, <2>7, <3>1
    <2>10. \A i \in 1 .. (n + 1) : i = n + 1 \/ i \in 1 .. n
        BY <2>1
    <2> HIDE DEF u
    <2>11. Table(txs, n + 1, u)
        BY <2>6, <2>8, <2>9, <2>10 DEF Table
    <2> QED  BY <2>11
<1>3. T = Nat
    <2> HIDE DEF T
    <2>1. T \in SUBSET Nat  BY DEF T
    <2> QED  BY <1>1, <1>2, <2>1, SetInduction
<1>4. Len(txs) \in T /\ Len(txs) <= Len(txs)
    BY <1>3, LenProperties
<1> QED  BY <1>4

\* Tally is that table.
LEMMA TallyIs ==
    ASSUME NEW txs \in Seq(L2Transaction)
    PROVE  Table(txs, Len(txs), Stored!Tally(txs))
<1>1. PICK t : Table(txs, Len(txs), t)
    BY TableExists
<1> DEFINE body(f) ==
        [n \in 0 .. Len(txs) |->
            IF n = 0 THEN Stored!Nothing ELSE Stored!Count(f[n - 1], txs[n])]
<1>2. Len(txs) \in Nat
    BY LenProperties
<1>3. ASSUME NEW n \in 0 .. Len(txs)
      PROVE  t[n] = (IF n = 0 THEN Stored!Nothing ELSE Stored!Count(t[n - 1], txs[n]))
    <2>1. n # 0 => n \in 1 .. Len(txs)  BY <1>2
    <2> QED  BY <1>1, <2>1 DEF Table
<1>4. t = [n \in 0 .. Len(txs) |-> t[n]]
    BY <1>1 DEF Table
<1>5. t = body(t)
    BY <1>3, <1>4
<1>6. Stored!Tally(txs) = CHOOSE f : f = body(f)
    BY Zenon DEF Stored!Tally
<1> DEFINE T == Stored!Tally(txs)
<1>7. T = body(T)
    BY <1>5, <1>6, Zenon
<1> HIDE DEF T
<1>8. /\ DOMAIN T = 0 .. Len(txs)
      /\ T[0] = Stored!Nothing
      /\ \A n \in 1 .. Len(txs) : T[n] = Stored!Count(T[n - 1], txs[n])
    <2>1. T = [n \in 0 .. Len(txs) |->
                IF n = 0 THEN Stored!Nothing ELSE Stored!Count(T[n - 1], txs[n])]
        BY <1>7
    <2>2. 0 \in 0 .. Len(txs)
        BY <1>2
    <2>3. \A n \in 1 .. Len(txs) : n \in 0 .. Len(txs) /\ n # 0
        BY <1>2
    <2> QED  BY <2>1, <2>2, <2>3
<1>9. \A n \in 0 .. Len(txs) : T[n] \in Tallies
    <2> DEFINE S == {n \in Nat : n <= Len(txs) => T[n] \in Tallies}
    <2>1. 0 \in S
        BY <1>8 DEF Stored!Nothing, Tallies
    <2>2. ASSUME NEW n \in S PROVE n + 1 \in S
        <3> SUFFICES ASSUME n + 1 <= Len(txs) PROVE T[n + 1] \in Tallies
            OBVIOUS
        <3>1. T[n] \in Tallies /\ n + 1 \in 1 .. Len(txs) /\ (n + 1) - 1 = n
            BY <1>2
        <3>2. T[n + 1] = Stored!Count(T[n], txs[n + 1]) /\ txs[n + 1] \in L2Transaction
            BY <1>8, <3>1
        <3> QED  BY <3>1, <3>2, CountType
    <2>3. S = Nat
        <3> HIDE DEF S
        <3>1. S \in SUBSET Nat  BY DEF S
        <3> QED  BY <2>1, <2>2, <3>1, SetInduction
    <2> QED  BY <1>2, <2>3
<1>10. T \in [0 .. Len(txs) -> Tallies]
    <2>1. T = [n \in 0 .. Len(txs) |-> T[n]]  BY <1>7
    <2> QED  BY <1>9, <2>1
<1>11. Table(txs, Len(txs), T)
    BY <1>8, <1>10 DEF Table
<1> QED  BY <1>11 DEF T

\* Logs are only ever added.
LEMMA TallyGrows ==
    ASSUME NEW txs \in Seq(L2Transaction), NEW m \in 0 .. Len(txs), NEW n \in 0 .. Len(txs), m <= n
    PROVE  Stored!Tally(txs)[m].logs <= Stored!Tally(txs)[n].logs
<1> DEFINE t == Stored!Tally(txs)
<1>1. Table(txs, Len(txs), t) /\ Len(txs) \in Nat
    BY TallyIs, LenProperties
<1> HIDE DEF t
<1>2. \A i \in 0 .. Len(txs) : t[i].logs \in Nat
    BY <1>1 DEF Table, Tallies
<1>3. ASSUME NEW i \in 1 .. Len(txs) PROVE t[i - 1].logs <= t[i].logs
    <2>1. txs[i] \in L2Transaction /\ i - 1 \in 0 .. Len(txs) /\ t[i] = Stored!Count(t[i - 1], txs[i])
        BY <1>1 DEF Table
    <2>2. t[i - 1].logs \in Nat /\ txs[i].logs \in Nat
        BY <1>2, <2>1 DEF L2Transaction
    <2> QED  BY <2>1, <2>2 DEF Stored!Count
<1> DEFINE S == {d \in Nat : m + d <= Len(txs) => t[m].logs <= t[m + d].logs}
<1>4. 0 \in S
    BY <1>1, <1>2
<1>5. ASSUME NEW d \in S PROVE d + 1 \in S
    <2> SUFFICES ASSUME m + (d + 1) <= Len(txs) PROVE t[m].logs <= t[m + (d + 1)].logs
        OBVIOUS
    <2>1. /\ m + d \in 0 .. Len(txs) /\ m + (d + 1) \in 1 .. Len(txs)
          /\ m + (d + 1) - 1 = m + d /\ m + (d + 1) \in 0 .. Len(txs)
        BY <1>1
    <2>2. t[m].logs <= t[m + d].logs
        BY <2>1
    <2>3. t[m + d].logs <= t[m + (d + 1)].logs
        <3>1. t[m + (d + 1) - 1].logs <= t[m + (d + 1)].logs  BY <1>3, <2>1
        <3> QED  BY <2>1, <3>1
    <2> QED  BY <1>2, <2>1, <2>2, <2>3
<1>6. S = Nat
    <2> HIDE DEF S
    <2>1. S \in SUBSET Nat  BY DEF S
    <2> QED  BY <1>4, <1>5, <2>1, SetInduction
<1>7. n - m \in Nat /\ m + (n - m) = n /\ n <= Len(txs)
    BY <1>1
<1>8. n - m \in S
    <2> HIDE DEF S
    <2> QED  BY <1>6, <1>7
<1>9. t[m].logs <= t[m + (n - m)].logs
    <2>1. m + (n - m) <= Len(txs)  BY <1>7
    <2> QED  BY <1>8, <2>1
<1> QED  BY <1>7, <1>9 DEF t

\* What the first i transactions of the block have come to.
At(i) == Stored!Tally(l2_block)[i]

RowTallied(r) ==
    /\ r.hash \in 1 .. Len(l2_block)
    /\ r.transaction_index = At(r.hash - 1).transactions
    /\ r.cumulative_gas_used = At(r.hash).gas_used

LogTallied(r) ==
    /\ r.hash \in 1 .. Len(l2_block)
    /\ l2_block[r.hash].eth
    /\ r.transaction_index = At(r.hash - 1).transactions
    /\ At(r.hash - 1).logs <= r.log_index
    /\ r.log_index < At(r.hash).logs

\* The cursors are at the tally of the transactions numbered so far, and each row,
\* of the batch or inserted, is at that of its transaction.
Tallied ==
    /\ At(next - 1) =
           [transactions |-> Len(pg_txs) + Len(txs_vec),
            logs |-> log_index_cursor,
            gas_used |-> cumulative_gas_used,
            gas_limit |-> total_gas_limit]
    /\ \A k \in 1 .. Len(pg_txs) : RowTallied(pg_txs[k])
    /\ \A k \in 1 .. Len(txs_vec) : RowTallied(txs_vec[k])
    /\ \A j \in 1 .. Len(pg_logs) : LogTallied(pg_logs[j])
    /\ \A j \in 1 .. Len(logs_vec) : LogTallied(logs_vec[j])
    /\ block_row = IF pc = "done" THEN Stored!Block(l2_block) ELSE NoRow

LEMMA AtIs ==
    ASSUME TypeOK
    PROVE  /\ At(0) = Stored!Nothing
           /\ \A i \in 0 .. Len(l2_block) : At(i) \in Tallies
           /\ \A i \in 1 .. Len(l2_block) : At(i) = Stored!Count(At(i - 1), l2_block[i])
<1>1. l2_block \in Seq(L2Transaction)
    BY PackingAssumption DEF TypeOK
<1> QED  BY <1>1, TallyIs DEF Table, At

LEMMA TalliedFresh == IInv /\ Fresh /\ block_row = NoRow => Tallied
<1> SUFFICES ASSUME IInv, Fresh, block_row = NoRow PROVE Tallied
    OBVIOUS
<1>1. /\ Len(txs_vec) = 0 /\ Len(logs_vec) = 0 /\ Len(pg_txs) = 0 /\ Len(pg_logs) = 0
    BY EmptySeq DEF Fresh
<1>2. At(next - 1) = Stored!Nothing
    BY AtIs DEF IInv, Fresh
<1>3. pc # "done"
    BY DEF Fresh, FirstStep
<1> QED  BY <1>1, <1>2, <1>3 DEF Tallied, Fresh, Stored!Nothing

LEMMA TalliedAbort == IInv /\ Tallied /\ Abort => Tallied'
<1> SUFFICES ASSUME IInv, Tallied, Abort PROVE Tallied'
    OBVIOUS
<1>1. IInv' /\ Fresh'
    BY AbortInvariant DEF IInv, TypeOK, Abort, Fresh
<1>2. block_row' = NoRow
    BY DEF Tallied, Abort
<1>3. (IInv /\ Fresh /\ block_row = NoRow => Tallied)'
    BY TalliedFresh, PTL
<1> QED  BY <1>1, <1>2, <1>3

LEMMA TalliedStays ==
    ASSUME Tallied,
           UNCHANGED <<l2_block, next, txs_vec, logs_vec, pgVars, log_index_cursor,
                       cumulative_gas_used, total_gas_limit>>,
           block_row' = IF pc' = "done" THEN Stored!Block(l2_block) ELSE NoRow
    PROVE  Tallied'
BY DEF Tallied, RowTallied, LogTallied, At, pgVars

LEMMA TalliedMoves ==
    ASSUME IInv, Whole, Tallied,
           Filtered \/ Numbered \/ Commit \/ \E i \in 1 .. Len(l2_block) : Receipt(i) \/ NoReceipt(i)
    PROVE  Tallied'
<1>1. UNCHANGED <<l2_block, next, txs_vec, logs_vec, pgVars, log_index_cursor,
                  cumulative_gas_used, total_gas_limit>>
    BY DEF Filtered, Numbered, Commit, Receipt, NoReceipt, batchVars, cursorVars
<1>2. CASE Commit
    <2>1. /\ pc = "commit" /\ pc' = "done"
          /\ block_row' = [gas_limit |-> total_gas_limit, gas_used |-> cumulative_gas_used]
        BY <1>2 DEF Commit
    <2>2. next - 1 = Len(l2_block)
        <3>1. Len(l2_block) \in Nat  BY Lengths DEF IInv
        <3> QED  BY <2>1, <3>1 DEF Whole
    <2>3. block_row' = Stored!Block(l2_block)
        BY <2>1, <2>2 DEF Tallied, Stored!Block, At
    <2> QED  BY <1>1, <2>1, <2>3, TalliedStays
<1>3. CASE Filtered \/ Numbered \/ \E i \in 1 .. Len(l2_block) : Receipt(i) \/ NoReceipt(i)
    <2>1. pc # "done" /\ pc' # "done" /\ block_row' = block_row
        BY <1>3 DEF Filtered, Numbered, Receipt, NoReceipt
    <2> QED  BY <1>1, <2>1, TalliedStays DEF Tallied
<1> QED  BY <1>2, <1>3

LEMMA TalliedNumber == IInv /\ Tallied /\ Number => Tallied'
<1> SUFFICES ASSUME IInv, Tallied, Number PROVE Tallied'
    OBVIOUS
<1> DEFINE i == next
           tx == l2_block[i]
<1>1. /\ TypeOK /\ pc = "number" /\ pc' = "number" /\ next <= BatchEnd /\ next' = next + 1
      /\ UNCHANGED <<l2_block, pg_txs, pg_logs, block_row>>
    BY DEF IInv, Number, pgVars
<1>2. /\ i \in 1 .. Len(l2_block) /\ i \in Nat /\ i - 1 \in 0 .. Len(l2_block) /\ next' - 1 = i
      /\ Len(l2_block) \in Nat
    BY <1>1, Lengths DEF TypeOK
<1>3. /\ tx.eth \in BOOLEAN /\ tx.logs \in Nat /\ tx.gas_used \in Nat /\ tx.gas_limit \in Nat
    BY <1>1, <1>2, BlockElement
<1>4. /\ Len(txs_vec) \in Nat /\ Len(logs_vec) \in Nat /\ Len(pg_txs) \in Nat /\ Len(pg_logs) \in Nat
    BY <1>1, Lengths
<1>5. /\ tx_index_cursor = Len(pg_txs) /\ log_index_cursor \in Nat
      /\ cumulative_gas_used \in Nat /\ total_gas_limit \in Nat
    BY <1>1, <1>4 DEF IInv, Cursors, TypeOK
<1>6. At(i - 1) = [transactions |-> Len(pg_txs) + Len(txs_vec), logs |-> log_index_cursor,
                   gas_used |-> cumulative_gas_used, gas_limit |-> total_gas_limit]
    BY DEF Tallied
<1>7. At(i) = Stored!Count(At(i - 1), tx)
    BY <1>1, <1>2, AtIs
<1>8. \A n : At(n)' = At(n)
    BY <1>1 DEF At
<1>9. \A r : (RowTallied(r) <=> RowTallied(r)') /\ (LogTallied(r) <=> LogTallied(r)')
    BY <1>1, <1>8 DEF RowTallied, LogTallied
<1>10. block_row' = IF pc' = "done" THEN Stored!Block(l2_block') ELSE NoRow
    BY <1>1 DEF Tallied
<1>11. /\ \A k \in 1 .. Len(pg_txs') : RowTallied(pg_txs[k])'
       /\ \A j \in 1 .. Len(pg_logs') : LogTallied(pg_logs[j])'
    BY <1>1, <1>9 DEF Tallied
<1>12. CASE ~tx.eth
    <2>1. /\ UNCHANGED <<txs_vec, logs_vec, log_index_cursor, cumulative_gas_used, total_gas_limit>>
        BY <1>12 DEF Number
    <2>2. At(i) = At(i - 1)
        BY <1>7, <1>12 DEF Stored!Count
    <2> QED  BY <1>1, <1>2, <1>6, <1>8, <1>9, <1>10, <1>11, <2>1, <2>2 DEF Tallied
<1>13. CASE tx.eth
    <2>1. /\ txs_vec' = Append(txs_vec, NumberingOf(i))
          /\ log_index_cursor' = log_index_cursor + tx.logs
          /\ cumulative_gas_used' = cumulative_gas_used + tx.gas_used
          /\ total_gas_limit' = total_gas_limit + tx.gas_limit
        BY <1>13 DEF Number
    <2>2. At(i) = [transactions |-> (Len(pg_txs) + Len(txs_vec)) + 1,
                   logs |-> log_index_cursor + tx.logs,
                   gas_used |-> cumulative_gas_used + tx.gas_used,
                   gas_limit |-> total_gas_limit + tx.gas_limit]
        BY <1>6, <1>7, <1>13 DEF Stored!Count
    <2>3. /\ Len(txs_vec') = Len(txs_vec) + 1
          /\ \A k \in 1 .. Len(txs_vec) : txs_vec'[k] = txs_vec[k]
          /\ txs_vec'[Len(txs_vec) + 1] = NumberingOf(i)
        <3>1. txs_vec \in Seq(Numbering)  BY <1>1 DEF TypeOK
        <3> QED  BY <2>1, <3>1
    <2>4. RowTallied(NumberingOf(i))
        <3>1. /\ NumberingOf(i).hash = i
              /\ NumberingOf(i).transaction_index = tx_index_cursor + Len(txs_vec)
              /\ NumberingOf(i).cumulative_gas_used = cumulative_gas_used + tx.gas_used
            BY DEF NumberingOf
        <3> QED  BY <1>2, <1>5, <1>6, <2>2, <3>1 DEF RowTallied
    <2>5. ASSUME NEW k \in 1 .. Len(txs_vec') PROVE RowTallied(txs_vec[k])'
        <3>1. k \in 1 .. Len(txs_vec) \/ k = Len(txs_vec) + 1
            BY <1>4, <2>3
        <3> QED  BY <1>9, <2>3, <2>4, <3>1 DEF Tallied
    <2>6. ASSUME NEW j \in 1 .. tx.logs PROVE LogTallied(LogsOf(i)[j])
        <3>1. /\ LogsOf(i)[j].hash = i
              /\ LogsOf(i)[j].transaction_index = tx_index_cursor + Len(txs_vec)
              /\ LogsOf(i)[j].log_index = log_index_cursor + j - 1
            BY DEF LogsOf
        <3>2. At(i - 1).logs = log_index_cursor /\ At(i).logs = log_index_cursor + tx.logs
            BY <1>6, <2>2
        <3>3. log_index_cursor <= log_index_cursor + j - 1 /\ log_index_cursor + j - 1 < log_index_cursor + tx.logs
            <4> HIDE DEF tx
            <4> QED  BY <1>3, <1>5
        <3>4. tx_index_cursor + Len(txs_vec) = At(i - 1).transactions
            BY <1>5, <1>6
        <3>5. i \in 1 .. Len(l2_block) /\ l2_block[i].eth
            BY <1>2, <1>13
        <3> HIDE DEF i, tx
        <3> QED  BY <3>1, <3>2, <3>3, <3>4, <3>5 DEF LogTallied
    <2>7. ASSUME NEW j \in 1 .. Len(logs_vec') PROVE LogTallied(logs_vec[j])'
        <3>1. /\ Len(logs_vec') = Len(logs_vec) + tx.logs
              /\ \A n \in 1 .. Len(logs_vec) : logs_vec'[n] = logs_vec[n]
              /\ \A n \in 1 .. tx.logs : logs_vec'[Len(logs_vec) + n] = LogsOf(i)[n]
            BY <1>2, <1>13, NumberedIs
        <3>2. j \in 1 .. Len(logs_vec) \/ \E n \in 1 .. tx.logs : j = Len(logs_vec) + n
            <4>1. j \in 1 .. (Len(logs_vec) + tx.logs)  BY <3>1
            <4> HIDE DEF tx
            <4> QED  BY <1>3, <1>4, <4>1, SplitIndex
        <3>3. CASE j \in 1 .. Len(logs_vec)
            BY <1>9, <3>1, <3>3 DEF Tallied
        <3>4. ASSUME NEW n \in 1 .. tx.logs, j = Len(logs_vec) + n PROVE LogTallied(logs_vec[j])'
            <4>1. logs_vec'[j] = LogsOf(i)[n] /\ LogTallied(LogsOf(i)[n])
                BY <2>6, <3>1, <3>4
            <4> QED  BY <1>9, <4>1
        <3> QED  BY <3>2, <3>3, <3>4
    <2>8. At(next - 1)' =
              [transactions |-> Len(pg_txs') + Len(txs_vec'), logs |-> log_index_cursor',
               gas_used |-> cumulative_gas_used', gas_limit |-> total_gas_limit']
        <3>1. Len(pg_txs') + Len(txs_vec') = (Len(pg_txs) + Len(txs_vec)) + 1
            BY <1>1, <1>4, <2>3
        <3>2. At(next - 1)' = At(i)
            BY <1>2, <1>8
        <3> QED  BY <2>1, <2>2, <3>1, <3>2
    <2> QED  BY <1>10, <1>11, <2>5, <2>7, <2>8 DEF Tallied
<1> QED  BY <1>3, <1>12, <1>13

LEMMA TalliedInsert == IInv /\ Tallied /\ InsertBatch => Tallied'
<1> SUFFICES ASSUME IInv, Tallied, InsertBatch PROVE Tallied'
    OBVIOUS
<1>1. /\ pc = "insert" /\ pc' # "done" /\ Len(txs_vec') = 0 /\ Len(logs_vec') = 0
      /\ UNCHANGED <<l2_block, next, block_row, log_index_cursor, cumulative_gas_used, total_gas_limit>>
    BY EmptySeq DEF InsertBatch, cursorVars
<1>2. /\ Len(txs_vec) \in Nat /\ Len(logs_vec) \in Nat /\ Len(pg_txs) \in Nat /\ Len(pg_logs) \in Nat
    BY Lengths DEF IInv
<1>3. \A n : At(n)' = At(n)
    BY <1>1 DEF At
<1>4. \A r : (RowTallied(r) <=> RowTallied(r)') /\ (LogTallied(r) <=> LogTallied(r)')
    BY <1>1, <1>3 DEF RowTallied, LogTallied
<1>5. ASSUME NEW k \in 1 .. Len(pg_txs') PROVE RowTallied(pg_txs[k])'
    <2>1. k \in 1 .. Len(pg_txs) \/ \E n \in 1 .. Len(txs_vec) : k = Len(pg_txs) + n
        <3>1. k \in 1 .. (Len(pg_txs) + Len(txs_vec))  BY InsertedIs
        <3> QED  BY <1>2, <3>1, SplitIndex
    <2>2. ASSUME k \in 1 .. Len(pg_txs) PROVE RowTallied(pg_txs'[k])
        BY <2>2, InsertedIs DEF Tallied
    <2>3. ASSUME NEW n \in 1 .. Len(txs_vec), k = Len(pg_txs) + n PROVE RowTallied(pg_txs'[k])
        <3>1. /\ pg_txs'[k].hash = txs_vec[n].hash
              /\ pg_txs'[k].transaction_index = txs_vec[n].transaction_index
              /\ pg_txs'[k].cumulative_gas_used = txs_vec[n].cumulative_gas_used
            BY <2>3, InsertedIs, RowsOfBatch
        <3>2. RowTallied(txs_vec[n])  BY DEF Tallied
        <3> QED  BY <3>1, <3>2 DEF RowTallied
    <2>4. RowTallied(pg_txs'[k])
        BY <2>1, <2>2, <2>3
    <2> QED  BY <1>4, <2>4
<1>6. ASSUME NEW j \in 1 .. Len(pg_logs') PROVE LogTallied(pg_logs[j])'
    <2>1. j \in 1 .. Len(pg_logs) \/ \E n \in 1 .. Len(logs_vec) : j = Len(pg_logs) + n
        <3>1. j \in 1 .. (Len(pg_logs) + Len(logs_vec))  BY InsertedIs
        <3> QED  BY <1>2, <3>1, SplitIndex
    <2>2. ASSUME j \in 1 .. Len(pg_logs) PROVE LogTallied(pg_logs'[j])
        BY <2>2, InsertedIs DEF Tallied
    <2>3. ASSUME NEW n \in 1 .. Len(logs_vec), j = Len(pg_logs) + n PROVE LogTallied(pg_logs'[j])
        <3>1. /\ pg_logs'[j].hash = logs_vec[n].hash
              /\ pg_logs'[j].transaction_index = logs_vec[n].transaction_index
              /\ pg_logs'[j].log_index = logs_vec[n].log_index
            BY <2>3, InsertedIs, RowsOfBatch
        <3>2. LogTallied(logs_vec[n])  BY DEF Tallied
        <3> QED  BY <3>1, <3>2 DEF LogTallied
    <2>4. LogTallied(pg_logs'[j])
        BY <2>1, <2>2, <2>3
    <2> QED  BY <1>4, <2>4
<1>7. Len(pg_txs') + Len(txs_vec') = Len(pg_txs) + Len(txs_vec)
    <2>1. Len(pg_txs') = Len(pg_txs) + Len(txs_vec)  BY InsertedIs
    <2> QED  BY <1>1, <1>2, <2>1
<1>8. At(next - 1)' =
          [transactions |-> Len(pg_txs') + Len(txs_vec'), logs |-> log_index_cursor',
           gas_used |-> cumulative_gas_used', gas_limit |-> total_gas_limit']
    BY <1>1, <1>3, <1>7 DEF Tallied
<1>9. block_row' = IF pc' = "done" THEN Stored!Block(l2_block') ELSE NoRow
    BY <1>1 DEF Tallied
<1> QED  BY <1>1, <1>5, <1>6, <1>8, <1>9 DEF Tallied

LEMMA TalliedNext == IInv /\ Whole /\ Tallied /\ [Next]_vars => Tallied'
<1> SUFFICES ASSUME IInv, Whole, Tallied, [Next]_vars PROVE Tallied'
    OBVIOUS
<1>1. CASE UNCHANGED vars
    <2>1. UNCHANGED <<l2_block, next, txs_vec, logs_vec, pgVars, log_index_cursor,
                      cumulative_gas_used, total_gas_limit, pc, block_row>>
        BY <1>1 DEF vars, batchVars, cursorVars
    <2>2. block_row' = IF pc' = "done" THEN Stored!Block(l2_block) ELSE NoRow
        BY <2>1 DEF Tallied
    <2> QED  BY <2>1, <2>2, TalliedStays
<1> QED  BY <1>1, TalliedAbort, TalliedMoves, TalliedNumber, TalliedInsert DEF Next

\* At the commit, the rows are those that StoredBlock stores.
LEMMA CommittedRows ==
    ASSUME IInv, Whole, Tallied, pc = "commit"
    PROVE  {[hash |-> pg_txs[k].hash,
             transaction_index |-> pg_txs[k].transaction_index,
             cumulative_gas_used |-> pg_txs[k].cumulative_gas_used] :
                k \in 1 .. Len(pg_txs)} = Stored!Transactions(l2_block)
<1> DEFINE row(k) == [hash |-> pg_txs[k].hash,
                      transaction_index |-> pg_txs[k].transaction_index,
                      cumulative_gas_used |-> pg_txs[k].cumulative_gas_used]
           spec(i) == [hash |-> i, transaction_index |-> At(i - 1).transactions,
                       cumulative_gas_used |-> At(i).gas_used]
<1>1. ASSUME NEW k \in 1 .. Len(pg_txs)
      PROVE  pg_txs[k].hash \in Stored!Ethereum(l2_block) /\ row(k) = spec(pg_txs[k].hash)
    BY DEF Tallied, RowTallied, IInv, TransactionsNumbered, Stored!Ethereum
<1>2. ASSUME NEW i \in Stored!Ethereum(l2_block)
      PROVE  \E k \in 1 .. Len(pg_txs) : pg_txs[k].hash = i
    <2>1. i \in 1 .. Len(l2_block) /\ l2_block[i].eth /\ next = Len(l2_block) + 1
        BY DEF Stored!Ethereum, Whole
    <2>2. i < next
        <3>1. Len(l2_block) \in Nat  BY Lengths DEF IInv
        <3> QED  BY <2>1, <3>1
    <2>3. Len(txs_vec) = 0
        BY EmptySeq DEF IInv, Progress
    <2> QED  BY <2>1, <2>2, <2>3 DEF Whole, HasRow
<1>3. Stored!Transactions(l2_block) = {spec(i) : i \in Stored!Ethereum(l2_block)}
    BY DEF Stored!Transactions, At
<1> HIDE DEF row, spec
<1>4. {row(k) : k \in 1 .. Len(pg_txs)} = {spec(i) : i \in Stored!Ethereum(l2_block)}
    BY <1>1, <1>2
<1> QED  BY <1>3, <1>4 DEF row

LEMMA CommittedLogRows ==
    ASSUME IInv, Whole, Tallied, pc = "commit"
    PROVE  {[hash |-> pg_logs[j].hash,
             transaction_index |-> pg_logs[j].transaction_index,
             log_index |-> pg_logs[j].log_index] :
                j \in 1 .. Len(pg_logs)} = Stored!Logs(l2_block)
<1> DEFINE row(j) == [hash |-> pg_logs[j].hash,
                      transaction_index |-> pg_logs[j].transaction_index,
                      log_index |-> pg_logs[j].log_index]
           spec(i, l) == [hash |-> i, transaction_index |-> At(i - 1).transactions, log_index |-> l]
           span(i) == At(i - 1).logs .. (At(i).logs - 1)
           N == Len(l2_block)
<1>1. /\ TypeOK /\ l2_block \in Seq(L2Transaction) /\ N \in Nat /\ Len(pg_logs) \in Nat
      /\ next - 1 = N /\ Len(logs_vec) = 0
    <2>1. TypeOK /\ next = N + 1 /\ Len(logs_vec) = 0
        BY EmptySeq DEF IInv, Whole, Progress
    <2>2. l2_block \in Seq(L2Transaction)
        BY <2>1, PackingAssumption DEF TypeOK
    <2>3. N \in Nat /\ Len(pg_logs) \in Nat
        BY <2>1, Lengths
    <2> QED  BY <2>1, <2>2, <2>3
<1>2. \A i \in 0 .. N : At(i).logs \in Nat
    BY <1>1, AtIs DEF Tallies
<1>3. At(N).logs = Len(pg_logs)
    BY <1>1 DEF Tallied, IInv, Cursors
<1>4. \A j \in 1 .. Len(pg_logs) : pg_logs[j].log_index = j - 1 /\ LogTallied(pg_logs[j])
    BY DEF IInv, LogsNumbered, Tallied
<1>5. \A i \in 1 .. N : i \in 0 .. N /\ i - 1 \in 0 .. N
    BY <1>1
<1>6. ASSUME NEW j \in 1 .. Len(pg_logs)
      PROVE  /\ pg_logs[j].hash \in Stored!Ethereum(l2_block)
             /\ pg_logs[j].log_index \in span(pg_logs[j].hash)
             /\ row(j) = spec(pg_logs[j].hash, pg_logs[j].log_index)
    <2>1. LogTallied(pg_logs[j]) /\ pg_logs[j].log_index \in Int
        BY <1>1, <1>4
    <2>2. pg_logs[j].hash \in 1 .. N /\ pg_logs[j].hash \in Stored!Ethereum(l2_block)
        BY <2>1 DEF LogTallied, Stored!Ethereum
    <2>3. pg_logs[j].log_index \in span(pg_logs[j].hash)
        BY <1>2, <1>5, <2>1, <2>2 DEF LogTallied
    <2> QED  BY <2>1, <2>2, <2>3 DEF LogTallied
<1>7. ASSUME NEW i \in Stored!Ethereum(l2_block), NEW l \in span(i)
      PROVE  \E j \in 1 .. Len(pg_logs) : pg_logs[j].hash = i /\ pg_logs[j].log_index = l
    <2>1. i \in 1 .. N /\ i \in 0 .. N /\ i - 1 \in 0 .. N /\ i <= N /\ N \in 0 .. N
        BY <1>1, <1>5 DEF Stored!Ethereum
    <2>2. At(i).logs <= At(N).logs
        BY <1>1, <2>1, TallyGrows DEF At
    <2>3. l \in Nat /\ At(i - 1).logs <= l /\ l < At(i).logs /\ l + 1 \in 1 .. Len(pg_logs)
        BY <1>1, <1>2, <1>3, <2>1, <2>2
    <2> DEFINE h == pg_logs[l + 1].hash
    <2>4. /\ pg_logs[l + 1].log_index = l /\ h \in 1 .. N /\ h \in 0 .. N /\ h - 1 \in 0 .. N
          /\ At(h - 1).logs <= l /\ l < At(h).logs
        <3>1. LogTallied(pg_logs[l + 1]) /\ pg_logs[l + 1].log_index = (l + 1) - 1
            BY <1>4, <2>3
        <3>2. h \in 1 .. N /\ pg_logs[l + 1].log_index = l
            BY <2>3, <3>1 DEF LogTallied
        <3> QED  BY <1>5, <3>1, <3>2 DEF LogTallied
    <2> HIDE DEF h
    <2>5. ~(h < i)
        <3> SUFFICES ASSUME h <= i - 1 PROVE FALSE
            BY <2>1, <2>4
        <3>1. At(h).logs <= At(i - 1).logs
            BY <1>1, <2>1, <2>4, TallyGrows DEF At
        <3> QED  BY <1>2, <2>1, <2>3, <2>4, <3>1
    <2>6. ~(i < h)
        <3> SUFFICES ASSUME i <= h - 1 PROVE FALSE
            BY <2>1, <2>4
        <3>1. At(i).logs <= At(h - 1).logs
            BY <1>1, <2>1, <2>4, TallyGrows DEF At
        <3> QED  BY <1>2, <2>1, <2>3, <2>4, <3>1
    <2>7. h = i
        BY <2>1, <2>4, <2>5, <2>6
    <2> QED  BY <2>3, <2>4, <2>7 DEF h
<1>8. Stored!Logs(l2_block) = UNION {{spec(i, l) : l \in span(i)} : i \in Stored!Ethereum(l2_block)}
    BY DEF Stored!Logs, Stored!LogsOf, At
<1> HIDE DEF span
<1>9. ASSUME NEW j \in 1 .. Len(pg_logs) PROVE row(j) \in Stored!Logs(l2_block)
    <2>1. row(j) \in {spec(pg_logs[j].hash, l) : l \in span(pg_logs[j].hash)}
        <3> HIDE DEF row, spec
        <3> QED  BY <1>6
    <2>2. pg_logs[j].hash \in Stored!Ethereum(l2_block)
        BY <1>6
    <2> HIDE DEF row, spec
    <2> QED  BY <1>8, <2>1, <2>2
<1>10. ASSUME NEW x \in Stored!Logs(l2_block) PROVE \E j \in 1 .. Len(pg_logs) : x = row(j)
    <2>1. PICK i \in Stored!Ethereum(l2_block) : x \in {spec(i, l) : l \in span(i)}
        BY <1>8
    <2>2. PICK l \in span(i) : x = spec(i, l)
        BY <2>1
    <2>3. PICK j \in 1 .. Len(pg_logs) : pg_logs[j].hash = i /\ pg_logs[j].log_index = l
        BY <1>7
    <2>4. x = row(j)
        BY <1>6, <2>2, <2>3
    <2> QED  BY <2>4
<1> QED  BY <1>9, <1>10

\* Every step is a step of StoredBlock, the commit, or changes nothing for a reader.
LEMMA StepStored ==
    ASSUME IInv, Whole, Tallied, Tallied', [Next]_vars
    PROVE  [Stored!Store]_(Stored!vars)
<1>1. CASE Commit
    <2>1. pc = "commit" /\ pc' = "done" /\ UNCHANGED <<l2_block, pg_txs, pg_logs>>
        BY <1>1 DEF Commit, pgVars
    <2>2. block_row = NoRow /\ block_row' = Stored!Block(l2_block)
        BY <2>1 DEF Tallied
    <2>3. block_row' # NoRow
        <3>1. block_row' = [gas_limit |-> total_gas_limit, gas_used |-> cumulative_gas_used]
            BY <1>1 DEF Commit
        <3>2. total_gas_limit \in Nat  BY DEF IInv, TypeOK
        <3>3. total_gas_limit # -1  BY <3>2
        <3> QED  BY <3>1, <3>3 DEF NoRow
    <2>4. CommittedTransactions' = Stored!Transactions(l2_block)
        <3>1. CommittedTransactions' =
                {[hash |-> pg_txs[k].hash,
                  transaction_index |-> pg_txs[k].transaction_index,
                  cumulative_gas_used |-> pg_txs[k].cumulative_gas_used] :
                    k \in 1 .. Len(pg_txs)}
            BY <2>1, <2>3 DEF CommittedTransactions, Committed
        <3> QED  BY <2>1, <3>1, CommittedRows
    <2>5. CommittedLogs' = Stored!Logs(l2_block)
        <3>1. CommittedLogs' =
                {[hash |-> pg_logs[j].hash,
                  transaction_index |-> pg_logs[j].transaction_index,
                  log_index |-> pg_logs[j].log_index] :
                    j \in 1 .. Len(pg_logs)}
            BY <2>1, <2>3 DEF CommittedLogs, Committed
        <3> QED  BY <2>1, <3>1, CommittedLogRows
    <2> QED  BY <2>1, <2>2, <2>4, <2>5 DEF Stored!Store
<1>2. CASE UNCHANGED vars
    BY <1>2
    DEF vars, pgVars, Stored!vars, CommittedTransactions, CommittedLogs, Committed
<1>3. CASE Next /\ ~Commit
    <2>1. pc # "done" /\ pc' # "done" /\ l2_block' = l2_block
        BY <1>3
        DEF Next, Receipt, NoReceipt, Filtered, Number, Numbered, InsertBatch, Abort, FirstStep
    <2>2. block_row = NoRow /\ block_row' = NoRow
        BY <2>1 DEF Tallied
    <2>3. /\ CommittedTransactions = {} /\ CommittedTransactions' = {}
          /\ CommittedLogs = {} /\ CommittedLogs' = {}
        BY <2>2 DEF CommittedTransactions, CommittedLogs, Committed
    <2> QED  BY <2>1, <2>2, <2>3 DEF Stored!vars
<1> QED  BY <1>1, <1>2, <1>3

\* Batches, receipts that come in any order, retries and attempts that fail are
\* invisible to the readers of the database: the rows of a block appear with the
\* block's own and are those of a single pass over its transactions, for blocks of
\* any length and batches of any size.
THEOREM StoresBlock == Spec => StoredAtOnce
<1>1. Init => Whole /\ Tallied
    <2>1. Init => Fresh /\ l2_block \in Blocks /\ block_row = NoRow  BY DEF Init, Fresh
    <2> QED  BY <2>1, InitInvariant, WholeFresh, TalliedFresh
<1>2. Init => Stored!Init
    BY DEF Init, Stored!Init, CommittedTransactions, CommittedLogs, Committed
<1>3. IInv /\ Whole /\ Tallied /\ [Next]_vars => Whole' /\ Tallied'
    BY WholeNext, TalliedNext
<1>4. IInv /\ Whole /\ Tallied /\ Tallied' /\ [Next]_vars => [Stored!Store]_(Stored!vars)
    BY StepStored
<1> QED  BY <1>1, <1>2, <1>3, <1>4, Invariance, PTL DEF Spec, StoredAtOnce, Stored!Spec
=============================================================================
