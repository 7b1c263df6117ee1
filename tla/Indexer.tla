------------------------------- MODULE Indexer -------------------------------
(***************************************************************************)
(* The sync mode of the web3 indexer: Runner::run and Runner::insert       *)
(* (crates/indexer/src/runner.rs), the Web3Indexer it drives (indexer.rs,  *)
(* insert_l2_block.rs), the Postgres tables they write, and the Godwoken   *)
(* node they follow.                                                       *)
(*                                                                         *)
(* One call of Runner::insert is the loop                                  *)
(*     fetch -> check -> store -> bump                                     *)
(*                    -> delete -> revert                                  *)
(* whose steps are separated by awaits: between any two of them the node   *)
(* may produce or revert blocks, a call may fail, and the process may die. *)
(* Every Postgres transaction is one step, because readers of the database *)
(* only see committed rows.                                                *)
(***************************************************************************)
EXTENDS Integers, Sequences, Functions

CONSTANTS
    Block,      \* L2 block hashes
    NoBlock,    \* the zero hash: the parent of a first block
    Parent,     \* Parent[b]: the parent_block_hash that b commits to
    Ancestors,  \* Ancestors[b]: every block below b
    Tx,         \* transaction hashes
    TxsOf,      \* TxsOf[b]: the transactions of b
    Emits       \* the transactions that emit logs

ASSUME BlockAssumption ==
    /\ NoBlock \notin Block
    /\ Parent \in [Block -> Block \cup {NoBlock}]
    /\ Ancestors \in [Block -> SUBSET Block]

\* Hash links make a forest: no block is below itself.
ASSUME AncestorAssumption ==
    \A b \in Block :
        /\ b \notin Ancestors[b]
        /\ Ancestors[b] = IF Parent[b] = NoBlock
                          THEN {}
                          ELSE {Parent[b]} \cup Ancestors[Parent[b]]

\* A chain never includes a transaction twice (each consumes a nonce), though
\* blocks of different forks may well hold the same transaction.
ASSUME TxAssumption ==
    /\ TxsOf \in [Block -> SUBSET Tx]
    /\ Emits \subseteq Tx
    /\ \A b \in Block : \A a \in Ancestors[b] : TxsOf[a] \cap TxsOf[b] = {}

NoTip == -1                     \* Option::None of a tip: number 0 comes next

VARIABLES
    node,           \* the node's chain, block number n at position n + 1
    abandoned,      \* history: the blocks the node has ever reverted
    blocks,         \* table blocks: number -> hash (number is its key)
    transactions,   \* table transactions
    logs,           \* table logs
    local_tip,      \* Runner.local_tip
    pc,             \* where Runner::insert is
    fetched         \* its current_block_number and current_block

nodeVars == <<node, abandoned>>
dbVars == <<blocks, transactions, logs>>
runnerVars == <<local_tip, pc, fetched>>
vars == <<nodeVars, dbVars, runnerVars>>

Step == {"fetch", "check", "store", "bump", "delete", "revert"}

NothingFetched == [number |-> 0, hash |-> NoBlock]

TxRow == [hash : Tx, block_number : Nat, block_hash : Block]

-----------------------------------------------------------------------------
\* The database.

\* Rows of the two child tables that belong to block b stored at number n.
TxRowsOf(b, n) ==
    {[hash |-> t, block_number |-> n, block_hash |-> b] : t \in TxsOf[b]}
LogRowsOf(b, n) ==
    {[hash |-> t, block_number |-> n, block_hash |-> b] : t \in TxsOf[b] \cap Emits}

\* select number from blocks order by number desc limit 1
Highest(numbers) ==
    IF numbers = {} THEN NoTip
    ELSE CHOOSE n \in numbers : \A m \in numbers : m <= n
DbTip == Highest(DOMAIN blocks)

\* A unique index (blocks.number, blocks.hash, transactions.hash) rejects b. Those on
\* eth_tx_hash and on a transaction's position in its block reject no more: they meet
\* the same rows, of the same transactions and of a block of that number or hash.
Conflicts(b, n) ==
    \/ n \in DOMAIN blocks
    \/ \E m \in DOMAIN blocks : blocks[m] = b
    \/ \E r \in transactions : r.hash \in TxsOf[b]

Init ==
    /\ node = << >>
    /\ abandoned = {}
    /\ blocks = << >>
    /\ transactions = {}
    /\ logs = {}
    /\ local_tip = NoTip
    /\ pc = "fetch"
    /\ fetched = NothingFetched

-----------------------------------------------------------------------------
\* The Godwoken node. It reverts and then produces again; at any time it has
\* one block per number.

Produce(b) ==
    /\ Parent[b] = IF node = << >> THEN NoBlock ELSE node[Len(node)]
    /\ node' = Append(node, b)
    /\ UNCHANGED <<abandoned, dbVars, runnerVars>>

Revert(n) ==
    /\ node' = SubSeq(node, 1, n)
    /\ abandoned' = abandoned \cup {node[i] : i \in (n + 1) .. Len(node)}
    /\ UNCHANGED <<dbVars, runnerVars>>

-----------------------------------------------------------------------------
\* Runner::insert.

\* Runner::tip
Tip == IF local_tip # NoTip THEN local_tip ELSE DbTip

Goto(step) ==
    /\ pc' = step
    /\ fetched' = IF step = "fetch" THEN NothingFetched ELSE fetched

\* Mutant: number 1 is not compared with its parent.
FetchBlockByOne ==
    LET number == Tip + 1 IN
    /\ pc = "fetch"
    /\ number < Len(node)
    /\ fetched' = [number |-> number, hash |-> node[number + 1]]
    /\ pc' = IF number > 1 THEN "check" ELSE "store"
    /\ UNCHANGED <<nodeVars, dbVars, local_tip>>

\* Ask the node for the block after the tip. If it has none yet, insert
\* returns false, the runner sleeps and nothing has changed.
FetchBlock ==
    LET number == Tip + 1 IN
    /\ pc = "fetch"
    /\ number < Len(node)
    /\ fetched' = [number |-> number, hash |-> node[number + 1]]
    /\ pc' = IF number > 0 THEN "check" ELSE "store"
    /\ UNCHANGED <<nodeVars, dbVars, local_tip>>

\* Mutant: the parent is not compared.
CheckParentNot ==
    /\ pc = "check"
    /\ Goto(IF fetched.number - 1 \notin DOMAIN blocks THEN "fetch" ELSE "store")
    /\ UNCHANGED <<nodeVars, dbVars, local_tip>>

\* Mutant: the comparison is the wrong way round.
CheckParentSwapped ==
    LET prev == fetched.number - 1 IN
    /\ pc = "check"
    /\ Goto(IF prev \notin DOMAIN blocks THEN "fetch"
            ELSE IF Parent[fetched.hash] # blocks[prev] THEN "store" ELSE "delete")
    /\ UNCHANGED <<nodeVars, dbVars, local_tip>>

\* Mutant: a block of another fork is left for later.
CheckParentWaits ==
    LET prev == fetched.number - 1 IN
    /\ pc = "check"
    /\ Goto(IF prev \in DOMAIN blocks /\ Parent[fetched.hash] = blocks[prev]
            THEN "store" ELSE "fetch")
    /\ UNCHANGED <<nodeVars, dbVars, local_tip>>

\* Compare its parent with the stored previous block. Without a previous block
\* insert returns true having done nothing.
CheckParent ==
    LET prev == fetched.number - 1 IN
    /\ pc = "check"
    /\ Goto(IF prev \notin DOMAIN blocks THEN "fetch"
            ELSE IF Parent[fetched.hash] = blocks[prev] THEN "store" ELSE "delete")
    /\ UNCHANGED <<nodeVars, dbVars, local_tip>>

\* store_l2_block: block, transactions and logs in one Postgres transaction,
\* unless the number is stored already. A unique-index violation aborts the
\* transaction and ends the process (Restart).
StoreBlock ==
    LET n == fetched.number
        b == fetched.hash
        tip == IF DbTip = NoTip THEN 0 ELSE DbTip IN
    /\ pc = "store"
    /\ IF n > tip \/ n \notin DOMAIN blocks
       THEN /\ ~Conflicts(b, n)
            /\ blocks' = [m \in DOMAIN blocks \cup {n} |-> IF m = n THEN b ELSE blocks[m]]
            /\ transactions' = transactions \cup TxRowsOf(b, n)
            /\ logs' = logs \cup LogRowsOf(b, n)
       ELSE UNCHANGED dbVars
    /\ Goto("bump")
    /\ UNCHANGED <<nodeVars, local_tip>>

BumpTip ==
    /\ pc = "bump"
    /\ local_tip' = IF local_tip # NoTip THEN local_tip + 1
                    ELSE IF DbTip # NoTip THEN DbTip ELSE 0
    /\ Goto("fetch")
    /\ UNCHANGED <<nodeVars, dbVars>>

\* Mutant: the logs of the block stay.
DeleteBlockKeepsLogs ==
    LET prev == fetched.number - 1 IN
    /\ pc = "delete"
    /\ transactions' = {r \in transactions : r.block_number # prev}
    /\ blocks' = Restrict(blocks, DOMAIN blocks \ {prev})
    /\ Goto("revert")
    /\ UNCHANGED <<nodeVars, logs, local_tip>>

\* Mutant: the transactions of the block stay.
DeleteBlockKeepsTransactions ==
    LET prev == fetched.number - 1 IN
    /\ pc = "delete"
    /\ logs' = {r \in logs : r.block_number # prev}
    /\ blocks' = Restrict(blocks, DOMAIN blocks \ {prev})
    /\ Goto("revert")
    /\ UNCHANGED <<nodeVars, transactions, local_tip>>

\* delete_block: the previous number leaves the three tables in one Postgres
\* transaction.
DeleteBlock ==
    LET prev == fetched.number - 1 IN
    /\ pc = "delete"
    /\ logs' = {r \in logs : r.block_number # prev}
    /\ transactions' = {r \in transactions : r.block_number # prev}
    /\ blocks' = Restrict(blocks, DOMAIN blocks \ {prev})
    /\ Goto("revert")
    /\ UNCHANGED <<nodeVars, local_tip>>

\* Mutant: a tip of 0 or none is decremented too.
RevertTipBelowZero ==
    /\ pc = "revert"
    /\ local_tip' = local_tip - 1
    /\ Goto("fetch")
    /\ UNCHANGED <<nodeVars, dbVars>>

\* Mutant: the local tip keeps naming the deleted block.
RevertTipForgotten ==
    /\ pc = "revert"
    /\ Goto("fetch")
    /\ UNCHANGED <<nodeVars, dbVars, local_tip>>

RevertTip ==
    /\ pc = "revert"
    /\ local_tip' = IF local_tip = NoTip \/ local_tip = 0 THEN NoTip ELSE local_tip - 1
    /\ Goto("fetch")
    /\ UNCHANGED <<nodeVars, dbVars>>

\* The receipt calls made while a block is being stored fail with a
\* ConnectionError: the open Postgres transaction is dropped and Runner::run
\* calls insert again, with the same local_tip.
ConnectionError ==
    /\ pc = "store"
    /\ Goto("fetch")
    /\ UNCHANGED <<nodeVars, dbVars, local_tip>>

\* Any other error leaves Runner::run and main; a crash does the same at any
\* step. The supervisor starts a process that knows no local tip. When this
\* happens on the way out of StoreBlock or DeleteBlock the transaction has
\* committed; when it happens before them it has not.
Restart ==
    /\ local_tip' = NoTip
    /\ Goto("fetch")
    /\ UNCHANGED <<nodeVars, dbVars>>

RunnerNext ==
    FetchBlock \/ CheckParent \/ StoreBlock \/ BumpTip \/ DeleteBlock \/ RevertTip

Next ==
    \/ \E b \in Block : Produce(b)
    \/ \E n \in 0 .. (Len(node) - 1) : Revert(n)
    \/ RunnerNext
    \/ ConnectionError
    \/ Restart

Spec == Init /\ [][Next]_vars

-----------------------------------------------------------------------------
\* Properties.

TypeOK ==
    /\ node \in Seq(Block)
    /\ abandoned \subseteq Block
    /\ DOMAIN blocks \subseteq Nat
    /\ blocks \in [DOMAIN blocks -> Block]
    /\ transactions \subseteq TxRow
    /\ logs \subseteq TxRow
    /\ local_tip \in Nat \cup {NoTip}
    /\ pc \in Step
    /\ fetched \in [number : Nat, hash : Block \cup {NoBlock}]

\* The stored numbers are 0 .. tip without a hole.
Contiguous == DOMAIN blocks = 0 .. DbTip

\* Every stored block is the child of the block stored under it.
Linked ==
    \A n \in DOMAIN blocks :
        Parent[blocks[n]] = IF n = 0 THEN NoBlock ELSE blocks[n - 1]

\* What the api-server reads is one hash-linked chain from number 0 to the tip,
\* whatever reverts, errors and restarts happen between the indexer's steps.
ChainStored == Contiguous /\ Linked

\* The child tables hold exactly the transactions and logs of the stored
\* blocks: nothing of a rolled-back block survives, nothing of a stored block
\* is missing.
RowsComplete ==
    /\ transactions = UNION {TxRowsOf(blocks[n], n) : n \in DOMAIN blocks}
    /\ logs = UNION {LogRowsOf(blocks[n], n) : n \in DOMAIN blocks}

\* A tip the runner remembers is the database's own tip whenever insert starts:
\* bump_tip and revert_tip keep step with the committed transactions, so the
\* next number asked for is never one that leaves a hole or already exists.
TipRemembered == pc = "fetch" /\ local_tip # NoTip => local_tip = DbTip

\* A block about to be stored breaks no unique index, although the blocks of
\* an abandoned fork may hold the same transactions: otherwise the process
\* would fail on the same insert at every restart.
NoUniqueViolation == pc = "store" => ~Conflicts(fetched.hash, fetched.number)

\* The indexer only ever removes a block that the node had reverted, even when
\* the node changes again between the reply and the delete.
OnlyAbandonedRemoved ==
    [][\A n \in DOMAIN blocks :
           n \in DOMAIN blocks' \/ blocks[n] \in abandoned]_vars

\* The stored chain as IndexedChain sees it.
StoredChain == [i \in 1 .. (DbTip + 1) |-> blocks[i - 1]]

Abstract == INSTANCE IndexedChain WITH chain <- StoredChain

\* Runner::insert implements the chain promised to readers.
ImplementsIndexedChain == Abstract!Spec

-----------------------------------------------------------------------------
\* Liveness.

Fault == ConnectionError \/ Restart

\* The runner is a loop that always takes its next step. Nothing can be said
\* while faults keep hitting it or while the node keeps reverting, so both are
\* assumed to end; blocks may be produced at any time.
Quiet == <>[][~Fault /\ ~\E n \in 0 .. (Len(node) - 1) : Revert(n)]_vars

FairSpec == Spec /\ WF_vars(RunnerNext) /\ Quiet

\* If insert starts while the node is ahead of the database and the node then
\* stays at one chain, the database ends up holding exactly that chain, however
\* many blocks of another fork it has to remove first. (Ahead is needed: a node
\* that reverts to a chain no longer than the stored one answers null for the
\* next number, and the stored fork stays until the node outgrows it.)
CatchesUp ==
    \A b \in Block :
        (/\ pc = "fetch"
         /\ DbTip + 1 < Len(node)
         /\ [](node # << >> /\ node[Len(node)] = b))
            ~> [](StoredChain = node)
=============================================================================
