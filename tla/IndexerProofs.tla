--------------------------- MODULE IndexerProofs ---------------------------
(***************************************************************************)
(* Proofs about Indexer for every forest of blocks: the inductive          *)
(* invariant IInv, the invariants it implies, the action property on       *)
(* rollbacks, the refinement of IndexedChain, and the measure by which the *)
(* tables come closer to the node's chain.                                 *)
(***************************************************************************)
EXTENDS Indexer, SequenceTheorems, FiniteSetTheorems, TLAPS

-----------------------------------------------------------------------------
\* The inductive invariant.

\* The node's own chain is hash-linked.
NodeLinked ==
    \A i \in 1 .. Len(node) :
        Parent[node[i]] = IF i = 1 THEN NoBlock ELSE node[i - 1]

\* Stored blocks are above all the blocks stored under them.
StoredAncestors ==
    \A n \in DOMAIN blocks : \A m \in DOMAIN blocks :
        m < n => blocks[m] \in Ancestors[blocks[n]]

\* Block b is the node's block number n, or the node has reverted it.
HeldOrAbandoned(b, n) ==
    \/ b \in abandoned
    \/ n < Len(node) /\ node[n + 1] = b

StoredKnown == \A n \in DOMAIN blocks : HeldOrAbandoned(blocks[n], n)

\* What the runner knows of the block it has fetched.
FetchedKnown ==
    pc \in {"check", "store", "delete"} =>
        /\ fetched.hash \in Block
        /\ fetched.number = DbTip + 1
        /\ HeldOrAbandoned(fetched.hash, fetched.number)

CheckPending ==
    pc = "check" =>
        /\ DbTip >= 0
        /\ \/ Parent[fetched.hash] = blocks[DbTip]
           \/ blocks[DbTip] \in abandoned

StorePending ==
    pc = "store" =>
        Parent[fetched.hash] = IF DbTip = NoTip THEN NoBlock ELSE blocks[DbTip]

DeletePending ==
    pc = "delete" => DbTip >= 0 /\ blocks[DbTip] \in abandoned

\* local_tip lags the database by exactly the step the runner is about to make.
TipLag ==
    /\ pc \in {"fetch", "check", "store", "delete"} => local_tip \in {NoTip, DbTip}
    /\ pc = "bump" => DbTip >= 0 /\ local_tip \in {NoTip, DbTip - 1}
    /\ pc = "revert" => local_tip \in {NoTip, DbTip + 1}

RunnerInv == FetchedKnown /\ CheckPending /\ StorePending /\ DeletePending /\ TipLag

\* The rows of the child tables, one by one.
IsTxRow(r) ==
    /\ r \in TxRow
    /\ r.block_number \in DOMAIN blocks
    /\ r.block_hash = blocks[r.block_number]
    /\ r.hash \in TxsOf[r.block_hash]
RowsMatch ==
    /\ \A r : r \in transactions <=> IsTxRow(r)
    /\ \A r : r \in logs <=> IsTxRow(r) /\ r.hash \in Emits

ChainInv == Contiguous /\ Linked /\ StoredAncestors

IInv ==
    /\ TypeOK
    /\ DbTip \in Nat \cup {NoTip}
    /\ ChainInv
    /\ NodeLinked
    /\ StoredKnown
    /\ RunnerInv
    /\ RowsMatch

-----------------------------------------------------------------------------
\* Lemmas about the operators.

\* The highest number of a gapless table is its tip.
LEMMA HighestOfInterval ==
    ASSUME NEW k \in Nat \cup {NoTip}
    PROVE  Highest(0 .. k) = k
<1>1. CASE k = NoTip
    <2>1. 0 .. k = {}  BY <1>1 DEF NoTip
    <2> QED  BY <2>1, <1>1 DEF Highest
<1>2. CASE k \in Nat
    <2> DEFINE IsMax(n) == \A m \in 0 .. k : m <= n
    <2>1. k \in 0 .. k /\ IsMax(k)  BY <1>2
    <2>2. \A n \in 0 .. k : IsMax(n) => n = k  BY <2>1, <1>2
    <2>3. (CHOOSE n \in 0 .. k : IsMax(n)) = k  BY <2>1, <2>2
    <2> QED  BY <2>1, <2>3 DEF Highest
<1> QED  BY <1>1, <1>2

\* Going below a child adds exactly its parent.
LEMMA AncestorsOfChild ==
    ASSUME NEW b \in Block, Parent[b] \in Block
    PROVE  Ancestors[b] = {Parent[b]} \cup Ancestors[Parent[b]]
BY AncestorAssumption, BlockAssumption

\* RowsMatch is RowsComplete read row by row.
LEMMA RowsMatchComplete ==
    ASSUME TypeOK
    PROVE  RowsMatch <=> RowsComplete
<1> USE DEF TypeOK
<1> DEFINE Txs == UNION {TxRowsOf(blocks[n], n) : n \in DOMAIN blocks}
           Lgs == UNION {LogRowsOf(blocks[n], n) : n \in DOMAIN blocks}
<1>1. \A r : r \in Txs <=> \E n \in DOMAIN blocks : r \in TxRowsOf(blocks[n], n)
    OBVIOUS
<1>2. \A r : r \in Lgs <=> \E n \in DOMAIN blocks : r \in LogRowsOf(blocks[n], n)
    OBVIOUS
<1>3. ASSUME NEW r, NEW n \in DOMAIN blocks, r \in TxRowsOf(blocks[n], n)
      PROVE  IsTxRow(r)
    <2>1. PICK t \in TxsOf[blocks[n]] :
              r = [hash |-> t, block_number |-> n, block_hash |-> blocks[n]]
        BY <1>3 DEF TxRowsOf
    <2>2. blocks[n] \in Block /\ n \in Nat /\ t \in Tx
        BY <2>1, TxAssumption
    <2> QED  BY <2>1, <2>2 DEF IsTxRow, TxRow
<1>4. ASSUME NEW r, IsTxRow(r)
      PROVE  r \in TxRowsOf(blocks[r.block_number], r.block_number)
    BY <1>4 DEF IsTxRow, TxRow, TxRowsOf
<1>5. \A r, n : r \in LogRowsOf(blocks[n], n)
                  <=> r \in TxRowsOf(blocks[n], n) /\ r.hash \in Emits
    BY DEF LogRowsOf, TxRowsOf
<1>6. \A r : r \in Txs <=> IsTxRow(r)
    <2> TAKE r
    <2>1. IsTxRow(r) => r \in Txs  BY <1>1, <1>4 DEF IsTxRow
    <2>2. r \in Txs => IsTxRow(r)  BY <1>1, <1>3
    <2> QED  BY <2>1, <2>2
<1>7. \A r : r \in Lgs <=> IsTxRow(r) /\ r.hash \in Emits
    <2> TAKE r
    <2>1. IsTxRow(r) /\ r.hash \in Emits => r \in Lgs
        BY <1>2, <1>4, <1>5 DEF IsTxRow
    <2>2. r \in Lgs => IsTxRow(r) /\ r.hash \in Emits  BY <1>2, <1>3, <1>5
    <2> QED  BY <2>1, <2>2
<1>8. RowsComplete <=> transactions = Txs /\ logs = Lgs  BY DEF RowsComplete
<1>9. (transactions = Txs) <=> \A r : r \in transactions <=> r \in Txs  OBVIOUS
<1>10. (logs = Lgs) <=> \A r : r \in logs <=> r \in Lgs  OBVIOUS
<1> HIDE DEF Txs, Lgs
<1> QED  BY <1>6, <1>7, <1>8, <1>9, <1>10 DEF RowsMatch

-----------------------------------------------------------------------------
\* One lemma per step of the system: each preserves the invariant.

LEMMA InitInv == Init => IInv
<1> SUFFICES ASSUME Init PROVE IInv  OBVIOUS
<1> USE DEF Init
<1>1. DOMAIN blocks = {}  OBVIOUS
<1>2. DbTip = NoTip  BY <1>1 DEF DbTip, Highest
<1>3. TypeOK  BY <1>1 DEF TypeOK, Step, NothingFetched
<1>4. ChainInv
    BY <1>1, <1>2 DEF ChainInv, Contiguous, Linked, StoredAncestors, NoTip
<1>5. NodeLinked /\ StoredKnown  BY <1>1 DEF NodeLinked, StoredKnown
<1>6. RunnerInv
    BY DEF RunnerInv, FetchedKnown, CheckPending, StorePending, DeletePending, TipLag
<1>7. RowsMatch  BY <1>1 DEF RowsMatch, IsTxRow
<1> QED  BY <1>2, <1>3, <1>4, <1>5, <1>6, <1>7 DEF IInv

\* The database conjuncts depend on the database alone.
LEMMA DatabaseUnchanged ==
    ASSUME IInv, UNCHANGED dbVars
    PROVE  DbTip' = DbTip /\ ChainInv' /\ RowsMatch'
<1>1. blocks' = blocks /\ transactions' = transactions /\ logs' = logs
    BY DEF dbVars
<1>2. DbTip' = DbTip  BY <1>1 DEF DbTip
<1>3. ChainInv'
    BY <1>1, <1>2 DEF IInv, ChainInv, Contiguous, Linked, StoredAncestors
<1>4. RowsMatch'  BY <1>1 DEF IInv, RowsMatch, IsTxRow
<1> QED  BY <1>2, <1>3, <1>4

\* A block the node holds or has reverted stays one it holds or has reverted.
LEMMA NodeStep ==
    ASSUME IInv,
           \/ \E b \in Block : Produce(b)
           \/ \E n \in 0 .. (Len(node) - 1) : Revert(n)
    PROVE  /\ node' \in Seq(Block) /\ abandoned' \subseteq Block
           /\ abandoned \subseteq abandoned'
           /\ NodeLinked'
           /\ \A b, n : n \in Nat /\ HeldOrAbandoned(b, n) => HeldOrAbandoned(b, n)'
<1> USE DEF IInv, TypeOK
<1>1. CASE \E b \in Block : Produce(b)
    <2>1. PICK b \in Block : Produce(b)  BY <1>1
    <2>2. /\ node' = Append(node, b) /\ abandoned' = abandoned
          /\ Parent[b] = IF node = << >> THEN NoBlock ELSE node[Len(node)]
        BY <2>1 DEF Produce
    <2>3. /\ Len(node') = Len(node) + 1
          /\ \A i \in 1 .. Len(node) : node'[i] = node[i]
          /\ node'[Len(node) + 1] = b
        BY <2>2
    <2>4. NodeLinked'
        <3> SUFFICES ASSUME NEW i \in 1 .. Len(node')
                     PROVE  Parent[node'[i]] = IF i = 1 THEN NoBlock ELSE node'[i - 1]
            BY DEF NodeLinked
        <3>1. CASE i \in 1 .. Len(node)  BY <3>1, <2>3 DEF NodeLinked
        <3>2. CASE i = Len(node) + 1
            <4>1. node = << >> <=> Len(node) = 0  OBVIOUS
            <4> QED  BY <3>2, <2>2, <2>3, <4>1
        <3> QED  BY <3>1, <3>2, <2>3
    <2>5. \A c, n : n \in Nat /\ HeldOrAbandoned(c, n) => HeldOrAbandoned(c, n)'
        BY <2>2, <2>3 DEF HeldOrAbandoned
    <2> QED  BY <2>2, <2>4, <2>5
<1>2. CASE \E n \in 0 .. (Len(node) - 1) : Revert(n)
    <2>1. PICK k \in 0 .. (Len(node) - 1) : Revert(k)  BY <1>2
    <2>2. /\ node' = SubSeq(node, 1, k)
          /\ abandoned' = abandoned \cup {node[i] : i \in (k + 1) .. Len(node)}
        BY <2>1 DEF Revert
    <2>3. /\ node' \in Seq(Block) /\ Len(node') = k
          /\ \A i \in 1 .. k : node'[i] = node[i]
        BY <2>2
    <2>4. abandoned' \subseteq Block  BY <2>2
    <2>5. NodeLinked'  BY <2>3 DEF NodeLinked
    <2>6. ASSUME NEW c, NEW n \in Nat, HeldOrAbandoned(c, n)
          PROVE  HeldOrAbandoned(c, n)'
        <3>1. CASE c \in abandoned  BY <3>1, <2>2 DEF HeldOrAbandoned
        <3>2. CASE n < k /\ node[n + 1] = c  BY <3>2, <2>3 DEF HeldOrAbandoned
        <3>3. CASE n >= k /\ n < Len(node) /\ node[n + 1] = c
            <4>1. n + 1 \in (k + 1) .. Len(node)  BY <3>3
            <4>2. c \in abandoned'  BY <4>1, <3>3, <2>2
            <4> QED  BY <4>2 DEF HeldOrAbandoned
        <3> QED  BY <2>6, <3>1, <3>2, <3>3 DEF HeldOrAbandoned
    <2> QED  BY <2>2, <2>3, <2>4, <2>5, <2>6
<1> QED  BY <1>1, <1>2

\* Produce and Revert.
LEMMA NodeInv ==
    ASSUME IInv,
           \/ \E b \in Block : Produce(b)
           \/ \E n \in 0 .. (Len(node) - 1) : Revert(n)
    PROVE  IInv'
<1>1. UNCHANGED <<dbVars, runnerVars>>  BY DEF Produce, Revert
<1>2. DbTip' = DbTip /\ ChainInv' /\ RowsMatch'  BY <1>1, DatabaseUnchanged
<1>3. blocks' = blocks /\ pc' = pc /\ fetched' = fetched /\ local_tip' = local_tip
    BY <1>1 DEF dbVars, runnerVars
<1>4. TypeOK'  BY <1>1, NodeStep DEF IInv, TypeOK, dbVars, runnerVars
<1>5. StoredKnown'
    BY <1>3, NodeStep DEF IInv, TypeOK, StoredKnown
<1>6. RunnerInv'
    <2>1. FetchedKnown'
        BY <1>2, <1>3, NodeStep DEF IInv, TypeOK, RunnerInv, FetchedKnown
    <2>2. CheckPending' /\ StorePending' /\ DeletePending' /\ TipLag'
        BY <1>2, <1>3, NodeStep
        DEF IInv, RunnerInv, CheckPending, StorePending, DeletePending, TipLag
    <2> QED  BY <2>1, <2>2 DEF RunnerInv
<1> QED  BY <1>2, <1>4, <1>5, <1>6, NodeStep DEF IInv

\* A step of the runner that leaves node and database alone.
LEMMA RunnerOnly ==
    ASSUME IInv, UNCHANGED <<nodeVars, dbVars>>
    PROVE  /\ DbTip' = DbTip /\ blocks' = blocks /\ abandoned' = abandoned
           /\ node' = node
           /\ ChainInv' /\ RowsMatch' /\ NodeLinked' /\ StoredKnown'
           /\ \A b, n : HeldOrAbandoned(b, n)' <=> HeldOrAbandoned(b, n)
<1>1. node' = node /\ abandoned' = abandoned /\ blocks' = blocks
    BY DEF nodeVars, dbVars
<1>2. DbTip' = DbTip /\ ChainInv' /\ RowsMatch'  BY DatabaseUnchanged
<1>3. NodeLinked' /\ StoredKnown'
    BY <1>1 DEF IInv, NodeLinked, StoredKnown, HeldOrAbandoned
<1> QED  BY <1>1, <1>2, <1>3 DEF HeldOrAbandoned

LEMMA FetchInv ==
    ASSUME IInv, FetchBlock
    PROVE  IInv'
<1> DEFINE number == Tip + 1
<1>1. /\ pc = "fetch" /\ number < Len(node)
      /\ fetched' = [number |-> number, hash |-> node[number + 1]]
      /\ pc' = IF number > 0 THEN "check" ELSE "store"
      /\ local_tip' = local_tip
      /\ UNCHANGED <<nodeVars, dbVars>>
    BY DEF FetchBlock
<1>2. Tip = DbTip  BY <1>1 DEF Tip, IInv, RunnerInv, TipLag
<1>3. DbTip \in Nat \cup {NoTip} /\ number = DbTip + 1 /\ number \in Nat
    BY <1>2 DEF IInv, NoTip
<1>4. node[number + 1] \in Block  BY <1>1, <1>3 DEF IInv, TypeOK
<1>5. TypeOK'
    BY <1>1, <1>3, <1>4 DEF IInv, TypeOK, Step, nodeVars, dbVars
<1>6. HeldOrAbandoned(node[number + 1], number)
    BY <1>1 DEF HeldOrAbandoned
<1>7. FetchedKnown'
    BY <1>1, <1>3, <1>4, <1>6, RunnerOnly DEF FetchedKnown
<1>8. Parent[node[number + 1]] = IF number = 0 THEN NoBlock ELSE node[number]
    BY <1>1, <1>3 DEF IInv, NodeLinked, TypeOK
<1>9. CheckPending'
    <2> SUFFICES ASSUME number > 0
                 PROVE  /\ DbTip >= 0
                        /\ \/ Parent[node[number + 1]] = blocks[DbTip]
                           \/ blocks[DbTip] \in abandoned
        BY <1>1, RunnerOnly DEF CheckPending
    <2>1. DbTip \in Nat /\ DbTip >= 0  BY <1>3 DEF NoTip
    <2>2. DbTip \in DOMAIN blocks  BY <2>1 DEF IInv, ChainInv, Contiguous
    <2>3. HeldOrAbandoned(blocks[DbTip], DbTip)  BY <2>2 DEF IInv, StoredKnown
    <2> QED  BY <1>3, <1>8, <2>1, <2>3 DEF HeldOrAbandoned
<1>10. StorePending'
    <2> SUFFICES ASSUME ~(number > 0)
                 PROVE  Parent[node[number + 1]]
                            = IF DbTip = NoTip THEN NoBlock ELSE blocks[DbTip]
        BY <1>1, RunnerOnly DEF StorePending
    <2> QED  BY <1>3, <1>8 DEF NoTip
<1>11. DeletePending' /\ TipLag'
    BY <1>1, RunnerOnly DEF DeletePending, TipLag, IInv, RunnerInv
<1> QED
    BY <1>3, <1>5, <1>7, <1>9, <1>10, <1>11, <1>1, RunnerOnly DEF IInv, RunnerInv

LEMMA CheckInv ==
    ASSUME IInv, CheckParent
    PROVE  IInv'
<1> DEFINE prev == fetched.number - 1
<1>1. /\ pc = "check" /\ local_tip' = local_tip
      /\ UNCHANGED <<nodeVars, dbVars>>
      /\ Goto(IF prev \notin DOMAIN blocks THEN "fetch"
              ELSE IF Parent[fetched.hash] = blocks[prev] THEN "store" ELSE "delete")
    BY DEF CheckParent
<1>2. /\ fetched.hash \in Block /\ fetched.number = DbTip + 1
      /\ HeldOrAbandoned(fetched.hash, fetched.number)
      /\ DbTip >= 0
      /\ \/ Parent[fetched.hash] = blocks[DbTip]
         \/ blocks[DbTip] \in abandoned
    BY <1>1 DEF IInv, RunnerInv, FetchedKnown, CheckPending
<1>3. DbTip \in Nat /\ prev = DbTip  BY <1>2 DEF IInv, NoTip
<1>4. prev \in DOMAIN blocks  BY <1>2, <1>3 DEF IInv, ChainInv, Contiguous
<1>5. /\ fetched' = fetched
      /\ pc' = IF Parent[fetched.hash] = blocks[DbTip] THEN "store" ELSE "delete"
    BY <1>1, <1>3, <1>4 DEF Goto
<1>6. TypeOK'  BY <1>1, <1>5 DEF IInv, TypeOK, Step, nodeVars, dbVars
<1>7. FetchedKnown'  BY <1>2, <1>5, <1>1, RunnerOnly DEF FetchedKnown
<1>8. CheckPending' /\ StorePending' /\ DeletePending'
    BY <1>1, <1>2, <1>3, <1>5, RunnerOnly
    DEF CheckPending, StorePending, DeletePending, NoTip
<1>9. TipLag'  BY <1>1, <1>5, RunnerOnly DEF TipLag, IInv, RunnerInv
<1> QED  BY <1>1, <1>6, <1>7, <1>8, <1>9, RunnerOnly DEF IInv, RunnerInv

\* BumpTip, RevertTip, ConnectionError and Restart go back to "fetch" with a
\* local tip that is none or the database's.
LEMMA BackToFetch ==
    ASSUME IInv, UNCHANGED <<nodeVars, dbVars>>, Goto("fetch"),
           local_tip' \in {NoTip, DbTip}
    PROVE  IInv'
<1>1. pc' = "fetch" /\ fetched' = NothingFetched  BY DEF Goto
<1>2. DbTip \in Nat \cup {NoTip}  BY DEF IInv
<1>3. TypeOK'
    BY <1>1, <1>2 DEF IInv, TypeOK, Step, NothingFetched, nodeVars, dbVars
<1>4. RunnerInv'
    BY <1>1, RunnerOnly
    DEF RunnerInv, FetchedKnown, CheckPending, StorePending, DeletePending, TipLag
<1> QED  BY <1>2, <1>3, <1>4, RunnerOnly DEF IInv

LEMMA TipInv ==
    ASSUME IInv, BumpTip \/ RevertTip \/ ConnectionError \/ Restart
    PROVE  IInv'
<1>0. DbTip \in Nat \cup {NoTip} /\ local_tip \in Nat \cup {NoTip} /\ TipLag
    BY DEF IInv, TypeOK, RunnerInv
<1>1. CASE BumpTip
    <2>1. /\ UNCHANGED <<nodeVars, dbVars>> /\ Goto("fetch")
          /\ local_tip' = IF local_tip # NoTip THEN local_tip + 1
                          ELSE IF DbTip # NoTip THEN DbTip ELSE 0
          /\ pc = "bump"
        BY <1>1 DEF BumpTip
    <2>2. local_tip' = DbTip  BY <1>0, <2>1 DEF TipLag, NoTip
    <2> QED  BY <2>1, <2>2, BackToFetch
<1>2. CASE RevertTip
    <2>1. /\ UNCHANGED <<nodeVars, dbVars>> /\ Goto("fetch")
          /\ local_tip' = IF local_tip = NoTip \/ local_tip = 0
                          THEN NoTip ELSE local_tip - 1
          /\ pc = "revert"
        BY <1>2 DEF RevertTip
    <2>2. local_tip' \in {NoTip, DbTip}  BY <1>0, <2>1 DEF TipLag, NoTip
    <2> QED  BY <2>1, <2>2, BackToFetch
<1>3. CASE ConnectionError
    BY <1>0, <1>3, BackToFetch DEF ConnectionError, TipLag
<1>4. CASE Restart  BY <1>4, BackToFetch DEF Restart
<1> QED  BY <1>1, <1>2, <1>3, <1>4

\* The node, and what is known of its blocks, when the database changes.
LEMMA DatabaseOnly ==
    ASSUME IInv, UNCHANGED nodeVars
    PROVE  /\ NodeLinked' /\ abandoned' = abandoned /\ node' = node
           /\ \A b, n : HeldOrAbandoned(b, n)' <=> HeldOrAbandoned(b, n)
BY DEF IInv, NodeLinked, nodeVars, HeldOrAbandoned

LEMMA StoreInv ==
    ASSUME IInv, StoreBlock
    PROVE  IInv'
<1> DEFINE n == fetched.number
           b == fetched.hash
<1>1. pc = "store" /\ Goto("bump") /\ UNCHANGED <<nodeVars, local_tip>>
    BY DEF StoreBlock
<1>2. /\ b \in Block /\ n = DbTip + 1 /\ HeldOrAbandoned(b, n)
      /\ Parent[b] = IF DbTip = NoTip THEN NoBlock ELSE blocks[DbTip]
    BY <1>1 DEF IInv, RunnerInv, FetchedKnown, StorePending
<1>3. /\ DbTip \in Nat \cup {NoTip} /\ n \in Nat
      /\ DOMAIN blocks = 0 .. DbTip /\ n \notin DOMAIN blocks
    BY <1>2 DEF IInv, ChainInv, Contiguous, NoTip
<1>4. /\ blocks' = [m \in DOMAIN blocks \cup {n} |-> IF m = n THEN b ELSE blocks[m]]
      /\ transactions' = transactions \cup TxRowsOf(b, n)
      /\ logs' = logs \cup LogRowsOf(b, n)
    BY <1>3 DEF StoreBlock
<1>5. /\ DOMAIN blocks' = 0 .. n
      /\ blocks'[n] = b
      /\ \A m \in 0 .. DbTip : blocks'[m] = blocks[m] /\ m < n
      /\ \A m \in 0 .. n : m = n \/ m \in 0 .. DbTip
    <2>1. 0 .. n = (0 .. DbTip) \cup {n}  BY <1>2, <1>3 DEF NoTip
    <2> HIDE DEF n, b
    <2> QED  BY <1>2, <1>3, <1>4, <2>1
<1>6. DbTip' = n  BY <1>3, <1>5, HighestOfInterval DEF DbTip
<1>7. pc' = "bump" /\ fetched' = fetched /\ local_tip' = local_tip
    BY <1>1 DEF Goto
<1>8. \A m \in DOMAIN blocks : m \in Nat /\ blocks[m] \in Block
    BY DEF IInv, TypeOK
<1> HIDE DEF n, b
<1>9. TypeOK'
    <2>1. blocks' \in [DOMAIN blocks' -> Block] /\ DOMAIN blocks' \subseteq Nat
        BY <1>2, <1>3, <1>4, <1>5, <1>8
    <2>2. TxRowsOf(b, n) \subseteq TxRow /\ LogRowsOf(b, n) \subseteq TxRow
        BY <1>2, <1>3, TxAssumption DEF TxRowsOf, LogRowsOf, TxRow
    <2>3. transactions' \subseteq TxRow /\ logs' \subseteq TxRow
        BY <1>4, <2>2 DEF IInv, TypeOK
    <2> QED
        BY <1>1, <1>7, <2>1, <2>3 DEF IInv, TypeOK, Step, nodeVars
<1>10. Contiguous'  BY <1>5, <1>6 DEF Contiguous
<1>11. Linked'
    <2> SUFFICES ASSUME NEW m \in 0 .. n
                 PROVE  Parent[blocks'[m]] = IF m = 0 THEN NoBlock ELSE blocks'[m - 1]
        BY <1>5 DEF Linked
    <2>1. CASE m = n  BY <2>1, <1>2, <1>3, <1>5 DEF NoTip
    <2>2. CASE m \in 0 .. DbTip
        <3>1. m = 0 \/ m - 1 \in 0 .. DbTip  BY <2>2, <1>3 DEF NoTip
        <3> QED  BY <2>2, <3>1, <1>3, <1>5 DEF IInv, ChainInv, Linked
    <2> QED  BY <2>1, <2>2, <1>5
<1>12. StoredAncestors'
    <2> SUFFICES ASSUME NEW k \in 0 .. n, NEW m \in 0 .. n, m < k
                 PROVE  blocks'[m] \in Ancestors[blocks'[k]]
        BY <1>5 DEF StoredAncestors
    <2>1. m \in 0 .. DbTip /\ DbTip \in Nat /\ m \in Nat
        BY <1>2, <1>3, <1>5 DEF NoTip
    <2>2. CASE k \in 0 .. DbTip
        BY <2>1, <2>2, <1>3, <1>5 DEF IInv, ChainInv, StoredAncestors
    <2>3. CASE k = n
        <3>1. DbTip \in DOMAIN blocks /\ DbTip # NoTip  BY <2>1, <1>3 DEF NoTip
        <3>2. Parent[b] = blocks[DbTip] /\ Parent[b] \in Block
            BY <1>2, <1>8, <3>1
        <3>3. Ancestors[b] = {blocks[DbTip]} \cup Ancestors[blocks[DbTip]]
            BY <1>2, <3>2, AncestorsOfChild
        <3>4. CASE m = DbTip  BY <3>3, <3>4, <2>3, <1>5, <2>1
        <3>5. CASE m # DbTip
            <4>1. m < DbTip  BY <2>1, <3>5
            <4>2. blocks[m] \in Ancestors[blocks[DbTip]]
                BY <2>1, <3>1, <4>1, <1>3 DEF IInv, ChainInv, StoredAncestors
            <4> QED  BY <4>2, <3>3, <2>1, <2>3, <1>5
        <3> QED  BY <3>4, <3>5
    <2> QED  BY <2>2, <2>3, <1>5
<1>13. StoredKnown'
    BY <1>1, <1>2, <1>3, <1>5, DatabaseOnly DEF StoredKnown, IInv
<1>14. RunnerInv'
    <2>1. TipLag'
        BY <1>1, <1>2, <1>3, <1>6, <1>7 DEF TipLag, IInv, RunnerInv, NoTip
    <2> QED
        BY <1>7, <2>1
        DEF RunnerInv, FetchedKnown, CheckPending, StorePending, DeletePending
<1>15. RowsMatch'
    <2>1. \A r : r \in TxRowsOf(b, n) <=>
                   /\ r \in TxRow /\ r.block_number = n /\ r.block_hash = b
                   /\ r.hash \in TxsOf[b]
        BY <1>2, <1>3, TxAssumption DEF TxRowsOf, TxRow
    <2>2. \A r : r \in LogRowsOf(b, n) <=> r \in TxRowsOf(b, n) /\ r.hash \in Emits
        BY DEF LogRowsOf, TxRowsOf
    <2>3. ASSUME NEW r
          PROVE  IsTxRow(r)' <=> IsTxRow(r) \/ r \in TxRowsOf(b, n)
        <3>1. IsTxRow(r)' <=> /\ r \in TxRow /\ r.block_number \in DOMAIN blocks'
                             /\ r.block_hash = blocks'[r.block_number]
                             /\ r.hash \in TxsOf[r.block_hash]
            BY DEF IsTxRow
        <3>2. CASE r.block_number = n
            BY <3>1, <3>2, <2>1, <1>3, <1>5 DEF IsTxRow
        <3>3. CASE r.block_number # n
            BY <3>1, <3>3, <2>1, <1>3, <1>4 DEF IsTxRow
        <3> QED  BY <3>2, <3>3
    <2> QED  BY <1>4, <2>2, <2>3 DEF IInv, RowsMatch
<1> QED
    BY <1>1, <1>3, <1>6, <1>9, <1>10, <1>11, <1>12, <1>13, <1>14, <1>15, DatabaseOnly
    DEF IInv, ChainInv

LEMMA DeleteInv ==
    ASSUME IInv, DeleteBlock
    PROVE  IInv'
<1> DEFINE prev == fetched.number - 1
<1>1. /\ pc = "delete" /\ Goto("revert") /\ UNCHANGED <<nodeVars, local_tip>>
      /\ logs' = {r \in logs : r.block_number # prev}
      /\ transactions' = {r \in transactions : r.block_number # prev}
      /\ blocks' = [m \in DOMAIN blocks \ {prev} |-> blocks[m]]
    BY DEF DeleteBlock, Restrict
<1>2. prev = DbTip /\ DbTip \in Nat
    BY <1>1 DEF IInv, RunnerInv, FetchedKnown, DeletePending, NoTip
<1>3. DOMAIN blocks = 0 .. DbTip  BY DEF IInv, ChainInv, Contiguous
<1>4. /\ DOMAIN blocks' = 0 .. (DbTip - 1)
      /\ \A m \in 0 .. (DbTip - 1) : m \in DOMAIN blocks /\ blocks'[m] = blocks[m]
    <2>1. (0 .. DbTip) \ {prev} = 0 .. (DbTip - 1)  BY <1>2
    <2> QED  BY <1>1, <1>3, <2>1
<1>5. DbTip' = DbTip - 1 /\ DbTip - 1 \in Nat \cup {NoTip}
    BY <1>2, <1>4, HighestOfInterval DEF DbTip, NoTip
<1>6. pc' = "revert" /\ fetched' = fetched /\ local_tip' = local_tip
    BY <1>1 DEF Goto
<1>7. TypeOK'
    BY <1>1, <1>4, <1>6 DEF IInv, TypeOK, Step, nodeVars
<1>8. Contiguous'  BY <1>4, <1>5 DEF Contiguous
<1>9. Linked'
    <2> SUFFICES ASSUME NEW m \in 0 .. (DbTip - 1)
                 PROVE  Parent[blocks'[m]] = IF m = 0 THEN NoBlock ELSE blocks'[m - 1]
        BY <1>4 DEF Linked
    <2>1. m = 0 \/ m - 1 \in 0 .. (DbTip - 1)  BY <1>2
    <2> QED  BY <2>1, <1>4 DEF IInv, ChainInv, Linked
<1>10. StoredAncestors'
    BY <1>4 DEF IInv, ChainInv, StoredAncestors
<1>11. StoredKnown'
    BY <1>1, <1>4, DatabaseOnly DEF StoredKnown, IInv
<1>12. RunnerInv'
    <2>1. TipLag'  BY <1>1, <1>2, <1>5, <1>6 DEF TipLag, IInv, RunnerInv, NoTip
    <2> QED
        BY <1>6, <2>1
        DEF RunnerInv, FetchedKnown, CheckPending, StorePending, DeletePending
<1>13. RowsMatch'
    <2>1. ASSUME NEW r
          PROVE  IsTxRow(r)' <=> IsTxRow(r) /\ r.block_number # prev
        <3>1. IsTxRow(r)' <=> /\ r \in TxRow /\ r.block_number \in DOMAIN blocks'
                             /\ r.block_hash = blocks'[r.block_number]
                             /\ r.hash \in TxsOf[r.block_hash]
            BY DEF IsTxRow
        <3> QED  BY <3>1, <1>1 DEF IsTxRow
    <2> QED  BY <1>1, <2>1 DEF IInv, RowsMatch
<1> QED
    BY <1>1, <1>5, <1>7, <1>8, <1>9, <1>10, <1>11, <1>12, <1>13, DatabaseOnly
    DEF IInv, ChainInv

-----------------------------------------------------------------------------
\* The theorems.

LEMMA NextInv == IInv /\ [Next]_vars => IInv'
<1> SUFFICES ASSUME IInv, [Next]_vars PROVE IInv'  OBVIOUS
<1>1. CASE \E b \in Block : Produce(b)  BY <1>1, NodeInv
<1>2. CASE \E n \in 0 .. (Len(node) - 1) : Revert(n)  BY <1>2, NodeInv
<1>3. CASE FetchBlock  BY <1>3, FetchInv
<1>4. CASE CheckParent  BY <1>4, CheckInv
<1>5. CASE StoreBlock  BY <1>5, StoreInv
<1>6. CASE DeleteBlock  BY <1>6, DeleteInv
<1>7. CASE BumpTip \/ RevertTip \/ ConnectionError \/ Restart  BY <1>7, TipInv
<1>8. CASE UNCHANGED vars
    <2>1. UNCHANGED <<nodeVars, dbVars>> /\ UNCHANGED runnerVars  BY <1>8 DEF vars
    <2>2. TypeOK'  BY <2>1 DEF IInv, TypeOK, nodeVars, dbVars, runnerVars
    <2>3. RunnerInv'
        BY <2>1, RunnerOnly
        DEF IInv, RunnerInv, FetchedKnown, CheckPending, StorePending,
            DeletePending, TipLag, runnerVars
    <2> QED  BY <2>1, <2>2, <2>3, RunnerOnly DEF IInv
<1> QED  BY <1>1, <1>2, <1>3, <1>4, <1>5, <1>6, <1>7, <1>8 DEF Next, RunnerNext

\* The inductive invariant holds of every behaviour of the indexer.
THEOREM Invariance == Spec => []IInv
<1>1. QED  BY InitInv, NextInv, PTL DEF Spec

\* Tables, local tip and the step of Runner::insert keep their types.
THEOREM TypeCorrect == Spec => []TypeOK
<1>1. IInv => TypeOK  BY DEF IInv
<1> QED  BY <1>1, Invariance, PTL

\* Readers always find one hash-linked chain from number 0 to the tip.
THEOREM ChainIsStored == Spec => []ChainStored
<1>1. IInv => ChainStored  BY DEF IInv, ChainInv, ChainStored
<1> QED  BY <1>1, Invariance, PTL

\* The child tables always hold exactly the rows of the stored blocks.
THEOREM RowsAreComplete == Spec => []RowsComplete
<1>1. IInv => RowsComplete  BY RowsMatchComplete DEF IInv
<1> QED  BY <1>1, Invariance, PTL

\* The remembered tip is the database's whenever Runner::insert starts.
THEOREM TipIsRemembered == Spec => []TipRemembered
<1>1. IInv => TipRemembered  BY DEF IInv, RunnerInv, TipLag, TipRemembered
<1> QED  BY <1>1, Invariance, PTL

\* No insert of the indexer ever breaks a unique index.
THEOREM NoInsertConflicts == Spec => []NoUniqueViolation
<1>1. ASSUME IInv, pc = "store"
      PROVE  ~Conflicts(fetched.hash, fetched.number)
    <2> DEFINE b == fetched.hash
               n == fetched.number
    <2>1. /\ b \in Block /\ n = DbTip + 1 /\ DbTip \in Nat \cup {NoTip}
          /\ DOMAIN blocks = 0 .. DbTip
          /\ Parent[b] = IF DbTip = NoTip THEN NoBlock ELSE blocks[DbTip]
        BY <1>1 DEF IInv, RunnerInv, FetchedKnown, StorePending, ChainInv, Contiguous
    <2>2. \A m \in DOMAIN blocks : blocks[m] \in Block /\ m \in Nat
        BY <1>1 DEF IInv, TypeOK
    <2> HIDE DEF b, n
    <2>3. ASSUME NEW m \in DOMAIN blocks
          PROVE  blocks[m] \in Ancestors[b]
        <3>1. DbTip \in DOMAIN blocks /\ m \in Nat /\ DbTip \in Nat /\ m <= DbTip
            BY <2>1, <2>2 DEF NoTip
        <3>2. Ancestors[b] = {blocks[DbTip]} \cup Ancestors[blocks[DbTip]]
            <4>1. Parent[b] = blocks[DbTip]  BY <2>1, <3>1 DEF NoTip
            <4>2. Parent[b] \in Block  BY <4>1, <3>1, <2>2
            <4> QED  BY <4>1, <4>2, <2>1, AncestorsOfChild
        <3>3. m = DbTip \/ blocks[m] \in Ancestors[blocks[DbTip]]
            BY <3>1, <1>1 DEF IInv, ChainInv, StoredAncestors
        <3> QED  BY <3>2, <3>3
    <2>4. n \notin DOMAIN blocks  BY <2>1 DEF NoTip
    <2>5. \A m \in DOMAIN blocks : blocks[m] # b
        BY <2>1, <2>3, AncestorAssumption
    <2>6. ASSUME NEW r \in transactions PROVE r.hash \notin TxsOf[b]
        <3>1. IsTxRow(r)  BY <1>1 DEF IInv, RowsMatch
        <3>2. r.block_hash \in Ancestors[b] /\ r.hash \in TxsOf[r.block_hash]
            BY <3>1, <2>3 DEF IsTxRow
        <3> QED  BY <3>2, <2>1, TxAssumption
    <2>7. ~Conflicts(b, n)  BY <2>4, <2>5, <2>6 DEF Conflicts
    <2> QED  BY <2>7 DEF b, n
<1>2. IInv => NoUniqueViolation  BY <1>1 DEF NoUniqueViolation
<1> QED  BY <1>2, Invariance, PTL

\* Only blocks the node has reverted are ever removed.
THEOREM RemovedWereAbandoned == Spec => OnlyAbandonedRemoved
<1>1. ASSUME IInv, [Next]_vars, NEW n \in DOMAIN blocks, n \notin DOMAIN blocks'
      PROVE  blocks[n] \in abandoned
    <2>1. CASE DeleteBlock
        <3>1. n = DbTip
            BY <1>1, <2>1
            DEF DeleteBlock, Restrict, IInv, RunnerInv, FetchedKnown, TypeOK, NoTip
        <3> QED  BY <3>1, <1>1, <2>1 DEF DeleteBlock, IInv, RunnerInv, DeletePending
    <2>2. CASE StoreBlock  BY <1>1, <2>2 DEF StoreBlock, dbVars
    <2>3. CASE ~(DeleteBlock \/ StoreBlock)
        <3>1. blocks' = blocks
            BY <1>1, <2>3
            DEF Next, RunnerNext, Produce, Revert, FetchBlock, CheckParent, BumpTip,
                RevertTip, ConnectionError, Restart, vars, dbVars
        <3> QED  BY <3>1, <1>1
    <2> QED  BY <2>1, <2>2, <2>3
<1>2. IInv /\ [Next]_vars
          => [\A n \in DOMAIN blocks :
                 n \in DOMAIN blocks' \/ blocks[n] \in abandoned]_vars
    BY <1>1
<1> QED  BY <1>2, Invariance, PTL DEF Spec, OnlyAbandonedRemoved

\* Runner::insert implements IndexedChain: committing a block pushes it, rolling
\* one back pops it, and every other step leaves the stored chain alone.
THEOREM Refinement == Spec => ImplementsIndexedChain
<1>1. Init => Abstract!Init
    <2>1. Init => DbTip + 1 = 0  BY DEF Init, DbTip, Highest, NoTip
    <2>2. Init => StoredChain = << >>  BY <2>1 DEF StoredChain
    <2> QED  BY <2>2 DEF Abstract!Init
<1>2. ASSUME IInv, IInv', [Next]_vars
      PROVE  [Abstract!Next]_StoredChain
    <2>1. /\ DbTip \in Nat \cup {NoTip} /\ DOMAIN blocks = 0 .. DbTip
          /\ \A n \in 0 .. DbTip : blocks[n] \in Block
        BY <1>2 DEF IInv, ChainInv, Contiguous, TypeOK
    <2>2. StoredChain \in Seq(Block) /\ Len(StoredChain) = DbTip + 1
        <3>1. \A i \in 1 .. (DbTip + 1) : blocks[i - 1] \in Block  BY <2>1 DEF NoTip
        <3> QED  BY <2>1, <3>1 DEF StoredChain, NoTip
    <2>3. CASE StoreBlock
        <3> DEFINE b == fetched.hash
        <3>1. /\ b \in Block /\ fetched.number = DbTip + 1
              /\ Parent[b] = IF DbTip = NoTip THEN NoBlock ELSE blocks[DbTip]
            BY <1>2, <2>3 DEF StoreBlock, IInv, RunnerInv, FetchedKnown, StorePending
        <3>2. /\ DOMAIN blocks' = 0 .. (DbTip + 1) /\ blocks'[DbTip + 1] = b
              /\ \A m \in 0 .. DbTip : blocks'[m] = blocks[m]
            <4>1. 0 .. (DbTip + 1) = (0 .. DbTip) \cup {DbTip + 1}  BY <2>1 DEF NoTip
            <4>2. blocks' = [m \in (0 .. DbTip) \cup {DbTip + 1} |->
                                IF m = DbTip + 1 THEN b ELSE blocks[m]]
                BY <2>1, <2>3, <3>1 DEF StoreBlock, NoTip
            <4> HIDE DEF b
            <4> QED  BY <4>1, <4>2, <2>1 DEF NoTip
        <3>3. DbTip' = DbTip + 1
            BY <2>1, <3>2, HighestOfInterval DEF DbTip, NoTip
        <3>4. StoredChain' = Append(StoredChain, b)
            BY <2>1, <2>2, <3>2, <3>3 DEF StoredChain, NoTip
        <3>5. Parent[b] = Abstract!TipHash
            BY <2>1, <2>2, <3>1 DEF Abstract!TipHash, StoredChain, NoTip
        <3> QED  BY <3>1, <3>4, <3>5 DEF Abstract!Next, Abstract!Push
    <2>4. CASE DeleteBlock
        <3>1. fetched.number = DbTip + 1 /\ DbTip \in Nat
            BY <1>2, <2>4
            DEF DeleteBlock, IInv, RunnerInv, FetchedKnown, DeletePending, NoTip
        <3>2. /\ DOMAIN blocks' = 0 .. (DbTip - 1)
              /\ \A m \in 0 .. (DbTip - 1) : blocks'[m] = blocks[m]
            <4>1. (0 .. DbTip) \ {DbTip} = 0 .. (DbTip - 1)  BY <3>1
            <4>2. blocks' = [m \in (0 .. DbTip) \ {DbTip} |-> blocks[m]]
                BY <2>1, <2>4, <3>1 DEF DeleteBlock, Restrict
            <4> QED  BY <4>1, <4>2
        <3>3. DbTip' = DbTip - 1
            BY <3>1, <3>2, HighestOfInterval DEF DbTip, NoTip
        <3>4. StoredChain' = SubSeq(StoredChain, 1, Len(StoredChain) - 1)
            BY <2>2, <3>1, <3>2, <3>3 DEF StoredChain
        <3>5. StoredChain # << >>  BY <2>2, <3>1
        <3> QED  BY <3>4, <3>5 DEF Abstract!Next, Abstract!Pop
    <2>5. CASE ~(DeleteBlock \/ StoreBlock)
        <3>1. blocks' = blocks
            BY <1>2, <2>5
            DEF Next, RunnerNext, Produce, Revert, FetchBlock, CheckParent, BumpTip,
                RevertTip, ConnectionError, Restart, vars, dbVars
        <3> QED  BY <3>1 DEF StoredChain, DbTip
    <2> QED  BY <2>3, <2>4, <2>5
<1> QED
    BY <1>1, <1>2, Invariance, PTL DEF Spec, ImplementsIndexedChain, Abstract!Spec

-----------------------------------------------------------------------------
\* How far the tables are from the node's chain.

\* The stored blocks that are the node's, and how many they are.
Agrees == {n \in DOMAIN blocks : n < Len(node) /\ node[n + 1] = blocks[n]}
Agreed == Cardinality(Agrees)

\* The stored blocks to delete and the node's blocks to store.
Distance == (DbTip + 1 - Agreed) + (Len(node) - Agreed)

\* What Runner::insert does before it comes closer, and what is left to do.
Turn == IF pc \in {"bump", "revert"} THEN 4
        ELSE IF pc = "fetch" THEN 3 ELSE IF pc = "check" THEN 2 ELSE 1
Left == 5 * Distance + Turn

\* The block at hand is still the node's, and one that is to make way is not.
Fresh ==
    /\ pc \in {"check", "store", "delete"} =>
         fetched.number < Len(node) /\ fetched.hash = node[fetched.number + 1]
    /\ pc = "delete" => Parent[fetched.hash] # blocks[DbTip]

CaughtUp == StoredChain = node
OnCourse == Fresh /\ (DbTip + 1 < Len(node) \/ CaughtUp)

\* The runner finds its next step open: there is a block to fetch, and a block
\* to store breaks no unique index.
CanGoOn ==
    /\ pc = "fetch" => Tip + 1 < Len(node)
    /\ pc = "store" => ~Conflicts(fetched.hash, fetched.number)

\* The blocks under one that is the node's are the node's.
AgreeFromBelow == \A n \in Agrees : 0 .. n \subseteq Agrees

\* How many blocks agree, at most.
LEMMA AgreedBounds ==
    ASSUME IInv
    PROVE  /\ DbTip \in Nat \cup {NoTip} /\ DOMAIN blocks = 0 .. DbTip
           /\ Len(node) \in Nat
           /\ Agrees \subseteq 0 .. DbTip /\ IsFiniteSet(Agrees)
           /\ Agreed \in Nat /\ Agreed <= DbTip + 1 /\ Agreed <= Len(node)
           /\ Agrees = 0 .. DbTip => Agreed = DbTip + 1
<1>1. /\ DbTip \in Nat \cup {NoTip} /\ DOMAIN blocks = 0 .. DbTip /\ Len(node) \in Nat
    BY DEF IInv, ChainInv, Contiguous, TypeOK
<1>2. DbTip \in Int /\ DbTip >= -1 /\ Len(node) - 1 \in Int
    BY <1>1 DEF NoTip
<1>3. Agrees \subseteq 0 .. DbTip /\ Agrees \subseteq 0 .. Len(node) - 1
    BY <1>1, <1>2 DEF Agrees
<1>4. IsFiniteSet(0 .. DbTip) /\ Cardinality(0 .. DbTip) = DbTip + 1
    BY <1>2, FS_Interval
<1>5. IsFiniteSet(0 .. Len(node) - 1) /\ Cardinality(0 .. Len(node) - 1) = Len(node)
    <2>1. PICK k \in Int : k = Len(node) - 1  BY <1>2
    <2>2. k \in Int /\ k >= -1  BY <1>1, <2>1
    <2>3. IsFiniteSet(0 .. k) /\ Cardinality(0 .. k) = k + 1  BY <2>2, FS_Interval
    <2> QED  BY <1>1, <2>1, <2>3
<1>6. IsFiniteSet(Agrees) /\ Cardinality(Agrees) <= Cardinality(0 .. DbTip)
    <2>1. Agrees \in SUBSET (0 .. DbTip)  BY <1>3
    <2> QED  BY <1>4, <2>1, FS_Subset
<1>7. Cardinality(Agrees) <= Cardinality(0 .. Len(node) - 1)
    <2>1. Agrees \in SUBSET (0 .. Len(node) - 1)  BY <1>3
    <2> QED  BY <1>5, <2>1, FS_Subset
<1>8. Cardinality(Agrees) \in Nat
    BY <1>6, FS_CardinalityType
<1> QED  BY <1>1, <1>3, <1>4, <1>5, <1>6, <1>7, <1>8 DEF Agreed

\* What StoreBlock and DeleteBlock do to the numbers of the table.
LEMMA Stored ==
    ASSUME IInv, StoreBlock
    PROVE  /\ pc = "store" /\ pc' = "bump" /\ node' = node
           /\ fetched.number = DbTip + 1 /\ DbTip' = DbTip + 1
           /\ DOMAIN blocks' = 0 .. DbTip + 1 /\ blocks'[DbTip + 1] = fetched.hash
           /\ \A m \in 0 .. DbTip : blocks'[m] = blocks[m]
           /\ Parent[fetched.hash] = IF DbTip = NoTip THEN NoBlock ELSE blocks[DbTip]
<1> DEFINE b == fetched.hash
<1>1. /\ DbTip \in Nat \cup {NoTip} /\ DOMAIN blocks = 0 .. DbTip
      /\ fetched.number = DbTip + 1
      /\ Parent[b] = IF DbTip = NoTip THEN NoBlock ELSE blocks[DbTip]
      /\ pc = "store" /\ pc' = "bump" /\ node' = node
    <2>1. pc = "store" /\ Goto("bump") /\ UNCHANGED nodeVars
        BY DEF StoreBlock
    <2> QED
        BY <2>1 DEF Goto, nodeVars, IInv, ChainInv, Contiguous, RunnerInv, FetchedKnown, StorePending
<1>2. DbTip + 1 \notin 0 .. DbTip /\ 0 .. (DbTip + 1) = (0 .. DbTip) \cup {DbTip + 1}
    BY <1>1 DEF NoTip
<1>3. blocks' = [m \in (0 .. DbTip) \cup {DbTip + 1} |->
                    IF m = DbTip + 1 THEN b ELSE blocks[m]]
    BY <1>1, <1>2 DEF StoreBlock
<1> HIDE DEF b
<1>4. /\ DOMAIN blocks' = 0 .. DbTip + 1 /\ blocks'[DbTip + 1] = b
      /\ \A m \in 0 .. DbTip : blocks'[m] = blocks[m]
    BY <1>2, <1>3
<1>5. DbTip' = DbTip + 1
    BY <1>1, <1>4, HighestOfInterval DEF DbTip, NoTip
<1> QED  BY <1>1, <1>4, <1>5 DEF b

LEMMA Deleted ==
    ASSUME IInv, DeleteBlock
    PROVE  /\ pc = "delete" /\ pc' = "revert" /\ node' = node
           /\ fetched.number = DbTip + 1 /\ DbTip \in Nat /\ DbTip' = DbTip - 1
           /\ DOMAIN blocks' = 0 .. DbTip - 1
           /\ \A m \in 0 .. DbTip - 1 : blocks'[m] = blocks[m]
<1>1. /\ fetched.number = DbTip + 1 /\ DbTip \in Nat /\ DOMAIN blocks = 0 .. DbTip
      /\ pc = "delete" /\ pc' = "revert" /\ node' = node
    BY DEF DeleteBlock, Goto, nodeVars, IInv, ChainInv, Contiguous, RunnerInv, FetchedKnown,
           DeletePending, NoTip
<1>2. (0 .. DbTip) \ {DbTip} = 0 .. (DbTip - 1)
    BY <1>1
<1>3. blocks' = [m \in (0 .. DbTip) \ {DbTip} |-> blocks[m]]
    BY <1>1 DEF DeleteBlock, Restrict
<1>4. /\ DOMAIN blocks' = 0 .. DbTip - 1
      /\ \A m \in 0 .. DbTip - 1 : blocks'[m] = blocks[m]
    BY <1>2, <1>3
<1>5. DbTip' = DbTip - 1
    BY <1>1, <1>4, HighestOfInterval DEF DbTip, NoTip
<1> QED  BY <1>1, <1>4, <1>5

\* A step makes a block agree only on top of one that agrees, and takes the
\* highest ones away first.
LEMMA AgreeStep ==
    ASSUME IInv, [Next]_vars, NEW n \in Agrees'
    PROVE  /\ n \in Agrees \/ n = 0 \/ n - 1 \in Agrees
           /\ \A m \in Agrees : m < n => m \in Agrees'
<1>0. /\ DOMAIN blocks = 0 .. DbTip /\ DbTip \in Nat \cup {NoTip}
      /\ node \in Seq(Block) /\ Len(node) \in Nat /\ NodeLinked
    BY DEF IInv, ChainInv, Contiguous, TypeOK
<1>1. n \in DOMAIN blocks' /\ n < Len(node') /\ node'[n + 1] = blocks'[n]
    BY DEF Agrees
<1>2. CASE \E b \in Block : Produce(b)
    <2>1. PICK b \in Block : Produce(b)
        BY <1>2
    <2>2. /\ node' = Append(node, b) /\ blocks' = blocks
          /\ Parent[b] = IF node = << >> THEN NoBlock ELSE node[Len(node)]
        BY <2>1 DEF Produce, dbVars
    <2>3. /\ Len(node') = Len(node) + 1 /\ node'[Len(node) + 1] = b
          /\ \A i \in 1 .. Len(node) : node'[i] = node[i]
        BY <1>0, <2>2
    <2>4. n \in Nat /\ n <= DbTip /\ DbTip \in Nat
        BY <1>0, <1>1, <2>2 DEF NoTip
    <2>5. ASSUME n < Len(node) PROVE n \in Agrees
        BY <1>0, <1>1, <2>2, <2>3, <2>4, <2>5 DEF Agrees
    <2>6. ASSUME n = Len(node), n # 0 PROVE n - 1 \in Agrees
        <3>1. node # << >>
            BY <2>6
        <3>2. Parent[blocks[n]] = blocks[n - 1] /\ blocks[n] = b
            BY <1>0, <1>1, <2>2, <2>3, <2>4, <2>6 DEF IInv, ChainInv, Linked
        <3>3. n - 1 \in 0 .. DbTip /\ n - 1 < Len(node) /\ (n - 1) + 1 = Len(node)
            BY <1>0, <2>4, <2>6
        <3> QED  BY <1>0, <2>2, <2>3, <3>1, <3>2, <3>3 DEF Agrees
    <2>7. \A m \in Agrees : m \in Agrees'
        BY <1>0, <2>2, <2>3 DEF Agrees, NoTip
    <2> QED  BY <1>0, <1>1, <2>3, <2>4, <2>5, <2>6, <2>7
<1>3. CASE \E k \in 0 .. (Len(node) - 1) : Revert(k)
    <2>1. PICK k \in 0 .. (Len(node) - 1) : Revert(k)
        BY <1>3
    <2>2. node' = SubSeq(node, 1, k) /\ blocks' = blocks
        BY <2>1 DEF Revert, dbVars
    <2>3. Len(node') = k /\ \A i \in 1 .. k : node'[i] = node[i]
        BY <1>0, <2>2
    <2>4. n \in Nat
        BY <1>0, <1>1, <2>2 DEF NoTip
    <2>5. \A m \in DOMAIN blocks : m \in Nat
        BY <1>0 DEF NoTip
    <2> QED  BY <1>0, <1>1, <2>2, <2>3, <2>4, <2>5 DEF Agrees
<1>4. CASE StoreBlock
    <2>1. /\ node' = node /\ DOMAIN blocks' = 0 .. DbTip + 1
          /\ blocks'[DbTip + 1] = fetched.hash
          /\ \A m \in 0 .. DbTip : blocks'[m] = blocks[m]
          /\ Parent[fetched.hash] = IF DbTip = NoTip THEN NoBlock ELSE blocks[DbTip]
        BY <1>4, Stored
    <2>2. \A m \in 0 .. DbTip + 1 : m \in 0 .. DbTip \/ m = DbTip + 1
        BY <1>0 DEF NoTip
    <2>3. ASSUME n = DbTip + 1, n # 0 PROVE n - 1 \in Agrees
        <3>1. DbTip \in Nat /\ n - 1 = DbTip /\ n + 1 # 1 /\ (n + 1) - 1 = n /\ n < Len(node)
            BY <1>0, <1>1, <2>1, <2>3 DEF NoTip
        <3>2. n + 1 \in 1 .. Len(node)
            BY <1>0, <3>1
        <3>3. Parent[node[n + 1]] = node[n]
            <4>1. Parent[node[n + 1]] = IF n + 1 = 1 THEN NoBlock ELSE node[(n + 1) - 1]
                BY <1>0, <3>2 DEF NodeLinked
            <4> QED  BY <3>1, <4>1
        <3>4. Parent[node[n + 1]] = blocks[DbTip]
            BY <1>1, <2>1, <2>3, <3>1 DEF NoTip
        <3>5. DbTip \in DOMAIN blocks /\ DbTip < Len(node) /\ DbTip + 1 = n
            BY <1>0, <3>1
        <3> QED  BY <1>0, <1>1, <2>1, <3>1, <3>3, <3>4, <3>5 DEF Agrees
    <2>4. ASSUME n \in 0 .. DbTip PROVE n \in Agrees
        BY <1>0, <1>1, <2>1, <2>4 DEF Agrees
    <2>5. \A m \in Agrees : m \in Agrees'
        BY <1>0, <2>1, <2>2 DEF Agrees, NoTip
    <2> QED
        <3>1. n = 0 \/ n \in 0 .. DbTip \/ (n = DbTip + 1 /\ n # 0)
            BY <1>1, <2>1, <2>2
        <3> QED  BY <2>3, <2>4, <2>5, <3>1
<1>5. CASE DeleteBlock
    <2>1. /\ node' = node /\ DbTip \in Nat /\ DOMAIN blocks' = 0 .. DbTip - 1
          /\ \A m \in 0 .. DbTip - 1 : blocks'[m] = blocks[m]
        BY <1>5, Deleted
    <2>2. n \in 0 .. DbTip - 1 /\ n \in Agrees
        BY <1>0, <1>1, <2>1 DEF Agrees
    <2>3. ASSUME NEW m \in Agrees, m < n PROVE m \in Agrees'
        BY <1>0, <2>1, <2>2, <2>3 DEF Agrees
    <2> QED  BY <2>2, <2>3
<1>6. CASE blocks' = blocks /\ node' = node
    BY <1>6 DEF Agrees
<1>7. \/ \E b \in Block : Produce(b)
      \/ \E k \in 0 .. (Len(node) - 1) : Revert(k)
      \/ StoreBlock \/ DeleteBlock
      \/ blocks' = blocks /\ node' = node
    BY DEF Next, RunnerNext, FetchBlock, CheckParent, BumpTip, RevertTip, ConnectionError,
           Restart, vars, nodeVars, dbVars
<1> QED  BY <1>2, <1>3, <1>4, <1>5, <1>6, <1>7

\* So the blocks that agree are always the first ones.
LEMMA AgreeNext == IInv /\ AgreeFromBelow /\ [Next]_vars => AgreeFromBelow'
<1> SUFFICES ASSUME IInv, AgreeFromBelow, [Next]_vars, NEW n \in Agrees', NEW m \in 0 .. n
             PROVE  m \in Agrees'
    BY DEF AgreeFromBelow
<1>1. n \in Nat
    <2>1. IInv'  BY NextInv
    <2> QED  BY <2>1 DEF Agrees, IInv, TypeOK
<1>2. CASE m = n
    BY <1>2
<1>3. CASE m < n
    <2>1. n \in Agrees \/ n - 1 \in Agrees
        BY <1>1, <1>3, AgreeStep
    <2>2. m \in Agrees
        BY <1>1, <1>3, <2>1 DEF AgreeFromBelow
    <2> QED  BY <1>3, <2>2, AgreeStep
<1> QED  BY <1>1, <1>2, <1>3

\* The tables hold the node's chain if they are as long and all agrees.
AllAgree == DbTip + 1 = Len(node) /\ Agrees = 0 .. DbTip

LEMMA EqualChains == IInv => (CaughtUp <=> AllAgree)
<1> SUFFICES ASSUME IInv PROVE CaughtUp <=> AllAgree
    OBVIOUS
<1>1. /\ DbTip \in Nat \cup {NoTip} /\ DOMAIN blocks = 0 .. DbTip
      /\ node \in Seq(Block) /\ Len(node) \in Nat /\ \A n \in 0 .. DbTip : blocks[n] \in Block
    BY DEF IInv, ChainInv, Contiguous, TypeOK
<1>2. /\ StoredChain \in Seq(Block) /\ Len(StoredChain) = DbTip + 1
      /\ \A i \in 1 .. DbTip + 1 : StoredChain[i] = blocks[i - 1]
    <2>1. \A i \in 1 .. (DbTip + 1) : blocks[i - 1] \in Block
        BY <1>1 DEF NoTip
    <2> QED  BY <1>1, <2>1 DEF StoredChain, NoTip
<1>3. CaughtUp => DbTip + 1 = Len(node) /\ Agrees = 0 .. DbTip
    <2> SUFFICES ASSUME StoredChain = node
                 PROVE  DbTip + 1 = Len(node) /\ Agrees = 0 .. DbTip
        BY DEF CaughtUp
    <2>1. DbTip + 1 = Len(node)
        BY <1>2
    <2>2. \A n \in 0 .. DbTip : n < Len(node) /\ n + 1 \in 1 .. DbTip + 1 /\ (n + 1) - 1 = n
        BY <1>1, <2>1 DEF NoTip
    <2>3. \A n \in 0 .. DbTip : node[n + 1] = blocks[n]
        <3> SUFFICES ASSUME NEW n \in 0 .. DbTip PROVE node[n + 1] = blocks[n]
            OBVIOUS
        <3>1. StoredChain[n + 1] = blocks[(n + 1) - 1]
            BY <1>2, <2>2
        <3> QED  BY <2>2, <3>1
    <2> QED  BY <1>1, <2>1, <2>2, <2>3 DEF Agrees
<1>4. ASSUME DbTip + 1 = Len(node), Agrees = 0 .. DbTip PROVE CaughtUp
    <2>1. \A i \in 1 .. Len(node) : StoredChain[i] = node[i]
        <3> SUFFICES ASSUME NEW i \in 1 .. Len(node) PROVE StoredChain[i] = node[i]
            OBVIOUS
        <3>1. i - 1 \in 0 .. DbTip /\ (i - 1) + 1 = i
            BY <1>1, <1>4 DEF NoTip
        <3>2. node[(i - 1) + 1] = blocks[i - 1]
            BY <1>4, <3>1 DEF Agrees
        <3> QED  BY <1>2, <1>4, <3>1, <3>2
    <2> QED  BY <1>1, <1>2, <1>4, <2>1, SeqEqual DEF CaughtUp
<1> QED  BY <1>3, <1>4 DEF AllAgree

CourseInv == IInv /\ AgreeFromBelow /\ (CaughtUp <=> AllAgree)

LEMMA CourseAlways == Spec => []CourseInv
<1>1. Init => AgreeFromBelow
    BY DEF Init, Agrees, AgreeFromBelow
<1>2. IInv /\ AgreeFromBelow => CourseInv
    BY EqualChains DEF CourseInv
<1> QED  BY <1>1, <1>2, AgreeNext, Invariance, PTL DEF Spec

\* A step of the runner on its course brings the tables closer.
LEMMA Closer ==
    ASSUME CourseInv, CourseInv', OnCourse, RunnerNext
    PROVE  OnCourse' /\ Left' < Left
<1> USE DEF CourseInv
<1>0. /\ DbTip \in Nat \cup {NoTip} /\ DOMAIN blocks = 0 .. DbTip
      /\ Len(node) \in Nat /\ node \in Seq(Block)
      /\ Agrees \subseteq 0 .. DbTip /\ Agreed \in Nat
    BY AgreedBounds DEF IInv, TypeOK
<1>1. CASE FetchBlock
    <2>1. /\ pc = "fetch" /\ UNCHANGED <<nodeVars, dbVars>> /\ Tip + 1 < Len(node)
          /\ fetched' = [number |-> Tip + 1, hash |-> node[(Tip + 1) + 1]]
          /\ pc' \in {"check", "store"}
        BY <1>1 DEF FetchBlock
    <2>2. node' = node /\ blocks' = blocks /\ DbTip' = DbTip /\ StoredChain' = StoredChain
          /\ Distance' = Distance
        BY <2>1 DEF nodeVars, dbVars, DbTip, StoredChain, Distance, Agreed, Agrees
    <2>3. Fresh'
        BY <2>1, <2>2 DEF Fresh
    <2>4. Turn = 3 /\ Turn' \in {1, 2}
        BY <2>1 DEF Turn
    <2> QED  BY <1>0, <2>2, <2>3, <2>4 DEF OnCourse, CaughtUp, Left, Distance
<1>2. CASE CheckParent
    <2>1. /\ pc = "check" /\ UNCHANGED <<nodeVars, dbVars>>
          /\ Goto(IF fetched.number - 1 \notin DOMAIN blocks THEN "fetch"
                  ELSE IF Parent[fetched.hash] = blocks[fetched.number - 1] THEN "store" ELSE "delete")
        BY <1>2 DEF CheckParent
    <2>2. fetched.number - 1 = DbTip /\ DbTip \in DOMAIN blocks
        BY <1>0, <2>1 DEF IInv, RunnerInv, FetchedKnown, CheckPending, NoTip
    <2>3. /\ fetched' = fetched
          /\ pc' = IF Parent[fetched.hash] = blocks[DbTip] THEN "store" ELSE "delete"
        BY <2>1, <2>2 DEF Goto
    <2>4. node' = node /\ blocks' = blocks /\ DbTip' = DbTip /\ StoredChain' = StoredChain
          /\ Distance' = Distance
        BY <2>1 DEF nodeVars, dbVars, DbTip, StoredChain, Distance, Agreed, Agrees
    <2>5. Fresh'
        BY <2>1, <2>3, <2>4 DEF Fresh, OnCourse
    <2>6. Turn = 2 /\ Turn' = 1
        BY <2>1, <2>3 DEF Turn
    <2> QED  BY <1>0, <2>4, <2>5, <2>6 DEF OnCourse, CaughtUp, Left, Distance
<1>3. CASE StoreBlock
    <2>1. /\ pc = "store" /\ pc' = "bump" /\ node' = node
          /\ fetched.number = DbTip + 1 /\ DbTip' = DbTip + 1
          /\ DOMAIN blocks' = 0 .. DbTip + 1 /\ blocks'[DbTip + 1] = fetched.hash
          /\ \A m \in 0 .. DbTip : blocks'[m] = blocks[m]
          /\ Parent[fetched.hash] = IF DbTip = NoTip THEN NoBlock ELSE blocks[DbTip]
        BY <1>3, Stored
    <2>2. DbTip + 1 < Len(node) /\ fetched.hash = node[(DbTip + 1) + 1]
        BY <2>1 DEF OnCourse, Fresh
    \* The block goes on top of the node's own, so all below agree.
    <2>3. Agrees = 0 .. DbTip
        <3>1. CASE DbTip = NoTip
            <4>1. 0 .. DbTip = {}  BY <3>1 DEF NoTip
            <4> QED  BY <1>0, <4>1
        <3>2. CASE DbTip \in Nat
            <4>1. DbTip + 2 \in 1 .. Len(node) /\ DbTip + 2 # 1 /\ (DbTip + 2) - 1 = DbTip + 1
                  /\ (DbTip + 1) + 1 = DbTip + 2
                BY <1>0, <2>2, <3>2
            <4>2. Parent[node[DbTip + 2]] = node[DbTip + 1]
                <5>1. Parent[node[DbTip + 2]] =
                        IF DbTip + 2 = 1 THEN NoBlock ELSE node[(DbTip + 2) - 1]
                    BY <4>1 DEF IInv, NodeLinked
                <5> QED  BY <4>1, <5>1
            <4>3. node[DbTip + 1] = blocks[DbTip]
                BY <2>1, <2>2, <3>2, <4>1, <4>2 DEF NoTip
            <4>4. DbTip \in Agrees
                BY <1>0, <2>2, <3>2, <4>3 DEF Agrees
            <4> QED  BY <1>0, <4>4 DEF AgreeFromBelow
        <3> QED  BY <1>0, <3>1, <3>2
    <2>4. DbTip + 1 \in Agrees'
        <3>1. DbTip + 1 \in 0 .. DbTip + 1  BY <1>0 DEF NoTip
        <3> QED  BY <2>1, <2>2, <3>1 DEF Agrees
    <2>5. Agrees' = 0 .. DbTip'
        <3>1. Agrees' \subseteq 0 .. DbTip + 1  BY <2>1 DEF Agrees
        <3>2. 0 .. DbTip + 1 \subseteq Agrees'  BY <2>4 DEF AgreeFromBelow
        <3> QED  BY <2>1, <3>1, <3>2
    <2>6. Agreed = DbTip + 1 /\ Agreed' = DbTip + 2
        <3>1. Cardinality(0 .. DbTip) = DbTip + 1  BY <1>0, FS_Interval DEF NoTip
        <3>2. PICK k : k = DbTip + 1  OBVIOUS
        <3>3. Cardinality(0 .. k) = k + 1 /\ k \in Int  BY <1>0, <3>2, FS_Interval DEF NoTip
        <3>4. Agrees' = 0 .. k  BY <2>1, <2>5, <3>2
        <3> QED  BY <1>0, <2>3, <3>1, <3>2, <3>3, <3>4 DEF Agreed, NoTip
    <2>7. Distance' = Distance - 1
        BY <1>0, <2>1, <2>6 DEF Distance, NoTip
    <2>8. Turn = 1 /\ Turn' = 4 /\ Fresh'
        BY <2>1 DEF Turn, Fresh
    <2>9. DbTip' + 1 < Len(node') \/ CaughtUp'
        <3>1. CaughtUp' <=> DbTip' + 1 = Len(node') /\ Agrees' = 0 .. DbTip'
            BY DEF AllAgree
        <3> QED  BY <1>0, <2>1, <2>2, <2>5, <3>1 DEF NoTip
    <2>10. Distance \in Int
        BY <1>0 DEF Distance, NoTip
    <2> QED  BY <2>7, <2>8, <2>9, <2>10 DEF OnCourse, Left
<1>4. CASE DeleteBlock
    <2>1. /\ pc = "delete" /\ pc' = "revert" /\ node' = node
          /\ fetched.number = DbTip + 1 /\ DbTip \in Nat /\ DbTip' = DbTip - 1
          /\ DOMAIN blocks' = 0 .. DbTip - 1
          /\ \A m \in 0 .. DbTip - 1 : blocks'[m] = blocks[m]
        BY <1>4, Deleted
    <2>2. /\ DbTip + 1 < Len(node) /\ fetched.hash = node[(DbTip + 1) + 1]
          /\ Parent[fetched.hash] # blocks[DbTip]
        BY <2>1 DEF OnCourse, Fresh
    \* The block that goes is not the node's.
    <2>3. DbTip \notin Agrees
        <3>1. DbTip + 2 \in 1 .. Len(node) /\ DbTip + 2 # 1 /\ (DbTip + 2) - 1 = DbTip + 1
              /\ (DbTip + 1) + 1 = DbTip + 2
            BY <1>0, <2>1, <2>2
        <3>2. Parent[node[DbTip + 2]] = node[DbTip + 1]
            <4>1. Parent[node[DbTip + 2]] =
                    IF DbTip + 2 = 1 THEN NoBlock ELSE node[(DbTip + 2) - 1]
                BY <3>1 DEF IInv, NodeLinked
            <4> QED  BY <3>1, <4>1
        <3> QED  BY <2>2, <3>1, <3>2 DEF Agrees
    <2>4. Agrees' = Agrees
        <3>1. ASSUME NEW n \in Agrees PROVE n \in 0 .. DbTip - 1
            <4>1. n \in 0 .. DbTip /\ n # DbTip  BY <1>0, <2>3
            <4> QED  BY <2>1, <4>1
        <3>2. \A n \in 0 .. DbTip - 1 : n \in 0 .. DbTip
            BY <2>1
        <3> QED  BY <1>0, <2>1, <3>1, <3>2 DEF Agrees
    <2>5. Distance' = Distance - 1
        BY <1>0, <2>1, <2>4 DEF Distance, Agreed
    <2>6. Turn = 1 /\ Turn' = 4 /\ Fresh'
        BY <2>1 DEF Turn, Fresh
    <2>7. DbTip' + 1 < Len(node')
        BY <1>0, <2>1, <2>2
    <2>8. Distance \in Int
        BY <1>0, <2>1 DEF Distance
    <2> QED  BY <2>5, <2>6, <2>7, <2>8 DEF OnCourse, Left
<1>5. CASE BumpTip \/ RevertTip
    <2>1. pc \in {"bump", "revert"} /\ UNCHANGED <<nodeVars, dbVars>> /\ pc' = "fetch"
        BY <1>5 DEF BumpTip, RevertTip, Goto
    <2>2. node' = node /\ blocks' = blocks /\ DbTip' = DbTip /\ StoredChain' = StoredChain
          /\ Distance' = Distance
        BY <2>1 DEF nodeVars, dbVars, DbTip, StoredChain, Distance, Agreed, Agrees
    <2>3. Fresh' /\ Turn = 4 /\ Turn' = 3
        BY <2>1 DEF Fresh, Turn
    <2> QED  BY <1>0, <2>2, <2>3 DEF OnCourse, CaughtUp, Left, Distance
<1> QED  BY <1>1, <1>2, <1>3, <1>4, <1>5 DEF RunnerNext

\* How the indexer catches up, once the node rests and nothing fails: with the
\* node ahead, or once caught up, every step of Runner::insert leaves less to do
\* and stays on this course, what is left is a number, and a runner that has
\* not caught up finds its next step open. So it catches up within as many
\* steps, however deep the fork is that it has to remove first.
THEOREM CatchUpIsBounded ==
    Spec => /\ [](Left \in Nat)
            /\ []((pc = "fetch" /\ DbTip + 1 < Len(node)) => OnCourse)
            /\ [](OnCourse /\ ~CaughtUp => CanGoOn)
            /\ [][OnCourse /\ RunnerNext => OnCourse' /\ Left' < Left]_vars
<1>1. CourseInv => Left \in Nat
    <2> SUFFICES ASSUME IInv PROVE Left \in Nat
        BY DEF CourseInv
    <2>1. Distance \in Nat
        BY AgreedBounds DEF Distance, NoTip
    <2>2. Turn \in Nat
        BY DEF Turn
    <2> QED  BY <2>1, <2>2 DEF Left
<1>2. pc = "fetch" /\ DbTip + 1 < Len(node) => OnCourse
    BY DEF OnCourse, Fresh
<1>3. CourseInv /\ NoUniqueViolation /\ OnCourse /\ ~CaughtUp => CanGoOn
    <2> SUFFICES ASSUME IInv, NoUniqueViolation, OnCourse, ~CaughtUp PROVE CanGoOn
        BY DEF CourseInv
    <2>1. ASSUME pc = "fetch" PROVE Tip + 1 < Len(node)
        <3>1. Tip = DbTip
            BY <2>1 DEF IInv, RunnerInv, TipLag, Tip
        <3> QED  BY <3>1 DEF OnCourse
    <2> QED  BY <2>1 DEF CanGoOn, NoUniqueViolation
<1>4. CourseInv /\ CourseInv' /\ [Next]_vars =>
        [OnCourse /\ RunnerNext => OnCourse' /\ Left' < Left]_vars
    BY Closer
<1> QED  BY <1>1, <1>2, <1>3, <1>4, CourseAlways, NoInsertConflicts, PTL DEF Spec
=============================================================================
