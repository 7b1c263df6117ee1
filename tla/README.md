# Verification of godwoken-web3

TLA+ models of [godwoken-web3](../src/README.md), checked with TLC and, for the
parts that matter for every size of system, proved with TLAPS. Paths below are
relative to `src/`; `api-server/` stands for `packages/api-server/src/`.

Contents: [the system](#1-the-system), [the plan](#2-the-plan), [the modules](#3-the-modules),
[the runs](#4-the-runs), [the proofs](#5-the-proofs), [disagreements](#6-disagreements-with-the-documentation),
[limits](#7-what-is-not-shown).

## 1. The system

godwoken-web3 gives an Ethereum JSON-RPC interface to a Godwoken rollup node.

```
 Godwoken node --blocks, receipts--> indexer (Rust) --rows--> Postgres
      ^                                                          |
      | submit, execute, pending state                           | queries
      |                                                          v
 api-server workers <--- newHeads, logs (IPC) --- api-server master (block emitter,
      |        ^                                                    price oracle)
      |        +--------- Redis: cached answers, filters, locks, ------+
      v                   rate limits, prices, hash mappings
   clients (HTTP, WebSocket)
```

| Component | State | Operations | What makes it hard | What makes it correct |
|---|---|---|---|---|
| **Indexer, sync mode** (`crates/indexer/src/runner.rs`, `indexer.rs`, `insert_l2_block.rs`) | `local_tip`; tables `blocks`, `transactions`, `logs` | `insert`: fetch, compare the parent, store and bump, or delete and revert | the node reverts at any time; calls fail; the process dies between a commit and the update of `local_tip` | the tables are always one hash-linked chain with exactly its rows; no insert meets a unique index; it catches up |
| **Indexer, one block** (`indexer.rs` 461-556) | cursors over the batches of a block, an open Postgres transaction | receipts in parallel, numbering, rows per batch, commit | batches, retries, ids given by the database | indexes, cumulative gas, log indexes and log/transaction links are right across batches; nothing of a failed attempt stays |
| **Indexer, update mode** (`runner.rs` 116-168, 255-320) | the tables | rewrite the rows of a range | a second process beside the syncing one | a rewritten row is one of the stored chain |
| **Block emitter** (`api-server/block-emitter.ts`) | `currentTip`, `isRunning`; `tipBlockHash` in Redis | start, poll, notify, liveness check | three queries per poll over a database that rolls back; its own cache; failures half-way | heads ascend without gaps; blocks above the tip are announced; it resumes |
| **Query cache** (`api-server/db/knex.ts`) | answers in Redis under query + `tipBlockHash`, 45 s | `.cache()` | stale answers after a rollback | readers neither skip nor repeat for ever |
| **Polling filters** (`api-server/methods/modules/eth.ts` 922-1048, `cache/index.ts`) | filter and `lastPoll` in Redis | install, get changes, uninstall, expiry | overlapping requests read, query and write `lastPoll` in steps | no event is passed over; a log that stays is reported |
| **Single-flight call cache** (`api-server/cache/data.ts`) | data key, lock key and channel in Redis; listeners and timers per worker | `get` | lock expiry, missed messages, unsubscribes that hit others, dead workers | executions overlap no more than locks have expired; the lock is freed; nobody waits for ever |
| **Rate limit** (`api-server/rate-limit.ts`, `cache/guard.ts`, `cache/store.ts`) | a counter with a time to live per method and address | check, count, report the remaining time | check and increment are separate; the key expires in between | few requests pass beyond the limit; no permanent ban; the configured window |
| **Price oracle** (`api-server/price-oracle.ts`, `base/worker.ts`, `base/gas-price.ts`) | price and gas price in Redis; a loop | poll three sources, update, derive gas prices, liveness check | a source fails or lies; units, rounding, division, clamping | the price stays between the quotes of working sources; one loop; gas prices above the lower limit |
| **Pending transactions** (`eth.ts` 726-920, 1053-1101, `cache/tx-hash.ts`) | hash mappings and auto-create-account entries in Redis | send, look up in database, node and cache | partial failure, a transaction that moves between the three places | an accepted transaction is found until the node drops it |
| **Subscriptions** (`api-server/ws/methods.ts`) | ids and filters per connection, listeners | subscribe, unsubscribe, deliver, close | lists of logs wait for hashes | each list once, to those subscribed when it came; order of heads |
| **Log filters** (`api-server/db/helpers.ts`) | none | match in memory and in SQL | two implementations of one rule | they agree |
| **Transactions** (`api-server/convert-tx.ts`, `parse-tx.ts`, `validator.ts`, `filter-web3-tx.ts`, `crates/indexer/src/helper.rs`, `types.rs`) | accounts at the node | convert, check, decode, index, answer | five pieces of code in two languages read and write one transaction; accounts appear in between | what was signed is what is indexed and answered; all views agree |
| **Molecule classes** (`packages/godwoken/schemas/index.js`) | none | serialise, validate, read, for 92 classes | offsets and sizes come from outside | what is written is read back; what validates has one reading |
| rpc-client crate, JSON-RPC client of the godwoken package | none | JSON-RPC calls | errors of several kinds | - |
| form of parameters, error codes, CLI | none | formats, messages | - | - |

How they interact. The indexer is the only writer of the tables in normal
operation, and each of its Postgres transactions is one step for the readers.
The api-server only reads them. The cluster master runs the block emitter and
the price oracle; workers share state through Redis only and hear of new
blocks through process messages. Redis keys with a time to live may vanish
between any two commands. The node answers the indexer and the workers and may
revert blocks; it never has two blocks of one number at a time
(`docs/schema_design.md`).

`PROJECT.json` lists the components with what is modelled of each, and the
hazards of the code line by line with the properties that cover them.

## 2. The plan

In order, the most important behaviour first:

1. `IndexedChain`, `Indexer` and its proofs: everything else reads these tables. *Done.*
2. `DataCache`, `AccessGuard` and their proofs: protocols over Redis between workers. *Done.*
3. `FilterPolling`, `HeadFeed`: readers of the indexed chain through the query
   cache, each composed with `IndexedChain` by INSTANCE, and their proofs. *Done.*
4. `BlockPacking` and its proofs: the inside of `Indexer!StoreBlock`, and `StoredBlock`, which
   it implements. *Done.*
5. `PriceOracle` and its proof. *Done.*
6. `LogFilter`: `filterLogsByTopics`/`filterLogsByAddress` against the SQL of
   `getLogsByFilter`, and both against the rule of their comment, with its proof. *Done.*
7. `TxLookup` and its proofs: `sendRawTransaction`, the two mappings, the
   auto-create-account entry, the node's pool and the database. *Done.*
8. `Subscriptions`: the workers' end of `HeadFeed`, and its proof. *Done.*
9. `TxCodec`, `TxViews`, `TxPath` and their proofs: one transaction through
   conversion, node, indexer and API. *Done.*
10. `MoleculeLayout`, `Molecule`, `Schemas`: the generated classes. *Done; the layout proved, the
    nesting of types model-checked.*
11. `Gateway`: 5, 6, 8 and 9 side by side, with the proof that it keeps what its parts promise;
    `Wire`: the gateway with 10. *Done, `Wire` model-checked.*
12. A measure for each liveness property, which proves the argument but for its fairness. *Done.*
13. The layout of tables and vectors, apart from the recursion over types, which the prover
    accepts: read back for any number and size of items. *Done.*
14. `IndexerUpdate`: the update process beside the syncing one. *Not done, see [section 7](#7-what-is-not-shown).*

Abstract specifications: `IndexedChain` (refined by `Indexer`); `StoredBlock` (refined by
`BlockPacking`); for `DataCache`
the lock as a lease, of which each one that expires early costs one overlap, is stated by
`ExecutionsBounded`; a further abstraction
worth stating is the chain read through the cache, for 3 and 8. `Gateway` compares
two pieces of code with each other or with a rule rather than with a state machine.

## 3. The modules

`MCx` extends `x` and gives its constants definitions for TLC; `xProofs`
extends `x` with its theorems. An operator whose comment starts with "Mutant"
is a deliberately wrong variant of the definition after it: for each checked
property, replacing the definition by the variant makes TLC report that
property. They are not part of any specification.

### IndexedChain

What readers of the database may rely on: `chain` changes only by `Push` of a
child of the last block and `Pop` of the last block.

### Indexer

| TLA+ | code |
|---|---|
| `node`, `Produce`, `Revert` | the node (external) |
| `blocks`, `transactions`, `logs` | the tables; `Conflicts` is their unique indexes |
| `local_tip`, `Tip`, `BumpTip`, `RevertTip` | `Runner::local_tip`, `tip`, `bump_tip`, `revert_tip` |
| `FetchBlock`, `CheckParent`, `StoreBlock`, `DeleteBlock` | the awaits of `Runner::insert`: `get_block_by_number`, `get_db_block_hash`, `store_l2_block`, `delete_block` |
| `ConnectionError` | the arm of `Runner::run` that continues |
| `Restart` | any other error, a crash, and the supervisor's restart |

A Postgres transaction is one step (`StoreBlock`, `DeleteBlock`); its inside is
`BlockPacking`. Blocks are hashes of a forest given by `Parent`; blocks of
different forks may hold the same transactions. `abandoned` is a history
variable for `OnlyAbandonedRemoved`.

### BlockPacking

`insert_or_update_l2block` for a new block. A transaction is abstracted to
whether it is an Ethereum transaction (allowed account lock calling Polyjuice,
or a CKB transfer), its gas and its number of user logs. `Receipt`/`NoReceipt`
are the parallel closures of a batch in any order, `Number` the sequential
closure over the batch with its captured cursors, `InsertBatch`
`insert_web3_txs_and_logs`, `Commit` the block row and the commit, `Abort` any
error. `nextId`, the sequence of `transactions.id`, is not rolled back.

### StoredBlock

The same for the readers of the database: a block's rows appear at once, and are those of one pass over
its transactions (`Tally`). `BlockPacking` maps its rows to these when they are committed
(`Committed`), without the ids that a sequence gives.

### DataCache

`RedisDataCache.get` of several requests on several workers. `pc[r]` is the
await a request is at. `listeners` is the state of the one subscriber
connection of each worker, so an unsubscribe by one request drops the
listeners of others; `timers` are never cleared, as in the code. `Execute` ends with
a result, an error that is published, or a connection error that is not.
A command to Redis may fail before it is carried out or after (`NotCarriedOut`, `CarriedOut`):
the connection may break while the answer is on its way.
`lapses` is a history variable: how many locks expired before the `get` that had them
ended. The lock expires at any moment, between the GET and the DEL of a release too.

### AccessGuard

One method and one address. `pc[s]` is the Redis command a request is about
to send. `setPX` is the mutable options object of each worker's `Store`. `through` and
`starts` are history variables: the requests let through, and the times the counter was set or
created, since the key last expired. The value that `getKeyTTL` puts back may be of an earlier window, and the
0 of `add` may replace a counter that another request has started meanwhile; `LetThroughBounded` says how
many requests get through all the same. The window is a whole number of seconds (`GuardAssumption`): a thousandth
of it is given to Redis as PX, which takes no fraction.

### FilterPolling

One filter, of logs or of blocks, with overlapping polls of one client.
`chain` obeys `IndexedChain`; `logs` are the rows that match the filter;
`answers` the cached results. A poll is `GetFilterChanges`, `GetLastPoll`,
`ToBlock`, `QueryDatabase` or `QueryCache`, `UpdateLastPoll`, `Insert`. The tip
hash in the cache key is left out, which allows an old answer wherever
its other parts fit and so covers every history of that hash.

### HeadFeed

The emitter as one subscriber of one worker hears it. `ReadTip`, `GetBlocks`,
`GetLogs` are the three awaits of `poll`. `Ask` is the query cache, with
`tipBlockHash` in its key; the insert of `tipBlockHash` is not awaited and may
be lost. `feed`, `logged` and `since` restart with the emitter; `shortened` records
that a rollback hit between the tip and the blocks query, which is the one
case without a promise of gapless heads.

### MoleculeLayout, Molecule, Schemas

`MoleculeLayout` has the bytes of one level: `serializeTable`, `verifyAndExtractOffsets`, the
slices that getters and `indexAt` take, and vectors of items of one size. Word
reads are little endian and slices clamp, as those of `DataView` and `ArrayBuffer` do; every buffer is
shorter than 65,536 bytes (`TooLong`). `Molecule` has one operator per generated method: `Serialize` (the
serialiser), `Validate` (`validate()`) and `Read` (the getters), by the kind of type. `Schemas` has one record
per generated class with its fields in their order. The last two are evaluated by TLC only, since a type
contains types.

### TxCodec, TxViews, TxPath

`TxCodec` translates the conversions of a signed transaction: signature and
sender, the three forms of `v`, the checks of `convert-tx.ts` and `validator.ts`,
`polyTxToGwTx`, `ethCallTxToGodwokenRawTx`, both decoders of the Polyjuice
arguments (TypeScript and Rust), gasless payloads, the fee checks of
`gw_submit_l2transaction`, and the encodings whose hashes are the Ethereum hash
on either side. `TxViews` has what becomes of it: `parse_log`,
`filter_single_transaction` and the rows, and the API's three views. `SystemItem` is the first
system log of a receipt, if there is one, as `find` gives it.

| TLA+ (`TxPath`) | code |
|---|---|
| `Sign` | a wallet (external); it may encode a number with a leading zero |
| `SendRawTransaction` | `eth_sendRawTransaction` up to `submitL2Transaction`, with all checks |
| `SubmitL2Transaction` | `gw_submit_l2transaction`, for one's own or somebody else's transaction |
| `CreateAccount`, `Include` | the node (external): deposits, deployments, execution |
| `Index` | `filter_single_transaction`: a row, no row, or the error that stops the indexer |

A quantity is its value with its leading zeros, a hash the thing that is
hashed, an account its address. Elliptic curves are one assumption: a signature recovers to its
signer from the message that was signed and to a stranger from any other. Signatures keep their
length: the indexer stores zeros for one that has not 65 bytes (here 5).

### LogFilter

The SQL conditions, the loops in memory and the rule of the comment both
carry, over logs and filters in which a text keeps its case. `PlainFilter` names
the filters that the two are meant to read alike; see section 6.

### Subscriptions

One connection. `BlockListener` sends at once; `LogsListener` starts a delivery for
each subscription with a match, `SendLogs` ends any of them, so that lists
overtake each other, and `LookupFails` is a lookup of a hash that fails, whose rejection nobody
handles. `outbox` has what was sent by subscription; between two of them a client can rely on no
order. `heads`, `lists`, `during` and `lost` are history variables: what arrived, which
subscription was there between which arrivals, and whose lookups failed.

### PriceOracle

`ExecutePoll` with `pollPrice` of three sources of which one may fail or lie, the
rule `MustUpdate` with the seconds and milliseconds of the code, `LivenessCheck`
of the worker's loop, and `GasPrice`, which workers derive from the price and
cache. A price that rounds to zero makes the division fail (`GasPriceThrows`).

### Gateway, Wire

`Gateway` is the composition of `TxPath`, `Subscriptions` and `PriceOracle`, with log queries
of `LogFilter` (`AskLogs`). They share no state in the code, so the
composition lets one move while the others rest, and TLC visits the sum of
their states rather than the product. Each step is one of a part, so every
behaviour of `GatewaySpec` satisfies `TxPath`'s `Spec`, `SubscriptionSpec` and `OracleSpec`
(`PartsFollowed`). `Wire` adds `message`, a message of `Schemas` that is serialised, or
that somebody forges; it is a module of its own because the molecule classes are recursive
operators, about which nothing can be proved.

### TxLookup

| TLA+ | code |
|---|---|
| `node`, `Execute`, `IncludeInBlock`, `DropTransaction`, `RevertBlock` | the node (external) |
| `row`, `IndexBlock`, `DeleteBlock` | the indexer's commit and rollback |
| `mapping`, `raw`, `deleting`, `cached` | the hash mapping and the auto-create-account key, a DEL that is not awaited, the query cache |
| `Send` ... `SendCachesGwHash` | the awaits of `sendRawTransaction`, each of which may fail |
| `GetTransactionByHash` ... `AskNodeAgain` | the awaits of `getTransactionByHash` |
| `GetTransactionReceipt` ... `QueryReceipt` | those of `getTransactionReceipt` |

What is left of a hash is whether the conversion saw a native transfer, since
that is what may change between two conversions of one transaction. `kept` and
`watched` are history variables: the transaction was accepted and nothing was
lost since (no key expired, no drop, no revert), and the lookups that began so.

## 4. The runs

| Run | Shows | Bounds | Distinct states |
|---|---|---|---|
| `indexer` | `ChainStored`, `RowsComplete`, `TipRemembered`, `NoUniqueViolation`, `OnlyAbandonedRemoved`, refinement of `IndexedChain`, `CatchesUp` | seven blocks: two forks of two blocks that include the same transactions in another order, and a chain on another first block (`MCIndexer.tla`) | 19,508 |
| `data_cache` | `ExecutionsBounded`, `NoListenerLeak`, `LockFreed`, `WaitersProceed` | 3 requests, 2 workers, 1 extra poll | 248,976 |
| `data_cache_release` | violation of `OnlyOwnerDeletes` | as above | - |
| `access_guard` | `LetThroughBounded`, `NoPermanentBan` | 3 requests, 2 workers, limit 1, counter up to 3 | 472,432 |
| `guard_limit`, `guard_window` | violations of `AtMostMaxRequests`, `WindowIsConfigured` | 1 request at a time | - |
| `filter_polling` | `NoLogSkipped`, `NoNumberSkipped`, `LogsReported` | 4 blocks in 2 forks, 2 overlapping polls, 1 cached answer, 2 log ids | 223,604 |
| `filter_blocks` | violation of `NoBlockSkipped` | 1 poll at a time | - |
| `block_packing` | `TransactionsNumbered`, `LogsNumbered`, `LogsLinked`, `CommittedWhole`, refinement of `StoredBlock` (`StoredAtOnce`) | every block of up to 4 transactions drawn from `MCBlocks`, batches of 2, 1 retry, 1 abort | about 129,000 |
| `head_feed` | `HeadsAscend`, `HeadsGapless`, `Announced`, `PollsAgain` | 3 blocks in 2 forks, 2 faults, 1 cached answer | 280,880 |
| `gateway` | `MoleculeRoundTrips`, `MoleculeCanonical`, `IndexedAsSigned`, `PendingAsIndexed`, `SimulatedAsSent`, `FiltersAgree`, `SubscriptionsExact`, `PriceSound` | all 92 classes, vectors of 0 to 2 items, one damaged word; drafts around each limit, 4 receipts, signatures of two lengths; 10 logs, filters of up to 3 topics; 2 subscriptions, 4 heads, 2 lists of logs; 4 quotes (`MCGateway.tla`) | 520,325 |
| `tx_lookup` | `AcceptedIsFound` | 2 concurrent lookups, 2 attempts to send, instant finality | 1,633,106 |

Why the bounds are enough. The two forks of `indexer` are two blocks deep and a third chain
shares no block with them, so a rollback of several blocks, down to number 0 too, a
rollback interrupted by another revert, and transactions that come back in the
other fork all happen. In
`data_cache` two requests share a worker, so that one drops the other's
listener, and the third is elsewhere. In `access_guard` three requests are
enough for two to pass together while a third recreates the key, and the
counter bound lies above the limit, beyond which the code does not tell two counters apart. One cached answer is enough for any
single stale reply, and further ones need another poll that a bound on states
would cut. Batches of two with four transactions give a full batch, a
partial one, an empty one, and one whose transactions are all left out. Two faults in `head_feed` are a
failure and a failure of the restart that answers it.

In `gateway` addresses have two bytes, words
two digits, and every width and limit is scaled down so that drafts lie below, at and above each; the
recipients are a contract, an account, nobody, the zero address, none and one of a wrong length; receipts have a
system log, none, or user logs of none to two topics. Prices lie around each rounding
and on both sides of each limit of the gas price. In `tx_lookup` two lookups are enough for one to
delete the key that the other is about to read, and two attempts for one to meet what the other left;
the proof covers the others, and the mode without instant finality.

Deadlock is checked where the system has no end; in `data_cache` and `tx_lookup` all requests
may have ended, in `block_packing` the block is stored, and in `gateway` a transaction ends and a connection is closed.

Fairness.

- `indexer`: the runner is one loop that always takes its next step
  (`WF(RunnerNext)`). Faults and reverts are assumed to end (`Quiet`): under
  endless reverts no indexer catches up. The node is not obliged to produce.
- `data_cache`: a live process goes on, timers fire, and Redis expires the lock.
  `Execute` has no fairness: the node may never answer, and waiters still end.
- `access_guard`: requests come and are handled, and Redis expires keys that have
  a time to live.
- `filter_polling`: the client polls, requests are served, answers expire after
  their 45 seconds, failures (steps to `failed`) end. Nothing is assumed of rollbacks.
- `head_feed`: the emitter's timers fire and its queries are answered or fail.
  The number of faults is bounded, and the liveness properties start when they are used up.
- `gateway`, `tx_lookup`: none; their properties are safety.

## 5. The proofs

All theorems hold for every value of the constants that satisfies the named
assumptions (`BlockAssumption`, `AncestorAssumption`, `TxAssumption`,
`CacheAssumption`, `GuardAssumption`, `PackingAssumption`, `FeedAssumption`,
`FilterAssumption`, `LookupAssumption`, `CodecAssumption`, `PathAssumption`,
`OracleAssumption`, `SubscriptionAssumption`, `GatewayAssumption`), which TLC evaluates in the
runs, as it does `WireAssumption`. They give the types of the
inputs: logs and filters have the forms of the requests that carry them, and a transaction that
somebody else made (`Foreign`) has the fields of an L2 transaction. TLC also confirmed
`FeedInv`, `LookupInv`, `Whole`, `AgreeFromBelow` and the measures of `CatchesUp` and `WaitersProceed` on the
instances of their runs before they were proved; others
quantify over infinite sets and are beyond it.

**IndexerProofs.** None of the checked invariants is inductive by itself.
`Invariance` proves `IInv`, which adds three things. `StoredKnown`: a stored block is
the node's block of its number, or the node has abandoned it; `StoredAncestors`
and `NodeLinked`: stored blocks are ancestors of those above them, and the node's
chain is linked. `RunnerInv`: at `check`, `store` and `delete` the fetched number is the
tip's successor and the fetched block is the node's or abandoned; at `store` it is the child of the stored
tip; at `delete` the stored tip is abandoned; `local_tip`, when there is one, is
exactly the one step behind or ahead that `bump` or `revert` will make up. The argument
that matters is that of a mismatch: `StoredKnown` says that the stored tip is the node's or abandoned, and
were it the node's, the node's next block would be its child; so a fetched block
with another parent shows that the stored tip was abandoned. That a block at `store` meets no unique index follows from
`StoredAncestors` and the assumption that no chain includes a transaction twice. From `IInv`
follow `TypeCorrect`, `ChainIsStored`, `RowsAreComplete`, `TipIsRemembered`,
`NoInsertConflicts`, the action property `RemovedWereAbandoned`, and
`Refinement`: every step of `Indexer` is a `Push`, a `Pop` or a stutter of
`IndexedChain`.

`CatchUpIsBounded` is what can be proved of `CatchesUp`. Both chains are linked, so the stored blocks that
are the node's are the lowest ones (`AgreeFromBelow`, invariant under the steps of both sides), and
`Distance` counts the stored blocks above them, to be deleted, and the node's, to be stored. `Left`
is five times that, and the steps before the next commit. While the node is ahead and the block at
hand is its own (`OnCourse`, true whenever `insert` starts with the node ahead), a mismatch of parents shows that the
stored tip is not the node's, a match that everything stored is; so each step of `insert` lessens
`Left`, stays on course, and the next one is open until both chains are equal. What is missing to
`CatchesUp` is that the step is taken, which is its fairness.

**DataCacheProofs.** `TypeCorrect`; `ExecutionsAreBounded`: a request that executes, or is about to delete the
lock key, has the lock or is one of `Lost`, and there are no more of these than locks that expired
before their `get` ended (`LapsesCover`). An expiry under the owner adds the owner. A DEL that takes
another's lock adds that one and ends its sender's part, which was itself `Lost`: the number stays. A lost answer
or a death adds nobody. Hence the bound, for the one that has the lock and the lost ones; and
while no lock has expired early, everybody at work has the lock (`OwnLockUntilLapse`). No bound on the time a
release takes is assumed.
`ListenersGo`: a request in `listeners` has its timer pending. `WaitIsBounded` is what can be proved
of `WaitersProceed`: a request at `wait` has its timer pending, each step of a request in the loop of
`get` takes it out or lessens the steps that the poll timeout leaves (`Turns`), and no step of
another request, of Redis or of a dying worker sends it back. `LockIsHeldBriefly` is what can be proved of
`LockFreed`: a request that has the lock has at most eight steps to go (`Hold`), of which a release
that fails half-way repeats some once, nobody else's step adds to them, and the last frees the lock, as its expiry does.

**AccessGuardProofs.** `TypeCorrect`; `LetThroughIsBounded`. `LetThroughInv` says that, as long as the counter is
not over the limit, what was let through is covered by the earlier starts (`Max` and all slots each), the counter,
the requests that passed and are not counted yet (`Passed`), and one per slot for the time without a key, since a
request that looks then goes to start one. While a key with a time to live is there nobody comes to the steps
that start a counter, so the starts and the requests still at these steps (`Starters`) are at most one
more than the slots. `BanIsBounded` is what can be proved of `NoPermanentBan`: a key without a
time to live is given one by the client's own requests within ten steps, which
no step of another request adds to, and a key with one keeps it until it expires and the ban
with it.

**BlockPackingProofs.** The invariant relates cursors to what is inserted and
numbered: `tx_index_cursor` is the number of inserted rows (or of these and the
batch's once it is numbered), `log_index_cursor` the number of logs inserted and
numbered, `cumulative_gas_used` that of the last numbered row, the rows of the batch go on where the
inserted ones end (`Batch`, `Earlier`), and a log of the batch names the position of its own
transaction (`BatchLogs`), which `InsertBatch` replaces by that row's id. From it `TransactionsNumbered`, `LogsNumbered` and
`LogsLinked` follow for every block and batch size.

`CommittedIsWhole` rests on a second invariant, `Whole`: every Ethereum transaction that is numbered has
a row, inserted or in the batch, and in the logs inserted followed by those of the batch the logs of one
transaction stand next to each other, as many as it has; when the last batch is
inserted this is the property, by the cardinality of an interval.

`StoresBlock` is the refinement of `StoredBlock`. A third invariant, `Tallied`, says that the cursors are
where a single pass over the transactions numbered so far would be (`Tally`), and that each row, in the
batch or inserted, has the numbers the pass gives its transaction; an attempt that fails goes back to an empty tally. With
`Whole` it gives both inclusions at the commit: every row is one of the pass, and every row of the
pass is there. Of a transaction's logs the positions are counted: as many, all
different, all in an interval of that size, hence all of it. That `Tally`, a recursive function, has a value at each
transaction and grows is an induction over the naturals, which is said of a set
(`SetInduction`, from `NatLessThanWellFounded`): the library's induction theorems take an operator as a
parameter, which the provers cannot instantiate.

**HeadFeedProofs.** `FeedInv` says of each cached answer which heads it may hold,
whatever the chain was when it was asked for: numbers from the one after
`currentTip` on, none above the tip in its key, and all of them unless `shortened`. Of each
step of a poll it says how far the feed has come. `Ascending` and `Gapless` follow, for any number of
failures and restarts. The rest of the argument is that answers are kept under the tip they
were asked for, so that a stale one is too short but never out of order.

Of the liveness properties, `StopsAreNoticed` says what leads a stopped emitter back: it has its interval set
(`StopsOK`), only `Check` starts it, and start() ends only with a loop scheduled. `StayingBlockIsReached` counts the
queries until a stored block has been sent (`Left`): from a poll below its number, with no old answer in
the cache, at most three. `Coming` is what the steps keep until then, whatever is
indexed, rolled back above the block or cached: no answer that spans its number leaves it out.

**FilterPollingProofs.** `NoLogSkipped` speaks of `lastPoll` only; `PollInv` adds what makes it
inductive. `Covers`: an answer, in the cache or in the hands of a request, lists every log
that is there *now* between its start and its last row. That it stays so while
blocks come and go is the heart of the proof: ids are never used again and ascend with block
numbers, so a new log lies above the last row of every answer given before (`CoversStays`).
`Past`: all that the `lastPoll` in the filter, or one that a request has read, has
passed was reported (`PastLast`: reporting an answer and moving to its last row keeps this).
`NoNumberSkippedHolds` is the same argument for block numbers.

`StayingLogIsReached` is what can be proved of `LogsReported`, for a log that is due (`Due`). Answers that
leave it out (`Useless`) only expire: a query would not give one, unless too many logs
are new. A poll that has read nothing against it stays on its way (`OnWay`) through everything that is
indexed, rolled back and polled meanwhile, and each of its steps that does not fail leaves fewer (`Remaining`), once the
useless answers have gone.

**GatewayProofs.** About `TxPath`: `PathInv` says that the Godwoken transaction under way is
`Made` of the signed one, natively or not, with the sender's account; lemmas show that both decoders give back what was
encoded (`DecodersRead`), that signature and parity survive, and that the encoding hashed by the indexer is
the signed one when it was canonical and for this chain. `IndexedAsSignedHolds` follows, for every
draft, size and limit. `PendingAsIndexedHolds` needs what is stored as well: `FormInv` gives the
form of the transaction, also of one that somebody else made, `RowInv` says that the row is
`filter_single_transaction` of it and of the receipt the node gave, and `StoredAs` what that is in the words of the signed
transaction; then each view is computed from either side (`DecodersAgree`, `SameViews`). `CallInv` says that `eth_call` and `eth_sendRawTransaction` made the same
transaction, and that the checks of the latter imply those of `gw_submit_l2transaction`;
`SimulatedAsSentHolds` follows. About `PriceOracle`: of three answers of which at most one is wild the
middle one lies between two others (`PriceSoundHolds`, with the loop and the lower limit).

About `LogFilter`: the rule is one condition on the address and one for each topic
(`RuleInParts`); each of the four loops and conditions of the code is that part of it for logs and
filters of their forms (`MemoryFollowsRule`, `DatabaseFollowsRule`). `FiltersAgreeHolds` follows for any logs and plain filters.

About `Subscriptions`: `SubscriptionInv` says of each id what the connection keeps of it (`Kept`: the id
is in exactly the set of its kind until it is unsubscribed), what it was sent (`SentOK`), and that a list of
logs on its way already is what the rule selects (`LogsKept`), which needs `MemoryFollowsRule`. The
hard steps are `LogsListener`, where a new list is due to those that are subscribed now and to no other (`OnLogs`), and `SendLogs`, where any
list on its way may be the next (`OnSend`). A step about one id leaves what is known of the others (`IdRests`).
`SubscriptionsExactHolds` follows for any number of ids, heads and lists.

About `MoleculeLayout`, for any number of fields or items, of any length: `TableReadsBack` (what
`serializeTable` writes is accepted, and each item is read back, by validate() and by the getters), `TableIsCanonical`
(whatever is accepted is what `serializeTable` writes for the items read from it), `NoPieceIsATable`, `TableIsUnambiguous`, and
`FixVecReadsBack` and `FixVecIsCanonical` for vectors of items of one size. `Pieces` says where each
buffer lies in a concatenation, by induction over the buffers; `Header` is what the check of a
header amounts to, and follows from it and suffices for it (`HeaderNeeded`, `HeaderSuffices`). Ascending offsets from the
header's end to the buffer's leave no byte out, so the items are the buffer.

About `Gateway`: a step is one of a part and leaves the others alone (`GatewayStep`), so
the gateway implements each of its parts (`PartsFollowed`) and keeps
all that they promise (`GatewayIsSafe`).

**TxLookupProofs.** `LookupInv` says where the keys in Redis agree with the node's
transaction while it is `kept` (`KeptOK`), what a send under way may still write (`SenderOK`), and for each step of a watched lookup
what it has missed: a lookup past the database that finds nothing at the node under the mapping, or no key, is excused already (`WatchedOK`, `Excused`: the row is
there, or a contract was deployed to the recipient). Both excuses are stable, which is why the answer may come
any number of steps later. `AcceptedIsFoundHolds` follows for any number of lookups and
attempts, with instant finality or without.

Only model-checked: liveness under fairness, which is out of the prover's reach (`CatchesUp`, `LockFreed`,
`WaitersProceed`, `NoPermanentBan`, `LogsReported`, `Announced`, `PollsAgain`; of each the measure, or what
leads to it, is proved: a step that is open lessens it, and no other step adds to it); and
`MoleculeRoundTrips` and `MoleculeCanonical`, which are about recursive operators over types within types. One level
of such a type is proved; that levels put together keep what each promises is checked on all classes.

## 6. Disagreements with the documentation

Each is a run that TLC ends with a counterexample.

- `data_cache_release`: `cache/data.ts:127` says "only lock owner can delete the
  lock", but GET and DEL are two commands, and the lock may expire and change hands between them.
- `guard_limit`: `README.md:66` says `<max requests number in expired_time>`; one
  more request passes, since `guard.ts:101` compares with `>` before it counts.
- `guard_window`: `guard.ts:113` logs that the key is reset to
  `expiredTimeMilsecs` ms; line 115 passes a thousandth of it to a function
  that takes milliseconds, and `store.ts:31` makes that the window of the worker
  from then on.
- `filter_blocks`: `eth.ts:979` promises "events that have occurred since the last
  poll"; a block that replaces a reported one after a rollback is never returned.

One more has no run: `docs/schema_design.md:110` defines `log_index` as the position of the log in the receipt of
its transaction. The indexer numbers logs through the block (`indexer.rs:297` and `515`), as `eth.ts:987`
tells clients and a migration repaired old rows to (`20221018014620_fix_log_index.ts`). `LogsNumbered` is stated as
these have it, and every block in which two transactions have logs contradicts the document.

Properties are stated with the limits the code has. These are not contradicted by
a document, but a reader of the code should know of them.

Following the chain:

- A node that reverts to a chain not longer than the stored one leaves the
  old fork in place until it grows: `CatchesUp` needs the node to be ahead.
- A block that replaces an announced one at the same height is not announced: `Announced` is about blocks above `currentTip`.
- An emitter whose first query fails is off and believes that it runs (`StartFails`).

Finding a transaction (`AcceptedIsFound` names the first five):

- A transaction that is sent again, from a sender without an account, while a lookup of the earlier attempt has still to
  delete the auto-create-account key (`eth.ts:807`), may lose its new key to that lookup.
- A client whose keys could not be stored gets an error for a transaction that was submitted.
- The lookup that finds the row deletes the auto-create-account key; another one that has
  passed the database before that answers null.
- A contract deployed to the recipient of a transaction from an account that does not
  exist yet makes the second conversion another transaction: null. The checks are made again too, and may fail: an error.
- A receipt without a system log is an error while pending (`filter-web3-tx.ts`); the indexer
  stores it with `gas_used = gas_limit`.
- The client is given the hash of the raw bytes, but the auto-create-account key is that of the
  re-encoded transaction. They differ when a number has leading zeros.

Converting and checking:

- The chain that was signed is not compared with the configured one; a transaction signed for another chain is indexed under another
  hash. `IndexedAsSigned` promises the hash for this chain and canonical encodings only.
- `verifyGaslessTransaction` compares `maxFeePerGas` with itself, so that it may differ from `maxPriorityFeePerGas`; the gas
  price has to be the text "0x0", which a zero byte is not.
- `isPolyjuiceTransactionArgs` compares 14 characters with 16 and is always true.
- `gw_submit_l2transaction` charges a native transfer as a deployment, and recovers the sender
  of a native or unprotected transaction from account 0 from another message (`SimulatedAsSent`).
- The view of a cached raw transaction leaves the bytes of its numbers as they were.
- A signature that has not 65 bytes is stored as zeros, while the pending view takes it apart as it is
  (`PendingAsIndexed` is about signatures of 65 bytes).
- Calls for "earliest" share their cache key with those for "pending".

Filters, subscriptions and prices:

- In memory a list of addresses matches nothing and topics are compared with their case; SQL
  fails on a null inside a list of topics (`PlainFilter`).
- Closing a connection removes its listeners only; what waits for hashes is dropped. A list of logs
  of which one lookup fails is never sent, and nothing tells the client (`ws/methods.ts:138-162`).
- `price-oracle.ts:90` compares seconds with milliseconds, so the price is written at every poll.
- A price that rounds to zero makes every gas price an error; a cached `eth_gasPrice` may lie below the current minimum.
- `validate()` of a generated class ignores its argument `compatible`: a table with
  more fields than the class knows passes, and so may one with fewer. `MoleculeCanonical` is
  therefore about tables with exactly the known fields (`ExactFields`).

## 7. What is not shown

- `Indexer: update mode` (`runner.rs` 116-168, `update_web3_*`): rows of `Indexer` are
  identified by block and transaction, and rewriting a row with its own contents changes nothing there. A model of it
  would have to tell apart row ids, both hashes and the versions of a decoder.
- The rpc-client crate and the JSON-RPC client of the godwoken package: stateless
  calls, of which the modules model the outcomes. Maintenance commands: one-off repairs of rows of earlier versions.
- `schemas/index.esm.js`: the same generated code as `index.js` in the other module format.
- The form of parameters, the mapping of error codes and messages: stateless. Numbers, sizes and fees that are validated
  are in `TxCodec`.
- In `TxCodec` and `TxViews`: transactions of the sUDT and registry accounts (their fee checks
  and the transfers the indexer stores), the ids of registries, gasless payloads
  beyond the fields that are compared, and senders that are no Ethereum accounts.
- Answers of the query cache for a transaction that come back because the tip does (`TxLookup` has no tip in `cached`).
- Block numbers, indexes and log numbering of pending answers; receipts cached from
  a block that is then rolled back.
- The `gw:` key of the hash mapping, which serves the logs of subscriptions.
- Of the Godwoken methods, those that pass a call on to the node.
- Real time: a time to live is the possibility that a key goes, never its
  distance. `LogsReported` assumes that the client polls before more than
  `MAX_QUERY_NUMBER` logs are new, since then every poll is an error.
- Durability of Redis and Postgres is taken as given.
