------------------------------ MODULE TxLookup -------------------------------
(***************************************************************************)
(* One transaction between three places: a client sends it, and sends it   *)
(* again, with eth_sendRawTransaction; the node queues, executes, includes *)
(* or drops it; the indexer stores its row.  Until then                    *)
(* eth_getTransactionByHash finds it at the node, by the hash mapping in   *)
(* Redis or, when its sender had no account yet, by the raw transaction in *)
(* Redis (methods/modules/eth.ts, cache/tx-hash.ts, convert-tx.ts).        *)
(*                                                                         *)
(* The Godwoken transaction made of it depends on the world: whether its   *)
(* sender has an account, and whether its recipient is a contract or the   *)
(* transaction a native transfer.  Once the sender is known its hash tells *)
(* whether it is native, and that is all that is kept of a hash.  The      *)
(* database is never empty, so there is a tip.                             *)
(***************************************************************************)
EXTENDS Naturals

CONSTANTS
    Lookup,         \* concurrent requests
    MaxSends,       \* how often the client sends
    InstantFinality \* instantFinalityHackMode

ASSUME LookupAssumption == MaxSends \in Nat /\ InstantFinality \in BOOLEAN

VARIABLES
    \* the world outside
    account,        \* the sender has an account
    contract,       \* the recipient is a contract
    node,           \* {} or the transaction at the node, with where it is
    row,            \* {} or the row in the database, with its hash, and whether
                    \* its block is still the node's
    \* Redis
    mapping,        \* {} or the Godwoken hash of the eth: key
    raw,            \* the auto-create-account key exists
    deleting,       \* lookups whose DEL of that key is on its way
    cached,         \* the query cache holds the row, maybe one that is gone
    \* requests
    sender,         \* [at, auto, native] of eth_sendRawTransaction
    sends,
    lookup,         \* [at, method, stored, hash, answer] of each lookup; stored:
                    \* it began when the row was there; hash: what it looks for
    \* history
    kept,           \* accepted, answered, and nothing was lost since
    watched         \* lookups that began with kept, and nothing lost since

redis == <<mapping, raw, deleting, cached>>
outside == <<account, contract, node, row>>
vars == <<outside, redis, sender, sends, lookup, kept, watched>>

SendSteps == {"idle", "price", "account", "balance", "recipient", "submit", "raw", "eth", "gw"}

LookupSteps ==
    {"idle", "db", "mapping", "node", "receipt", "raw", "signature", "from", "price", "balance",
     "recipient", "again", "hash", "hashdb", "data", "done"}

Answers == {"none", "row", "pending", "null", "error"}

\* What a lookup of an auto-create-account transaction does between reading its
\* key and deciding whether to delete it.
Deciding == {"signature", "from", "price", "balance", "recipient", "again"}

TypeOK ==
    /\ {account, contract, raw, cached, kept} \subseteq BOOLEAN
    /\ node \subseteq [auto : BOOLEAN, native : BOOLEAN, in : {"queue", "pool", "block"},
                       receipt : {"none", "whole", "bare"}]
    /\ row \subseteq [native : BOOLEAN, live : BOOLEAN] /\ mapping \subseteq BOOLEAN
    /\ deleting \subseteq Lookup
    /\ sender \in [at : SendSteps, auto : BOOLEAN, native : BOOLEAN]
    /\ sends \in 0 .. MaxSends
    /\ lookup \in [Lookup -> [at : LookupSteps, method : {"tx", "receipt"}, stored : BOOLEAN,
                              hash : BOOLEAN, answer : Answers]]
    /\ watched \subseteq Lookup

Idle == [at |-> "idle", method |-> "tx", stored |-> FALSE, hash |-> FALSE, answer |-> "none"]
NotSending == [at |-> "idle", auto |-> FALSE, native |-> FALSE]

Init ==
    /\ account \in BOOLEAN /\ contract = FALSE
    /\ node = {} /\ row = {}
    /\ mapping = {} /\ raw = FALSE /\ deleting = {} /\ cached = FALSE
    /\ sender = NotSending /\ sends = 0
    /\ lookup = [l \in Lookup |-> Idle]
    /\ kept = FALSE /\ watched = {}

Lose == kept' = FALSE /\ watched' = {}

-----------------------------------------------------------------------------
(* The world                                                               *)

\* A deposit, and a contract deployed to the recipient.
AccountCreated ==
    /\ ~account /\ account' = TRUE
    /\ UNCHANGED <<contract, node, row, redis, sender, sends, lookup, kept, watched>>
ContractDeployed ==
    /\ ~contract /\ contract' = TRUE
    /\ UNCHANGED <<account, node, row, redis, sender, sends, lookup, kept, watched>>

\* The node executes the transaction; one from account 0 gets its account.  A
\* receipt may lack the system log.
Execute ==
    \E n \in node, receipt \in {"whole", "bare"} :
       /\ n.in = "queue"
       /\ node' = {[n EXCEPT !.in = "pool", !.receipt = receipt]}
       /\ account' = TRUE
       /\ UNCHANGED <<contract, row, redis, sender, sends, lookup, kept, watched>>

IncludeInBlock ==
    \E n \in node :
       /\ n.in = "pool" /\ node' = {[n EXCEPT !.in = "block"]}
       /\ UNCHANGED <<account, contract, row, redis, sender, sends, lookup, kept, watched>>

DropTransaction ==
    /\ \E n \in node : n.in # "block"
    /\ node' = {} /\ Lose
    /\ UNCHANGED <<account, contract, row, redis, sender, sends, lookup>>

\* The node reverts the block, and the transaction returns to its pool.
RevertBlock ==
    \E n \in node :
       /\ n.in = "block" /\ node' = {[n EXCEPT !.in = "pool"]} /\ Lose
       /\ row' = {[r EXCEPT !.live = FALSE] : r \in row}
       /\ UNCHANGED <<account, contract, redis, sender, sends, lookup>>

\* The indexer stores the block, or takes it away.
IndexBlock ==
    /\ row = {} /\ \E n \in node : n.in = "block" /\ row' = {[native |-> n.native, live |-> TRUE]}
    /\ UNCHANGED <<account, contract, node, redis, sender, sends, lookup, kept, watched>>
DeleteBlock ==
    /\ \E r \in row : ~r.live
    /\ row' = {} /\ Lose
    /\ UNCHANGED <<account, contract, node, redis, sender, sends, lookup>>

\* A time to live of two hours ends, or that of a cached query.
Expire ==
    /\ \/ mapping # {} /\ mapping' = {} /\ Lose /\ UNCHANGED <<raw, cached>>
       \/ raw /\ raw' = FALSE /\ Lose /\ UNCHANGED <<mapping, cached>>
       \/ cached /\ cached' = FALSE /\ UNCHANGED <<mapping, raw, kept, watched>>
    /\ UNCHANGED <<outside, deleting, sender, sends, lookup>>

DeleteArrives ==
    /\ \E l \in deleting : deleting' = deleting \ {l}
    /\ raw' = FALSE
    /\ UNCHANGED <<outside, mapping, cached, sender, sends, lookup, kept, watched>>

-----------------------------------------------------------------------------
(* eth_sendRawTransaction                                                  *)

Sends(from, to) ==
    /\ sender.at = from /\ sender' = [sender EXCEPT !.at = to]
    /\ UNCHANGED <<sends, lookup>>

\* The client gets its answer, the hash or an error.
SendEnds(from) ==
    /\ sender.at = from /\ sender' = NotSending
    /\ UNCHANGED <<sends, lookup>>

Send ==
    /\ sender.at = "idle" /\ sends < MaxSends
    /\ sends' = sends + 1 /\ sender' = [sender EXCEPT !.at = "price"]
    /\ UNCHANGED <<outside, redis, lookup, kept, watched>>

\* verifyGasPrice: the gas price may be below the minimal one by now.
SendReadsPrice ==
    /\ Sends("price", "account") \/ SendEnds("price")
    /\ UNCHANGED <<outside, redis, kept, watched>>

SendFindsAccount ==
    /\ sender.at = "account"
    /\ sender' = [sender EXCEPT !.at = "balance", !.auto = ~account]
    /\ UNCHANGED <<outside, redis, sends, lookup, kept, watched>>

\* checkBalance, for a sender without an account, and verifyEnoughBalance: the
\* balance may have been spent.
SendChecksBalance ==
    /\ Sends("balance", "recipient") \/ SendEnds("balance")
    /\ UNCHANGED <<outside, redis, kept, watched>>

SendFindsRecipient ==
    /\ sender.at = "recipient"
    /\ sender' = [sender EXCEPT !.at = "submit", !.native = ~contract]
    /\ UNCHANGED <<outside, redis, sends, lookup, kept, watched>>

\* The node takes it, unless it has one with that nonce; its answer may be lost.
\* It gives no hash for a transaction from account 0.
SubmitL2Transaction ==
    /\ \/ /\ node = {}
          /\ node' = {[auto |-> sender.auto, native |-> sender.native, in |-> "queue",
                       receipt |-> "none"]}
          /\ \/ Sends("submit", IF sender.auto THEN "raw" ELSE "eth")
             \/ SendEnds("submit")
       \/ SendEnds("submit") /\ UNCHANGED node
    /\ UNCHANGED <<account, contract, row, redis, kept, watched>>

\* The client is answered.  A lookup that is about to delete the key of an
\* earlier attempt may yet delete the new one.
Accepted ==
    /\ kept' = /\ node # {}
               /\ \A r \in row : r.live
               /\ cached => row # {}
               /\ sender.auto => deleting = {} /\ \A l \in Lookup : lookup[l].at \notin Deciding
               /\ ~sender.auto => mapping # {}
    /\ UNCHANGED watched

\* Store.insert of the raw transaction, or a failure.
SendCachesRaw ==
    /\ \/ SendEnds("raw") /\ raw' = TRUE /\ Accepted
       \/ SendEnds("raw") /\ UNCHANGED <<raw, kept, watched>>
    /\ UNCHANGED <<outside, mapping, deleting, cached>>

\* cacheTxHashMapping: two inserts.  The second key serves the logs of
\* subscriptions only, and no lookup here.
SendCachesEthHash ==
    /\ \/ Sends("eth", "gw") /\ mapping' = {sender.native}
       \/ SendEnds("eth") /\ UNCHANGED mapping
    /\ UNCHANGED <<outside, raw, deleting, cached, kept, watched>>

SendCachesGwHash ==
    /\ SendEnds("gw")
    /\ Accepted \/ UNCHANGED <<kept, watched>>
    /\ UNCHANGED <<outside, redis>>

-----------------------------------------------------------------------------
(* eth_getTransactionByHash                                                *)

Goes(l, from, to) ==
    /\ lookup[l].at = from /\ lookup' = [lookup EXCEPT ![l].at = to]
    /\ UNCHANGED <<sender, sends, kept, watched>>

AnswersWith(l, from, answer) ==
    /\ lookup[l].at = from
    /\ lookup' = [lookup EXCEPT ![l].at = "done", ![l].hash = FALSE, ![l].answer = answer]
    /\ UNCHANGED <<sender, sends, kept, watched>>

\* rpc.getTransaction, by the hash of a transaction from an account.
AtNode(hash) == \E n \in node : n.native = hash /\ ~(n.auto /\ n.in = "queue")

Begins(l, method, at) ==
    /\ lookup[l].at = "idle"
    /\ lookup' = [lookup EXCEPT ![l].at = at, ![l].method = method, ![l].stored = method = "receipt" /\ row # {}]
    /\ watched' = IF kept THEN watched \cup {l} ELSE watched
    /\ UNCHANGED <<outside, redis, sender, sends, kept>>

GetTransactionByHash(l) == Begins(l, "tx", "db")

\* The key of the raw transaction is deleted without waiting.  A row that was
\* found is cached, under a key that has the tip's hash in it: that a later tip
\* makes the query again is the loss of `cached', which may be at any time.  An
\* answer that comes back because the tip does is left out.
QueryDatabase(l) ==
    /\ \/ /\ row # {} \/ cached
          /\ AnswersWith(l, "db", "row")
          /\ deleting' = deleting \cup {l} /\ cached' = TRUE
       \/ row = {} /\ ~cached /\ Goes(l, "db", "mapping") /\ UNCHANGED <<deleting, cached>>
    /\ UNCHANGED <<outside, mapping, raw>>

ReadMapping(l) ==
    /\ \/ mapping = {} /\ Goes(l, "mapping", "raw")
       \/ /\ lookup[l].at = "mapping"
          /\ \E hash \in mapping : lookup' = [lookup EXCEPT ![l].at = "node", ![l].hash = hash]
          /\ UNCHANGED <<sender, sends, kept, watched>>
    /\ UNCHANGED <<outside, redis>>

\* For either method: the transaction, then its receipt, from the node.  A
\* receipt without a system log makes filterWeb3Transaction throw; without a
\* receipt there is a transaction to answer, but no receipt.
AskNode(l) ==
    /\ IF AtNode(lookup[l].hash) THEN Goes(l, "node", "receipt") ELSE AnswersWith(l, "node", "null")
    /\ UNCHANGED <<outside, redis>>

AskReceipt(l) ==
    LET receipts == {n.receipt : n \in {n \in node : AtNode(lookup[l].hash)}}
    IN /\ AnswersWith(l, "receipt",
            IF "bare" \in receipts THEN "error"
            ELSE IF lookup[l].method = "receipt" /\ "whole" \notin receipts THEN "null"
            ELSE "pending")
       /\ UNCHANGED <<outside, redis>>

ReadRaw(l) ==
    /\ IF raw THEN Goes(l, "raw", "signature") ELSE AnswersWith(l, "raw", "null")
    /\ UNCHANGED <<outside, redis>>

\* Mutant: the account is looked up at once.
AskBySignatureNever(l) == Goes(l, "signature", "from") /\ UNCHANGED <<outside, redis>>

\* isAcaTxExist: by the hash of the signature, which the node knows at least
\* until the transaction has an account.
AskBySignature(l) ==
    /\ \/ /\ \E n \in node : n.auto
          /\ AnswersWith(l, "signature", "pending")
       \/ /\ \A n \in node : n.auto => n.in # "queue"
          /\ Goes(l, "signature", "from")
    /\ UNCHANGED <<outside, redis>>

\* Not found: the transaction was dropped, and the key is deleted.
NotFound(l, from) == AnswersWith(l, from, "null") /\ deleting' = deleting \cup {l}

FindFromId(l) ==
    /\ \/ account /\ Goes(l, "from", "price") /\ UNCHANGED deleting
       \/ ~account /\ NotFound(l, "from")
    /\ UNCHANGED <<outside, mapping, raw, cached>>

\* polyTxToGwTx once more, with its checks: what it throws the client gets.
ReadPrice(l) ==
    /\ Goes(l, "price", "balance") \/ AnswersWith(l, "price", "error")
    /\ UNCHANGED <<outside, redis>>

CheckBalance(l) ==
    /\ Goes(l, "balance", "recipient") \/ AnswersWith(l, "balance", "error")
    /\ UNCHANGED <<outside, redis>>

FindRecipient(l) ==
    /\ lookup[l].at = "recipient"
    /\ lookup' = [lookup EXCEPT ![l].at = "again", ![l].hash = ~contract]
    /\ UNCHANGED <<outside, redis, sender, sends, kept, watched>>

AskNodeAgain(l) ==
    /\ \/ AtNode(lookup[l].hash) /\ AnswersWith(l, "again", "pending") /\ UNCHANGED deleting
       \/ ~AtNode(lookup[l].hash) /\ NotFound(l, "again")
    /\ UNCHANGED <<outside, mapping, raw, cached>>

-----------------------------------------------------------------------------
(* eth_getTransactionReceipt                                               *)

GetTransactionReceipt(l) == Begins(l, "receipt", "hash")

\* ethTxHashToGwTxHash: the mapping, then the database, in two steps.
ReadGwHash(l) ==
    /\ \/ mapping = {} /\ Goes(l, "hash", "hashdb")
       \/ /\ lookup[l].at = "hash"
          /\ \E hash \in mapping : lookup' = [lookup EXCEPT ![l].at = "data", ![l].hash = hash]
          /\ UNCHANGED <<sender, sends, kept, watched>>
    /\ UNCHANGED <<outside, redis>>

QueryGwHash(l) ==
    /\ \/ row = {} /\ AnswersWith(l, "hashdb", "null")
       \/ /\ lookup[l].at = "hashdb"
          /\ \E r \in row : lookup' = [lookup EXCEPT ![l].at = "data", ![l].hash = r.native]
          /\ UNCHANGED <<sender, sends, kept, watched>>
    /\ UNCHANGED <<outside, redis>>

\* getTransactionAndLogsByHash; the node is asked in instant-finality mode only.
QueryReceipt(l) ==
    /\ IF \E r \in row : r.native = lookup[l].hash THEN AnswersWith(l, "data", "row")
       ELSE IF InstantFinality THEN Goes(l, "data", "node")
       ELSE AnswersWith(l, "data", "null")
    /\ UNCHANGED <<outside, redis>>

-----------------------------------------------------------------------------

Environment ==
    \/ AccountCreated \/ ContractDeployed
    \/ Execute \/ IncludeInBlock \/ DropTransaction \/ RevertBlock
    \/ IndexBlock \/ DeleteBlock \/ Expire \/ DeleteArrives

SendRawTransaction ==
    \/ Send \/ SendReadsPrice \/ SendFindsAccount \/ SendChecksBalance \/ SendFindsRecipient
    \/ SubmitL2Transaction \/ SendCachesRaw \/ SendCachesEthHash \/ SendCachesGwHash

Looks(l) ==
    \/ GetTransactionByHash(l) \/ QueryDatabase(l) \/ ReadMapping(l) \/ AskNode(l) \/ AskReceipt(l)
    \/ ReadRaw(l) \/ AskBySignature(l) \/ FindFromId(l) \/ ReadPrice(l) \/ CheckBalance(l)
    \/ FindRecipient(l) \/ AskNodeAgain(l)
    \/ GetTransactionReceipt(l) \/ ReadGwHash(l) \/ QueryGwHash(l) \/ QueryReceipt(l)

Next == Environment \/ SendRawTransaction \/ \E l \in Lookup : Looks(l)

Spec == Init /\ [][Next]_vars

-----------------------------------------------------------------------------

\* A transaction that was accepted and answered, and of which nothing was lost
\* (no key expired, no drop, no revert), is found by eth_getTransactionByHash
\* through all its moves between queue, pool, block and database, and by
\* eth_getTransactionReceipt once its row is there.  Nothing is said of one that was
\* sent again, from a sender without an account, while a lookup of an earlier attempt
\* had still to delete the key (eth.ts:807), which then is the new one's: Accepted;
\* nor of one whose client got an error, since a key was not stored.
\* The exceptions are those
\* of a sender without an account: another lookup found the row in between and
\* deleted the key, or a contract was deployed to the recipient, so that the
\* transaction made of it is another (null); and the checks of the conversion,
\* made again, fail (an error).  A receipt without a system log is an error
\* (eth.ts:726-920 and 1252-1298).
AcceptedIsFound ==
    \A l \in watched :
       lookup[l].at = "done" =>
         \E n \in node :
            IF lookup[l].method = "tx"
            THEN /\ lookup[l].answer = "null" => n.auto /\ (row # {} \/ n.native = contract)
                 /\ lookup[l].answer = "error" => n.auto \/ n.receipt = "bare"
            ELSE /\ lookup[l].answer = "null" => ~lookup[l].stored
                 /\ lookup[l].answer = "error" => n.receipt = "bare"

=============================================================================
