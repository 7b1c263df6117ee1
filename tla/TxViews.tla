------------------------------ MODULE TxViews -------------------------------
(***************************************************************************)
(* What becomes of a Godwoken transaction and its receipt: the row and the *)
(* logs the indexer stores (filter_single_transaction and parse_log in     *)
(* crates/indexer, types.rs), and the three ways the API answers for a     *)
(* transaction: from the row (db/types.ts), from the node's copy           *)
(* (filter-web3-tx.ts), or from the cached raw transaction of an account   *)
(* that does not exist yet (convert-tx.ts).  The block, the index and the  *)
(* numbering of logs in the block are left out: a pending transaction is   *)
(* shown as the first of the next block, BlockPacking has the others.      *)
(*                                                                         *)
(* A receipt is [exit_code, logs], a log item [service_flag, data].  In    *)
(* the data of a log an integer, a hash or a topic is one element and an   *)
(* address AddressSize elements.                                           *)
(***************************************************************************)
EXTENDS TxCodec

GW_LOG_SUDT_TRANSFER == 0
GW_LOG_SUDT_PAY_FEE == 1
GW_LOG_POLYJUICE_SYSTEM == 2
GW_LOG_POLYJUICE_USER == 3

-----------------------------------------------------------------------------
(* Logs                                                                    *)

\* Gas used, cumulative gas, created address, status.
SystemLogParses(data) == Len(data) = 2 + AddressSize + 1
SystemLog(data) == [gasUsed |-> data[1], createdAddress |-> SubSeq(data, 3, AddressSize + 2)]

\* Address, data size, data, number of topics, topics; nothing may follow.
UserLogForm(data) ==
    /\ Len(data) >= AddressSize + 1
    /\ Len(data) >= AddressSize + 2 + data[AddressSize + 1]
    /\ Len(data) = AddressSize + 2 + data[AddressSize + 1]
                     + data[AddressSize + 2 + data[AddressSize + 1]]
UserLogParses(data) ==
    UserLogForm(data) /\ data[AddressSize + 1] <= GW_USER_LOG_DATA_MAX_SIZE
UserLog(data) ==
    LET size == data[AddressSize + 1]
    IN [address |-> SubSeq(data, 1, AddressSize),
        data    |-> SubSeq(data, AddressSize + 2, AddressSize + 1 + size),
        topics  |-> SubSeq(data, AddressSize + 3 + size, Len(data))]

\* Two registry addresses, empty or an address each, and an amount.
SudtLogParses(data) ==
    /\ Len(data) \in {5, 5 + AddressSize, 5 + 2 * AddressSize}
    /\ LET from == 2 + (IF data[2] = 0 THEN 0 ELSE AddressSize)
       IN /\ Len(data) >= from + 2
          /\ Len(data) >= from + 3 + (IF data[from + 2] = 0 THEN 0 ELSE AddressSize)

\* parse_log returns no error.
LogParses(item) ==
    \/ item.service_flag \in {GW_LOG_SUDT_TRANSFER, GW_LOG_SUDT_PAY_FEE} /\ SudtLogParses(item.data)
    \/ item.service_flag = GW_LOG_POLYJUICE_SYSTEM /\ SystemLogParses(item.data)
    \/ item.service_flag = GW_LOG_POLYJUICE_USER /\ UserLogParses(item.data)

\* The first system log, if any, and the user logs in their order.
SystemItem(receipt) ==
    LET at == {i \in DOMAIN receipt.logs : receipt.logs[i].service_flag = GW_LOG_POLYJUICE_SYSTEM}
    IN {receipt.logs[i] : i \in {i \in at : \A j \in at : i <= j}}
UserLogs(receipt) ==
    LET items == SelectSeq(receipt.logs, LAMBDA item : item.service_flag = GW_LOG_POLYJUICE_USER)
    IN [i \in DOMAIN items |-> UserLog(items[i].data)]

\* The created contract, when the transaction was to create one.
ContractAddress(args, log) ==
    IF args.isCreate /\ log.createdAddress # ZERO_ETH_ADDRESS THEN {log.createdAddress} ELSE {}

-----------------------------------------------------------------------------
(* The indexer                                                             *)

\* The caller has the account lock for addresses, the callee is Polyjuice's.
IsEthTransaction(world, gw) ==
    /\ gw.from_id \in Address /\ world.account[gw.from_id] = "eoa"
    /\ gw.to_id = PolyjuiceCreator \/ (gw.to_id \in Address /\ world.account[gw.to_id] = "contract")

\* filter_single_transaction returns a row and no error.
Indexable(world, gw, receipt) ==
    /\ IsEthTransaction(world, gw)
    /\ Decodes(gw.args)
    /\ \A i \in DOMAIN receipt.logs : LogParses(receipt.logs[i])

\* A signature that is not 65 bytes is stored as zeros.
Signature(gw) == IF Len(gw.signature) = 5 THEN gw.signature ELSE <<0, 0, 0, 0, 0>>

filter_single_transaction(gw, receipt) ==
    LET args      == PolyjuiceArgs_decode(gw.args)
        signature == Signature(gw)
        system    == SystemItem(receipt)
    IN [chain_id         |-> gw.chain_id,
        from_address     |-> gw.from_id,
        to_address       |-> ToAddress(args, gw.to_id),
        value            |-> args.value,
        nonce            |-> gw.nonce,
        gas_limit        |-> args.gasLimit,
        gas_price        |-> args.gasPrice,
        data             |-> args.input,
        r                |-> SubSeq(signature, 1, 2),
        s                |-> SubSeq(signature, 3, 4),
        v                |-> signature[5],
        gas_used         |-> IF system = {} THEN args.gasLimit ELSE SystemLog(The(system).data).gasUsed,
        contract_address |-> IF system = {} THEN {}
                             ELSE ContractAddress(args, SystemLog(The(system).data)),
        exit_code        |-> receipt.exit_code,
        logs             |-> UserLogs(receipt)]

\* Mutant: every signature is taken for one with a chain id.
add_chain_replay_protection_always(row) == row.v + 35 + row.chain_id * 2

add_chain_replay_protection(row) ==
    row.v + (IF row.chain_id = 0 THEN 27 ELSE 35 + row.chain_id * 2)

\* The encoding whose hash is eth_tx_hash.
to_rlp(row) ==
    LET number(n) == [n |-> n, zeros |-> 0]
    IN [nonce |-> number(row.nonce), gasPrice |-> number(row.gas_price),
        gasLimit |-> number(row.gas_limit),
        to |-> IF row.to_address = {} THEN <<>> ELSE The(row.to_address),
        value |-> number(row.value), data |-> row.data,
        v |-> number(add_chain_replay_protection(row)),
        r |-> number(Number(row.r)), s |-> number(Number(row.s))]
compute_eth_tx_hash(row) == to_rlp(row)

-----------------------------------------------------------------------------
(* The API's answers                                                       *)

\* A log without data is shown with a word of zeros.
ApiLogs(logs) ==
    [i \in DOMAIN logs |-> [logs[i] EXCEPT !.data = IF @ = <<>> THEN <<0, 0>> ELSE @]]

toApiTransaction(row) ==
    [hash |-> compute_eth_tx_hash(row), from |-> row.from_address, to |-> row.to_address,
     gas |-> row.gas_limit, gasPrice |-> row.gas_price, input |-> row.data,
     nonce |-> row.nonce, value |-> row.value, v |-> getRealV(row.v, row.chain_id),
     r |-> Number(row.r), s |-> Number(row.s)]

toApiTransactionReceipt(row) ==
    [from |-> row.from_address, to |-> row.to_address, gasUsed |-> row.gas_used,
     contractAddress |-> row.contract_address,
     status |-> IF row.exit_code = 0 THEN 1 ELSE 0, logs |-> ApiLogs(row.logs)]

\* filterWeb3Transaction: the transaction, and its receipt when there is one.
\* It is undefined unless IsEthTransaction, and throws for a receipt without
\* a system log or with logs of another form.
PendingTransaction(ethTxHash, gw) ==
    LET args == decodePolyjuiceArgs(gw.args)
    IN [hash |-> ethTxHash, from |-> gw.from_id, to |-> ToAddress(args, gw.to_id),
        gas |-> args.gasLimit, gasPrice |-> args.gasPrice, input |-> args.input,
        nonce |-> gw.nonce, value |-> args.value,
        v |-> getRealV(gw.signature[5], gw.chain_id),
        r |-> Number(SubSeq(gw.signature, 1, 2)), s |-> Number(SubSeq(gw.signature, 3, 4))]

ReceiptParses(receipt) ==
    /\ SystemItem(receipt) # {}
    /\ SystemLogParses(The(SystemItem(receipt)).data)
    /\ \A i \in DOMAIN receipt.logs :
         receipt.logs[i].service_flag = GW_LOG_POLYJUICE_USER => UserLogForm(receipt.logs[i].data)

PendingReceipt(gw, receipt) ==
    LET args == decodePolyjuiceArgs(gw.args)
        log  == SystemLog(The(SystemItem(receipt)).data)
    IN [from |-> gw.from_id, to |-> ToAddress(args, gw.to_id), gasUsed |-> log.gasUsed,
        contractAddress |-> ContractAddress(args, log),
        status |-> IF receipt.exit_code = 0 THEN 1 ELSE 0,
        logs |-> ApiLogs(UserLogs(receipt))]

\* The raw transaction itself.
polyjuiceRawTransactionToApiTransaction(tx, ethTxHash, from) ==
    [hash |-> ethTxHash, from |-> from,
     to |-> IF tx.to = DEPLOY_TO_ADDRESS THEN {} ELSE {tx.to},
     gas |-> tx.gasLimit.n, gasPrice |-> tx.gasPrice.n, input |-> tx.data,
     nonce |-> tx.nonce.n, value |-> tx.value.n, v |-> tx.v.n, r |-> tx.r.n, s |-> tx.s.n]

=============================================================================
