------------------------------ MODULE TxCodec -------------------------------
(***************************************************************************)
(* The forms a transaction takes on its way: the signed Ethereum           *)
(* transaction a client sends (PolyjuiceTransaction), the Godwoken         *)
(* transaction submitted for it (api-server/src/convert-tx.ts), the row    *)
(* the indexer stores (crates/indexer), and what the API answers from the  *)
(* row, from the node's copy, or from the raw transaction.                 *)
(*                                                                         *)
(* Data and addresses are sequences of bytes; a quantity of the RLP        *)
(* encoding is [n, zeros], its value and its leading zero bytes; a hash is *)
(* the thing hashed.  The fixed part of Polyjuice's arguments is a record  *)
(* and rest what follows its 52 bytes.  An account is named by its         *)
(* address, polyjuiceCreator by the empty address.                         *)
(***************************************************************************)
EXTENDS Integers, Sequences

CONSTANTS
    Address,                    \* addresses, as sequences of bytes
    AddressSize,                \* 20
    ZERO_ETH_ADDRESS,
    U32, U64, U128,             \* the first numbers beyond these widths
    RPC_MAX_GAS_LIMIT,
    TX_GAS, TX_GAS_CONTRACT_CREATION,
    TX_DATA_ZERO_GAS, TX_DATA_NONE_ZERO_GAS,
    MAX_TRANSACTION_SIZE,
    GW_L2TX_ARGS_MAX_SIZE,
    GW_USER_LOG_DATA_MAX_SIZE,
    HandleOp,                   \* the selector of a gasless payload
    entrypoint,                 \* {} or the address of the entrypoint contract
    web3ChainId

ASSUME CodecAssumption ==
    /\ AddressSize \in Nat \ {0}
    /\ \A a \in Address : a \in Seq(Nat) /\ Len(a) = AddressSize
    /\ ZERO_ETH_ADDRESS \in Address
    /\ {U32, U64, U128, RPC_MAX_GAS_LIMIT, MAX_TRANSACTION_SIZE, GW_L2TX_ARGS_MAX_SIZE} \subseteq Nat
    /\ MAX_TRANSACTION_SIZE <= GW_L2TX_ARGS_MAX_SIZE
    /\ web3ChainId \in Nat \ {0}

DEPLOY_TO_ADDRESS == <<>>
PolyjuiceCreator == <<>>
AUTO_CREATE_ACCOUNT_FROM_ID == <<0>>

\* An optional value is a set of at most one element.
The(option) == CHOOSE x \in option : TRUE

-----------------------------------------------------------------------------
(* Signatures                                                              *)

\* A 32-byte word, scaled to two digits: r and s are integers in RLP and
\* words in a signature.
Word(n) == <<n \div 256, n % 256>>
Number(word) == 256 * word[1] + word[2]

\* r, s and the parity bit.
getSignature(tx) ==
    Word(tx.r.n) \o Word(tx.s.n) \o << IF tx.v.n % 2 = 0 THEN 1 ELSE 0 >>

PreEIP155(v) == v \in {27, 28}
SignedChain(v) == IF v % 2 = 0 THEN (v - 36) \div 2 ELSE (v - 35) \div 2

\* The fields that are hashed and signed.
calcMessage(tx) ==
    [nonce |-> tx.nonce.n, gasPrice |-> tx.gasPrice.n, gasLimit |-> tx.gasLimit.n,
     to |-> tx.to, value |-> tx.value.n, data |-> tx.data,
     chainId |-> IF PreEIP155(tx.v.n) THEN {} ELSE {SignedChain(tx.v.n)}]

\* secp256k1: a signature of another message recovers to somebody else.
Recover(signing, signature, message) ==
    IF signature = signing.signature /\ message = signing.message
    THEN signing.signer ELSE signing.stranger

getRealV(v, chainId) == v + (IF chainId = 0 THEN 27 ELSE chainId * 2 + 35)

\* The RLP encoding of numbers has no leading zeros; calcEthTxHash hashes an
\* encoding as it is.
Canonical(tx) ==
    LET number(q) == [n |-> q.n, zeros |-> 0]
    IN [nonce |-> number(tx.nonce), gasPrice |-> number(tx.gasPrice),
        gasLimit |-> number(tx.gasLimit), to |-> tx.to, value |-> number(tx.value),
        data |-> tx.data, v |-> number(tx.v), r |-> number(tx.r), s |-> number(tx.s)]
calcEthTxHash(encoded) == encoded

-----------------------------------------------------------------------------
(* Accounts, as the node knows them: world.account[a] is "none", "eoa" or  *)
(* "contract"                                                              *)

\* ethAddressToAccountId does not throw.
Addressable(a) ==
    a = PolyjuiceCreator \/ (a \in Address /\ a # ZERO_ETH_ADDRESS)

ethAddressToAccountId(world, a) ==
    IF a # PolyjuiceCreator /\ world.account[a] = "none" THEN {} ELSE {a}

isEthNativeTransfer(world, to) ==
    Len(to) = AddressSize /\ world.account[to] # "contract"

-----------------------------------------------------------------------------
(* The checks of a transaction                                             *)

\* The cost of the data's bytes, from the first to the last.
DataGas(data) ==
    LET cost[i \in 0 .. Len(data)] ==
          IF i = 0 THEN 0
          ELSE cost[i - 1] + (IF data[i] = 0 THEN TX_DATA_ZERO_GAS ELSE TX_DATA_NONE_ZERO_GAS)
    IN cost[Len(data)]

calcIntrinsicGas(to, data) ==
    (IF to = DEPLOY_TO_ADDRESS THEN TX_GAS_CONTRACT_CREATION ELSE TX_GAS) + DataGas(data)

RequiredBalance(tx) == tx.gasLimit.n * tx.gasPrice.n + tx.value.n

EnoughBalance(tx, world, from) == RequiredBalance(tx) <= world.balance[from]

\* The payload of a gasless transaction is <<HandleOp, callGasLimit,
\* verificationGasLimit, maxFeePerGas>>; anything else does not decode.
GaslessPayload(data) == Len(data) = 4 /\ data[1] = HandleOp

isGaslessTransaction(tx) ==
    tx.gasPrice.n = 0 /\ tx.to \in entrypoint /\ GaslessPayload(tx.data)

\* The gas price is compared as a string: a zero byte is not "0x0".
verifyGaslessTransaction(tx) ==
    /\ tx.gasPrice.zeros = 0
    /\ \A i \in 2 .. 4 : tx.data[i] <= RPC_MAX_GAS_LIMIT
    /\ tx.gasLimit.n = tx.data[3] * 3 + tx.data[2]

verifyGasPrice(tx, minGasPrice) == minGasPrice <= tx.gasPrice.n

\* The overhead of the encoding and the numbers are counted with the limit.
EncodedSize(tx) == Len(tx.data)

\* A chain id that is negative cannot be encoded, an empty v is no number.
MessageEncodes(tx) ==
    tx.v # [n |-> 0, zeros |-> 0] /\ (PreEIP155(tx.v.n) \/ SignedChain(tx.v.n) >= 0)

\* normalizeHexNumber of the molecule fields and UInt128ToLeBytes.
FitsWidths(tx) ==
    tx.nonce.n < U32 /\ tx.gasLimit.n < U64 /\ tx.gasPrice.n < U128 /\ tx.value.n < U128

Sender(tx, signing) == Recover(signing, getSignature(tx), calcMessage(tx))

\* polyTxToGwTx returns a transaction, and it can be serialised.
Accepts(tx, world, signing) ==
    /\ EncodedSize(tx) <= MAX_TRANSACTION_SIZE
    /\ tx.gasLimit.n <= RPC_MAX_GAS_LIMIT
    /\ IF isGaslessTransaction(tx) THEN verifyGaslessTransaction(tx)
       ELSE verifyGasPrice(tx, world.minGasPrice)
    /\ MessageEncodes(tx)
    /\ calcIntrinsicGas(tx.to, tx.data) <= tx.gasLimit.n
    /\ EnoughBalance(tx, world, Sender(tx, signing))
    /\ Addressable(tx.to)
    /\ FitsWidths(tx)

-----------------------------------------------------------------------------
(* The Godwoken transaction                                                *)

\* Mutant: the recipient of a native transfer comes before the data.
buildPolyjuiceArgsSwapped(isCreate, gas, gasPrice, value, data, toAddressWhenNativeTransfer) ==
    [callKind |-> IF isCreate THEN 3 ELSE 0, gasLimit |-> gas, gasPrice |-> gasPrice,
     value |-> value, inputSize |-> Len(data), rest |-> toAddressWhenNativeTransfer \o data]

buildPolyjuiceArgs(isCreate, gas, gasPrice, value, data, toAddressWhenNativeTransfer) ==
    [callKind |-> IF isCreate THEN 3 ELSE 0, gasLimit |-> gas, gasPrice |-> gasPrice,
     value |-> value, inputSize |-> Len(data), rest |-> data \o toAddressWhenNativeTransfer]

\* What polyTxToGwTx returns; the arguments are put together in place.
polyTxToGwTx(tx, world, signing) ==
    LET native == isEthNativeTransfer(world, tx.to)
        from   == ethAddressToAccountId(world, Sender(tx, signing))
    IN [chain_id |-> IF PreEIP155(tx.v.n) /\ tx.v.zeros = 0 THEN 0 ELSE web3ChainId,
        from_id  |-> IF from = {} THEN AUTO_CREATE_ACCOUNT_FROM_ID ELSE The(from),
        to_id    |-> IF native THEN PolyjuiceCreator ELSE tx.to,
        nonce    |-> tx.nonce.n,
        args     |-> [callKind  |-> IF tx.to = DEPLOY_TO_ADDRESS THEN 3 ELSE 0,
                      gasLimit  |-> tx.gasLimit.n,
                      gasPrice  |-> tx.gasPrice.n,
                      value     |-> tx.value.n,
                      inputSize |-> Len(tx.data),
                      rest      |-> tx.data \o (IF native THEN tx.to ELSE <<>>)],
        signature |-> getSignature(tx)]

\* What eth_call and eth_estimateGas run for a call object.
ethCallTxToGodwokenRawTx(call, world) ==
    LET native == isEthNativeTransfer(world, call.to)
        from   == ethAddressToAccountId(world, call.from)
        to_id  == IF native THEN PolyjuiceCreator ELSE The(ethAddressToAccountId(world, call.to))
    IN [chain_id |-> web3ChainId,
        from_id  |-> IF from = {} THEN AUTO_CREATE_ACCOUNT_FROM_ID ELSE The(from),
        to_id    |-> to_id,
        nonce    |-> 0,
        args     |-> buildPolyjuiceArgs(~native /\ to_id = PolyjuiceCreator, call.gas,
                       call.gasPrice, call.value, call.data, IF native THEN call.to ELSE <<>>)]

-----------------------------------------------------------------------------
(* Polyjuice's arguments, read back                                        *)

\* Mutant: whatever follows the data is left alone.
decodePolyjuiceArgsNoRecipient(args) ==
    [isCreate |-> args.callKind = 3, gasLimit |-> args.gasLimit, gasPrice |-> args.gasPrice,
     value |-> args.value,
     input |-> IF args.inputSize <= Len(args.rest) THEN SubSeq(args.rest, 1, args.inputSize) ELSE args.rest,
     toAddressWhenNativeTransfer |-> {}]

\* Buffer.slice clamps, and only a tail of exactly an address is a recipient.
decodePolyjuiceArgs(args) ==
    LET available == IF args.inputSize <= Len(args.rest) THEN args.inputSize ELSE Len(args.rest)
    IN [isCreate |-> args.callKind = 3, gasLimit |-> args.gasLimit, gasPrice |-> args.gasPrice,
        value |-> args.value, input |-> SubSeq(args.rest, 1, available),
        toAddressWhenNativeTransfer |->
          IF Len(args.rest) = args.inputSize + AddressSize
          THEN {SubSeq(args.rest, args.inputSize + 1, Len(args.rest))} ELSE {}]

\* PolyjuiceArgs::decode of the indexer: the sizes it accepts, and its result.
Decodes(args) ==
    /\ args.inputSize <= GW_L2TX_ARGS_MAX_SIZE
    /\ Len(args.rest) \in {args.inputSize, args.inputSize + AddressSize}

PolyjuiceArgs_decode(args) ==
    [isCreate |-> args.callKind = 3, gasLimit |-> args.gasLimit, gasPrice |-> args.gasPrice,
     value |-> args.value, input |-> SubSeq(args.rest, 1, args.inputSize),
     toAddressWhenNativeTransfer |->
       IF Len(args.rest) = args.inputSize THEN {}
       ELSE {SubSeq(args.rest, args.inputSize + 1, args.inputSize + AddressSize)}]

\* The recipient: none for a deployment, the appended address of a native
\* transfer, or the address of the account called.
ToAddress(args, to_id) ==
    IF args.isCreate THEN {}
    ELSE IF args.toAddressWhenNativeTransfer # {} THEN args.toAddressWhenNativeTransfer
    ELSE {to_id}

-----------------------------------------------------------------------------
(* gw_submit_l2transaction                                                 *)

\* The Ethereum transaction it puts together from a Godwoken transaction: a
\* native transfer has no recipient in it, and every signature is taken for one
\* with a chain id.
AsPolyjuiceTransaction(gw) ==
    LET args == decodePolyjuiceArgs(gw.args)
        number(n) == [n |-> n, zeros |-> 0]
    IN [nonce |-> number(gw.nonce), gasPrice |-> number(args.gasPrice),
        gasLimit |-> number(args.gasLimit),
        to |-> IF args.isCreate THEN DEPLOY_TO_ADDRESS ELSE gw.to_id,
        value |-> number(args.value), data |-> args.input,
        v |-> number(gw.chain_id * 2 + 35 + gw.signature[5]),
        r |-> number(Number(SubSeq(gw.signature, 1, 2))),
        s |-> number(Number(SubSeq(gw.signature, 3, 4)))]

\* It passes the transaction on: there are such accounts, and the call of a
\* Polyjuice account passes the checks of eth_sendRawTransaction.
SubmitAccepts(gw, world, signing) ==
    LET tx   == AsPolyjuiceTransaction(gw)
        from == IF gw.from_id = AUTO_CREATE_ACCOUNT_FROM_ID THEN Sender(tx, signing) ELSE gw.from_id
    IN /\ gw.from_id # AUTO_CREATE_ACCOUNT_FROM_ID => world.account[gw.from_id] # "none"
       /\ gw.to_id # PolyjuiceCreator => world.account[gw.to_id] # "none"
       /\ gw.to_id = PolyjuiceCreator \/ world.account[gw.to_id] = "contract" =>
            /\ tx.gasLimit.n <= RPC_MAX_GAS_LIMIT
            /\ calcIntrinsicGas(tx.to, tx.data) <= tx.gasLimit.n
            /\ IF isGaslessTransaction(tx) THEN verifyGaslessTransaction(tx)
               ELSE verifyGasPrice(tx, world.minGasPrice)
            /\ EnoughBalance(tx, world, from)

=============================================================================
