------------------------------- MODULE TxPath -------------------------------
(***************************************************************************)
(* One transaction on its way: a client signs it, eth_sendRawTransaction   *)
(* converts and submits it, the node includes it, the indexer stores it.   *)
(* Or another client submits a Godwoken transaction of its own making      *)
(* (gw_submit_l2transaction).  Accounts may be created on the way.         *)
(***************************************************************************)
EXTENDS TxViews

CONSTANTS
    Draft,      \* what clients sign: the fields, v, r and s, the signer, and
                \* the fields that they encode with a leading zero
    Foreign,    \* Godwoken transactions of other clients
    Receipt,    \* what executing a transaction may leave
    World,      \* accounts, balances and the minimal gas price at the start
    Stranger    \* whom a signature of something else recovers to

\* Drafts are made of numbers and bytes, by signers that are no contracts; other
\* clients' transactions are not from account 0.
ASSUME PathAssumption ==
    /\ Stranger \in Address
    /\ \A d \in Draft :
         /\ {d.nonce, d.gasPrice, d.gasLimit, d.value, d.v, d.r, d.s} \subseteq Nat
         /\ {d.to, d.data} \subseteq Seq(Nat)
         /\ d.signer \in Address
    /\ \A w \in World :
         /\ w \in [account : [Address -> {"none", "eoa", "contract"}],
                   balance : [Address -> Nat], minGasPrice : Nat]
         /\ \A d \in Draft : w.account[d.signer] # "contract"
    /\ \A g \in Foreign :
         /\ g \in [chain_id : Nat, from_id : Address, to_id : Address \cup {PolyjuiceCreator}, nonce : Nat,
                   args : [callKind : Nat, gasLimit : Nat, gasPrice : Nat, value : Nat,
                           inputSize : Nat, rest : Seq(Nat)],
                   signature : Seq(Nat)]
         /\ g.from_id # AUTO_CREATE_ACCOUNT_FROM_ID

VARIABLES
    stage,      \* "idle", "signed", "refused", "submitted", "included",
                \* "indexed", "skipped" or "stuck"
    tx,         \* {} or the signed transaction, as encoded
    signing,    \* {} or what was signed by whom
    world,
    gw,         \* {} or the Godwoken transaction
    call,       \* {} or what eth_call would have run when tx was sent
    receipt,    \* {} or its receipt
    row         \* {} or the row stored

vars == <<stage, tx, signing, world, gw, call, receipt, row>>

Init ==
    /\ stage = "idle" /\ world \in World
    /\ tx = {} /\ signing = {} /\ gw = {} /\ call = {} /\ receipt = {} /\ row = {}

Quantity(d, field) == [n |-> d[field], zeros |-> IF field \in d.padded THEN 1 ELSE 0]

Encoded(d) ==
    [nonce |-> Quantity(d, "nonce"), gasPrice |-> Quantity(d, "gasPrice"),
     gasLimit |-> Quantity(d, "gasLimit"), to |-> d.to, value |-> Quantity(d, "value"),
     data |-> d.data, v |-> Quantity(d, "v"), r |-> Quantity(d, "r"), s |-> Quantity(d, "s")]

\* A wallet signs the fields and encodes them.
Sign ==
    \E d \in Draft :
       /\ stage = "idle" /\ stage' = "signed"
       /\ tx' = {Encoded(d)}
       /\ signing' = {[signer |-> d.signer, stranger |-> Stranger,
                       signature |-> getSignature(Encoded(d)), message |-> calcMessage(Encoded(d))]}
       /\ UNCHANGED <<world, gw, call, receipt, row>>

\* The call object of the same transaction, as a wallet gives it to eth_call.
CallObject(t, s) ==
    [from |-> Sender(t, s), to |-> t.to, gas |-> t.gasLimit.n, gasPrice |-> t.gasPrice.n,
     value |-> t.value.n, data |-> t.data]

\* eth_sendRawTransaction up to submitL2Transaction.
SendRawTransaction ==
    LET t == The(tx)  s == The(signing)
    IN /\ stage = "signed"
       /\ IF Accepts(t, world, s)
          THEN /\ stage' = "submitted"
               /\ gw' = {polyTxToGwTx(t, world, s)}
               /\ call' = {ethCallTxToGodwokenRawTx(CallObject(t, s), world)}
          ELSE stage' = "refused" /\ UNCHANGED <<gw, call>>
       /\ UNCHANGED <<tx, signing, world, receipt, row>>

\* gw_submit_l2transaction: a Godwoken transaction of another client, or one that
\* the client made of his own; the node takes none that is too large.
SubmitL2Transaction ==
    /\ stage' = "submitted"
    /\ \/ /\ stage = "idle"
          /\ \E g \in Foreign : SubmitAccepts(g, world, [signer |-> Stranger]) /\ gw' = {g}
       \/ LET t == The(tx)  s == The(signing)  g == polyTxToGwTx(t, world, s)
          IN /\ stage = "signed"
             /\ MessageEncodes(t) /\ Addressable(t.to) /\ FitsWidths(t)
             /\ EncodedSize(t) <= MAX_TRANSACTION_SIZE
             /\ SubmitAccepts(g, world, s) /\ gw' = {g}
    /\ UNCHANGED <<tx, signing, world, call, receipt, row>>

\* Somebody's deposit or deployment gives an address an account.
CreateAccount ==
    /\ stage = "submitted"
    /\ \E a \in Address \ {ZERO_ETH_ADDRESS, Stranger}, kind \in {"eoa", "contract"} :
         /\ world.account[a] = "none"
         /\ signing # {} /\ a = The(signing).signer => kind = "eoa"
         /\ world' = [world EXCEPT !.account[a] = kind]
    /\ UNCHANGED <<stage, tx, signing, gw, call, receipt, row>>

\* The node executes the transaction. It gives the sender of a transaction
\* from account 0 an account, and the transaction that account's id.
Include ==
    LET g    == The(gw)
        auto == g.from_id = AUTO_CREATE_ACCOUNT_FROM_ID
        from == IF auto THEN Sender(The(tx), The(signing)) ELSE g.from_id
    IN /\ stage = "submitted" /\ stage' = "included"
       /\ gw' = {[g EXCEPT !.from_id = from]}
       /\ world' = IF auto THEN [world EXCEPT !.account[from] = "eoa"] ELSE world
       /\ \E e \in Receipt : receipt' = {e}
       /\ UNCHANGED <<tx, signing, call, row>>

\* The indexer reads the block: a row, no row, or an error.
Index ==
    LET g == The(gw)  e == The(receipt)
    IN /\ stage = "included"
       /\ \/ /\ Indexable(world, g, e)
             /\ stage' = "indexed" /\ row' = {filter_single_transaction(g, e)}
          \/ /\ ~IsEthTransaction(world, g)
             /\ stage' = "skipped" /\ UNCHANGED row
          \/ /\ IsEthTransaction(world, g) /\ ~Indexable(world, g, e)
             /\ stage' = "stuck" /\ UNCHANGED row
       /\ UNCHANGED <<tx, signing, world, gw, call, receipt>>

Next == Sign \/ SendRawTransaction \/ SubmitL2Transaction \/ CreateAccount \/ Include \/ Index

Spec == Init /\ [][Next]_vars

-----------------------------------------------------------------------------

\* No number has leading zeros.
IsCanonical(t) == Canonical(t) = t

\* Signed for no chain or for this one.
ForThisChain(t) == PreEIP155(t.v.n) \/ SignedChain(t.v.n) = web3ChainId

\* A transaction that eth_sendRawTransaction took is never one the indexer
\* cannot decode; its row has the sender that the signature recovers to and the
\* recipient, numbers and data that were signed, whatever accounts were created
\* between sending and inclusion; and eth_tx_hash, which the indexer computes
\* from the row, is the hash that the client was given, if the encoding was
\* canonical and the chain this one
\* (convert-tx.ts:318-534, helper.rs:27-72, types.rs:84-137).
IndexedAsSigned ==
    gw # {} /\ tx # {} =>
      LET t == The(tx)
      IN /\ Decodes(The(gw).args)
         /\ stage # "skipped"
         /\ stage = "indexed" =>
              /\ The(row).from_address = Sender(t, The(signing))
              /\ The(row).to_address = (IF t.to = DEPLOY_TO_ADDRESS THEN {} ELSE {t.to})
              /\ IsCanonical(t) /\ ForThisChain(t) =>
                   compute_eth_tx_hash(The(row)) = calcEthTxHash(t)

\* The answers before and after a transaction is indexed agree, in everything
\* but block, indexes and hash: eth_getTransactionByHash from the node's copy
\* and from the row, for every transaction the indexer stores with a signature
\* of 65 bytes (it stores zeros for any other); from the cached raw transaction,
\* when it was signed for this chain; and the receipts, when there is a system
\* log (filter-web3-tx.ts:33-270, db/types.ts:157-195, convert-tx.ts:187-215).
PendingAsIndexed ==
    stage = "indexed" =>
      LET g    == The(gw)
          view == toApiTransaction(The(row))
      IN /\ Len(g.signature) = 5 => PendingTransaction(view.hash, g) = view
         /\ tx # {} /\ ForThisChain(The(tx)) /\ The(tx).v.zeros = 0 =>
              polyjuiceRawTransactionToApiTransaction(
                The(tx), view.hash, Sender(The(tx), The(signing))) = view
         /\ SystemItem(The(receipt)) # {} =>
              /\ ReceiptParses(The(receipt))
              /\ PendingReceipt(g, The(receipt)) = toApiTransactionReceipt(The(row))

\* Three pieces of code put together, or check, one transaction alike.  What
\* eth_call and eth_estimateGas run for it is what eth_sendRawTransaction submits
\* for it at the same time: the same caller, callee and arguments.  And
\* gw_submit_l2transaction takes what eth_sendRawTransaction submitted, unless it
\* is a native transfer (charged as a deployment) or from account 0 and not
\* signed for this chain (the sender is recovered from another message)
\* (convert-tx.ts:53-110 and 318-534, gw.ts:410-540).
SimulatedAsSent ==
    stage = "submitted" /\ call # {} =>
      LET run == The(call)  sent == The(gw)  t == The(tx)
      IN /\ run.from_id = sent.from_id /\ run.to_id = sent.to_id /\ run.args = sent.args
         /\ /\ sent.to_id = t.to
            /\ sent.from_id = AUTO_CREATE_ACCOUNT_FROM_ID =>
                 ~PreEIP155(t.v.n) /\ SignedChain(t.v.n) = web3ChainId
            => SubmitAccepts(sent, world, The(signing))

=============================================================================
