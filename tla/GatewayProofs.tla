---------------------------- MODULE GatewayProofs ----------------------------
(***************************************************************************)
(* Proofs about a transaction on its way (TxPath), the price oracle        *)
(* (PriceOracle), log filters (LogFilter), a WebSocket connection          *)
(* (Subscriptions) and their composition (Gateway), for every set of       *)
(* drafts, accounts, receipts, answers, logs and filters, and whatever the *)
(* sizes and limits are; and, at the end, about the layout of the messages *)
(* exchanged with a node (MoleculeLayout), for any fields and items.       *)
(***************************************************************************)
EXTENDS Gateway, SequenceTheorems, FiniteSetTheorems, WellFoundedInduction, TLAPS

-----------------------------------------------------------------------------
\* Numbers, signatures and bytes.

\* Leading zeros aside, what is encoded is what was drafted.
Typed(t) ==
    /\ {t.nonce.n, t.gasPrice.n, t.gasLimit.n, t.value.n, t.v.n, t.r.n, t.s.n} \subseteq Nat
    /\ t.to \in Seq(Nat) /\ t.data \in Seq(Nat)

\* What a wallet encodes has the form of a signed transaction.
LEMMA EncodedTyped == ASSUME NEW d \in Draft PROVE Typed(Encoded(d))
BY PathAssumption DEF Typed, Encoded, Quantity

\* The five parts of a signature: two words for r, two for s, and the parity.
LEMMA SignatureParts ==
    ASSUME NEW t, Typed(t)
    PROVE  /\ Len(getSignature(t)) = 5
           /\ Number(SubSeq(getSignature(t), 1, 2)) = t.r.n
           /\ Number(SubSeq(getSignature(t), 3, 4)) = t.s.n
           /\ getSignature(t)[5] = (IF t.v.n % 2 = 0 THEN 1 ELSE 0)
<1>1. t.r.n \in Nat /\ t.s.n \in Nat /\ t.v.n \in Nat  BY DEF Typed
<1>2. /\ Word(t.r.n) \in Seq(Int) /\ Len(Word(t.r.n)) = 2
      /\ Word(t.s.n) \in Seq(Int) /\ Len(Word(t.s.n)) = 2
    BY <1>1 DEF Word
<1> DEFINE bit == IF t.v.n % 2 = 0 THEN 1 ELSE 0
<1>3. << bit >> \in Seq(Int) /\ Len(<< bit >>) = 1  OBVIOUS
<1> QED  BY <1>1, <1>2, <1>3 DEF getSignature, Number, Word

\* A concatenation is taken apart where it was put together.
LEMMA Split ==
    ASSUME NEW a \in Seq(Nat), NEW b \in Seq(Nat)
    PROVE  /\ a \o b \in Seq(Nat) /\ Len(a \o b) = Len(a) + Len(b)
           /\ SubSeq(a \o b, 1, Len(a)) = a
           /\ SubSeq(a \o b, Len(a) + 1, Len(a) + Len(b)) = b
<1> DEFINE c == a \o b
<1>1. /\ c \in Seq(Nat) /\ Len(c) = Len(a) + Len(b)
      /\ \A i \in 1 .. Len(c) : c[i] = (IF i <= Len(a) THEN a[i] ELSE b[i - Len(a)])
    BY ConcatProperties
<1>2. Len(a) \in Nat /\ Len(b) \in Nat /\ \A i \in 1 .. Len(c) : c[i] \in Nat
    BY <1>1
<1>3. SubSeq(c, 1, Len(a)) = a
    <2>1. \A i \in 1 .. Len(a) : c[i] \in Nat /\ c[i] = a[i]  BY <1>1, <1>2
    <2>2. /\ SubSeq(c, 1, Len(a)) \in Seq(Nat) /\ Len(SubSeq(c, 1, Len(a))) = Len(a)
          /\ \A i \in 1 .. Len(a) : SubSeq(c, 1, Len(a))[i] = c[i]
        BY <1>2, <2>1, SubSeqProperties
    <2> QED  BY <2>1, <2>2, SeqEqual
<1>4. SubSeq(c, Len(a) + 1, Len(a) + Len(b)) = b
    <2> DEFINE d == SubSeq(c, Len(a) + 1, Len(a) + Len(b))
    <2>1. \A i \in Len(a) + 1 .. Len(a) + Len(b) : c[i] \in Nat  BY <1>1, <1>2
    <2>2. /\ d \in Seq(Nat) /\ Len(d) = Len(b)
          /\ \A i \in 1 .. Len(b) : d[i] = c[Len(a) + i]
        BY <1>2, <2>1, SubSeqProperties
    <2>3. \A i \in 1 .. Len(b) : c[Len(a) + i] = b[i]  BY <1>1, <1>2
    <2> QED  BY <2>2, <2>3, SeqEqual
<1> QED  BY <1>1, <1>3, <1>4

-----------------------------------------------------------------------------
\* The Godwoken transaction made of an Ethereum transaction, native or not, with
\* the account `from'.

Made(t, native, from) ==
    [chain_id |-> IF PreEIP155(t.v.n) /\ t.v.zeros = 0 THEN 0 ELSE web3ChainId,
     from_id  |-> from,
     to_id    |-> IF native THEN PolyjuiceCreator ELSE t.to,
     nonce    |-> t.nonce.n,
     args     |-> [callKind  |-> IF t.to = DEPLOY_TO_ADDRESS THEN 3 ELSE 0,
                   gasLimit  |-> t.gasLimit.n,
                   gasPrice  |-> t.gasPrice.n,
                   value     |-> t.value.n,
                   inputSize |-> Len(t.data),
                   rest      |-> t.data \o (IF native THEN t.to ELSE <<>>)],
     signature |-> getSignature(t)]

\* Both decoders give back the data and, of a native transfer, the recipient.
Read(t, native) ==
    [isCreate |-> t.to = DEPLOY_TO_ADDRESS, gasLimit |-> t.gasLimit.n, gasPrice |-> t.gasPrice.n,
     value |-> t.value.n, input |-> t.data,
     toAddressWhenNativeTransfer |-> IF native THEN {t.to} ELSE {}]

\* Both decoders of the Polyjuice arguments read what was written, natively
\* or not, and what is not too long the indexer can decode.
LEMMA DecodersRead ==
    ASSUME NEW t, Typed(t), NEW native \in BOOLEAN, NEW from,
           native => Len(t.to) = AddressSize
    PROVE  /\ PolyjuiceArgs_decode(Made(t, native, from).args) = Read(t, native)
           /\ decodePolyjuiceArgs(Made(t, native, from).args) = Read(t, native)
           /\ Len(t.data) <= MAX_TRANSACTION_SIZE => Decodes(Made(t, native, from).args)
<1> DEFINE args == Made(t, native, from).args
           tail == IF native THEN t.to ELSE <<>>
<1>1. t.data \in Seq(Nat) /\ tail \in Seq(Nat) /\ AddressSize \in Nat \ {0}
    BY CodecAssumption DEF Typed
<1>2. /\ Len(t.data) \in Nat /\ Len(tail) = (IF native THEN AddressSize ELSE 0)
      /\ native => tail = t.to
    BY <1>1
<1>0. args.rest = t.data \o tail
    BY DEF Made
<1>3. /\ args.inputSize = Len(t.data)
      /\ args.callKind = (IF t.to = DEPLOY_TO_ADDRESS THEN 3 ELSE 0)
      /\ args.gasLimit = t.gasLimit.n /\ args.gasPrice = t.gasPrice.n /\ args.value = t.value.n
    BY DEF Made
<1> HIDE DEF args, tail
<1>4. /\ Len(args.rest) = Len(t.data) + Len(tail)
      /\ SubSeq(args.rest, 1, Len(t.data)) = t.data
      /\ SubSeq(args.rest, Len(t.data) + 1, Len(t.data) + Len(tail)) = tail
    <2>1. /\ Len(t.data \o tail) = Len(t.data) + Len(tail)
          /\ SubSeq(t.data \o tail, 1, Len(t.data)) = t.data
          /\ SubSeq(t.data \o tail, Len(t.data) + 1, Len(t.data) + Len(tail)) = tail
        BY <1>1, Split
    <2> QED  BY <1>0, <2>1
<1>5. (args.callKind = 3) = (t.to = DEPLOY_TO_ADDRESS)
    BY <1>3
<1>6. args.inputSize \in Nat /\ AddressSize \in Nat \ {0}
    BY <1>1, <1>2, <1>3
<1>7. /\ SubSeq(args.rest, 1, args.inputSize) = t.data
      /\ native => SubSeq(args.rest, args.inputSize + 1, args.inputSize + AddressSize) = t.to
    BY <1>2, <1>3, <1>4
<1>8. /\ native => Len(args.rest) = args.inputSize + AddressSize
      /\ ~native => Len(args.rest) = args.inputSize
    <2>1. CASE native  BY <1>2, <1>3, <1>4, <2>1
    <2>2. CASE ~native  BY <1>2, <1>3, <1>4, <2>2
    <2> QED  BY <2>1, <2>2
<1>9. native <=> Len(args.rest) = args.inputSize + AddressSize
    BY <1>6, <1>8
<1>13. ~native <=> Len(args.rest) = args.inputSize
    BY <1>6, <1>8
<1>10. PolyjuiceArgs_decode(args) = Read(t, native)
    BY <1>3, <1>5, <1>7, <1>13, Zenon DEF PolyjuiceArgs_decode, Read
<1>11. decodePolyjuiceArgs(args) = Read(t, native)
    <2>1. args.inputSize <= Len(args.rest)
        BY <1>6, <1>8
    <2>2. native => SubSeq(args.rest, args.inputSize + 1, Len(args.rest)) = t.to
        BY <1>7, <1>8
    <2> QED  BY <2>1, <2>2, <1>3, <1>5, <1>7, <1>9, Zenon DEF decodePolyjuiceArgs, Read
<1>12. Len(t.data) <= MAX_TRANSACTION_SIZE => Decodes(args)
    <2>1. {MAX_TRANSACTION_SIZE, GW_L2TX_ARGS_MAX_SIZE} \subseteq Nat
          /\ MAX_TRANSACTION_SIZE <= GW_L2TX_ARGS_MAX_SIZE
        BY CodecAssumption
    <2> QED  BY <2>1, <1>3, <1>6, <1>8 DEF Decodes
<1> QED  BY <1>10, <1>11, <1>12 DEF args

-----------------------------------------------------------------------------
\* The row the indexer stores for it.

\* What v says of the chain, and its parity, are v again.
LEMMA ChainRead ==
    ASSUME NEW v \in Nat, NEW c \in Nat, SignedChain(v) = c
    PROVE  v = 2 * c + 35 + (IF v % 2 = 0 THEN 1 ELSE 0)
<1>1. CASE v % 2 = 0
    <2>1. PICK k \in Int : v = 2 * k
        BY <1>1, SMTT(30)
    <2>2. (v - 36) \div 2 = k - 18
        BY <2>1, SMTT(30)
    <2> QED  BY <1>1, <2>1, <2>2 DEF SignedChain
<1>2. CASE v % 2 # 0
    <2>1. PICK k \in Int : v = 2 * k + 1
        BY <1>2, SMTT(30)
    <2>2. (v - 35) \div 2 = k - 17
        BY <2>1, SMTT(30)
    <2> QED  BY <1>2, <2>1, <2>2 DEF SignedChain
<1> QED  BY <1>1, <1>2

\* From the parity and the chain the indexer restores the v that was signed.
LEMMA ParityRestored ==
    ASSUME NEW t, Typed(t), ForThisChain(t), t.v.zeros = 0,
           NEW chain, chain = (IF PreEIP155(t.v.n) /\ t.v.zeros = 0 THEN 0 ELSE web3ChainId)
    PROVE  getSignature(t)[5] + (IF chain = 0 THEN 27 ELSE 35 + chain * 2) = t.v.n
<1>1. t.v.n \in Nat /\ web3ChainId \in Nat \ {0}  BY CodecAssumption DEF Typed
<1>2. getSignature(t)[5] = (IF t.v.n % 2 = 0 THEN 1 ELSE 0)  BY SignatureParts
<1>3. CASE PreEIP155(t.v.n)  BY <1>1, <1>2, <1>3 DEF PreEIP155
<1>4. CASE ~PreEIP155(t.v.n)
    <2>1. chain = web3ChainId /\ SignedChain(t.v.n) = web3ChainId  BY <1>4 DEF ForThisChain
    <2>2. t.v.n = 2 * web3ChainId + 35 + (IF t.v.n % 2 = 0 THEN 1 ELSE 0)
        BY <1>1, <2>1, ChainRead
    <2> QED  BY <1>1, <1>2, <2>1, <2>2
<1> QED  BY <1>3, <1>4

StoredAs(stored, t, from) ==
    /\ stored.from_address = from
    /\ stored.to_address = (IF t.to = DEPLOY_TO_ADDRESS THEN {} ELSE {t.to})
    /\ stored.gas_limit = t.gasLimit.n /\ stored.gas_price = t.gasPrice.n /\ stored.data = t.data
    /\ stored.nonce = t.nonce.n /\ stored.value = t.value.n
    /\ Number(stored.r) = t.r.n /\ Number(stored.s) = t.s.n
    /\ ForThisChain(t) /\ t.v.zeros = 0 => getRealV(stored.v, stored.chain_id) = t.v.n
    /\ IsCanonical(t) /\ ForThisChain(t) => compute_eth_tx_hash(stored) = calcEthTxHash(t)

\* What the indexer stores of a transaction that was made of a signed one.
LEMMA RowOfMade ==
    ASSUME NEW t, Typed(t), NEW native \in BOOLEAN, NEW from, NEW e,
           native => Len(t.to) = AddressSize
    PROVE  StoredAs(filter_single_transaction(Made(t, native, from), e), t, from)
<1> DEFINE g == Made(t, native, from)
           stored == filter_single_transaction(g, e)
           number(n) == [n |-> n, zeros |-> 0]
<1>1. PolyjuiceArgs_decode(g.args) = Read(t, native)  BY DecodersRead
<1>2. /\ g.from_id = from /\ g.nonce = t.nonce.n /\ g.signature = getSignature(t)
      /\ g.to_id = (IF native THEN PolyjuiceCreator ELSE t.to)
      /\ g.chain_id = (IF PreEIP155(t.v.n) /\ t.v.zeros = 0 THEN 0 ELSE web3ChainId)
    BY DEF Made
<1>3. Signature(g) = getSignature(t)  BY <1>2, SignatureParts DEF Signature
<1> HIDE DEF g
<1>4. /\ stored.from_address = from
      /\ stored.to_address = ToAddress(Read(t, native), g.to_id)
      /\ stored.nonce = t.nonce.n /\ stored.gas_price = t.gasPrice.n
      /\ stored.gas_limit = t.gasLimit.n /\ stored.value = t.value.n /\ stored.data = t.data
      /\ stored.chain_id = g.chain_id
      /\ stored.r = SubSeq(getSignature(t), 1, 2) /\ stored.s = SubSeq(getSignature(t), 3, 4)
      /\ stored.v = getSignature(t)[5]
    BY <1>1, <1>2, <1>3 DEF filter_single_transaction, Read
<1>5. stored.to_address = (IF t.to = DEPLOY_TO_ADDRESS THEN {} ELSE {t.to})
    <2>1. CASE native  BY <1>2, <1>4, <2>1 DEF ToAddress, Read
    <2>2. CASE ~native  BY <1>2, <1>4, <2>2 DEF ToAddress, Read
    <2> QED  BY <2>1, <2>2
<1> HIDE DEF stored
<1>7. Number(stored.r) = t.r.n /\ Number(stored.s) = t.s.n
    BY <1>4, SignatureParts
<1>8. ASSUME ForThisChain(t), t.v.zeros = 0 PROVE getRealV(stored.v, stored.chain_id) = t.v.n
    <2>1. stored.v + (IF stored.chain_id = 0 THEN 27 ELSE 35 + stored.chain_id * 2) = t.v.n
        BY <1>2, <1>4, <1>8, ParityRestored
    <2>2. stored.chain_id \in Nat
        BY <1>2, <1>4, CodecAssumption
    <2> QED  BY <2>1, <2>2 DEF getRealV
<1>6. ASSUME IsCanonical(t), ForThisChain(t) PROVE compute_eth_tx_hash(stored) = calcEthTxHash(t)
    <2>1. t = [nonce |-> number(t.nonce.n), gasPrice |-> number(t.gasPrice.n),
               gasLimit |-> number(t.gasLimit.n), to |-> t.to, value |-> number(t.value.n),
               data |-> t.data, v |-> number(t.v.n), r |-> number(t.r.n), s |-> number(t.s.n)]
        BY <1>6 DEF IsCanonical, Canonical
    <2>2. t.v.zeros = 0
        <3>1. t.v = number(t.v.n)  BY <2>1
        <3> QED  BY <3>1
    <2>3. add_chain_replay_protection(stored) = t.v.n
        BY <1>2, <1>4, <1>6, <2>2, ParityRestored DEF add_chain_replay_protection
    <2>4. (IF stored.to_address = {} THEN <<>> ELSE The(stored.to_address)) = t.to
        BY <1>5 DEF The, DEPLOY_TO_ADDRESS
    <2>5. Number(stored.r) = t.r.n /\ Number(stored.s) = t.s.n
        BY <1>4, SignatureParts
    <2>6. to_rlp(stored) =
            [nonce |-> number(t.nonce.n), gasPrice |-> number(t.gasPrice.n),
             gasLimit |-> number(t.gasLimit.n), to |-> t.to, value |-> number(t.value.n),
             data |-> t.data, v |-> number(t.v.n), r |-> number(t.r.n), s |-> number(t.s.n)]
        BY <1>4, <2>3, <2>4, <2>5 DEF to_rlp
    <2> QED  BY <2>1, <2>6 DEF compute_eth_tx_hash, calcEthTxHash
<1> QED  BY <1>4, <1>5, <1>6, <1>7, <1>8 DEF stored, g, StoredAs

-----------------------------------------------------------------------------
\* What is known of a transaction at each stage.

Kinds == {"none", "eoa", "contract"}

WorldOK == world \in [account : [Address -> Kinds], balance : [Address -> Nat], minGasPrice : Nat]

SigningOf(d) ==
    [signer |-> d.signer, stranger |-> Stranger, signature |-> getSignature(Encoded(d)),
     message |-> calcMessage(Encoded(d))]

\* The transaction is one that its signer drafted, and no contract signs.
DraftedBy(d) == tx = {Encoded(d)} /\ signing = {SigningOf(d)} /\ world.account[d.signer] # "contract"

SignedInv ==
    /\ tx # {} => \E d \in Draft : DraftedBy(d)
    /\ stage = "idle" => tx = {} /\ gw = {} /\ \A d \in Draft : world.account[d.signer] # "contract"
    /\ stage = "signed" => tx # {} /\ gw = {}
    /\ tx = {} => signing = {}
    /\ stage \in {"submitted", "included"} => gw # {}

\* The Godwoken transaction is made of it, for the accounts as they were: a
\* contract is still one.
MadeOf(d, native, from) ==
    LET t == Encoded(d)
    IN /\ gw = {Made(t, native, from)}
       /\ IF native THEN Len(t.to) = AddressSize
          ELSE t.to = DEPLOY_TO_ADDRESS \/ (t.to \in Address /\ world.account[t.to] = "contract")
       /\ Len(t.data) <= MAX_TRANSACTION_SIZE
       /\ \/ from = AUTO_CREATE_ACCOUNT_FROM_ID /\ stage = "submitted"
          \/ from = d.signer /\ world.account[from] = "eoa"

MadeInv ==
    gw # {} /\ tx # {} =>
      \E d \in Draft, native \in BOOLEAN : \E from : DraftedBy(d) /\ MadeOf(d, native, from)

\* What is indexed could be parsed, and its row is made of it.
RowInv ==
    /\ stage # "skipped" \/ tx = {} \/ gw = {}
    /\ stage = "indexed" =>
         /\ gw # {} /\ Indexable(world, The(gw), The(receipt))
         /\ row = {filter_single_transaction(The(gw), The(receipt))}

\* A Godwoken transaction, whoever made it.
L2Form(g) ==
    /\ g = [chain_id |-> g.chain_id, from_id |-> g.from_id, to_id |-> g.to_id, nonce |-> g.nonce,
            args |-> g.args, signature |-> g.signature]
    /\ g.args.inputSize \in Nat
FormInv == \A g \in gw : L2Form(g)

\* What was accepted is still acceptable, and eth_call would have run the same.
CallInv ==
    /\ stage \in {"idle", "signed"} => call = {}
    /\ stage = "submitted" /\ call # {} =>
         /\ Accepts(The(tx), world, The(signing)) /\ tx # {}
         /\ The(call).from_id = The(gw).from_id /\ The(call).to_id = The(gw).to_id
         /\ The(call).args = The(gw).args

PathInv == WorldOK /\ SignedInv /\ FormInv /\ MadeInv /\ RowInv

\* The one element of a set that has one.
LEMMA TheOnly == \A x : The({x}) = x
BY DEF The

\* A drafted transaction recovers to its signer.
LEMMA SenderIsSigner ==
    ASSUME NEW d \in Draft
    PROVE  Sender(Encoded(d), SigningOf(d)) = d.signer
BY DEF Sender, SigningOf, Recover

\* The conversion, in a world where the signer is no contract.
LEMMA ConversionOf ==
    ASSUME WorldOK, NEW d \in Draft, world.account[d.signer] # "contract",
           Addressable(Encoded(d).to)
    PROVE  LET t == Encoded(d)
               native == isEthNativeTransfer(world, t.to)
           IN /\ native \in BOOLEAN
              /\ IF native THEN Len(t.to) = AddressSize
                 ELSE t.to = DEPLOY_TO_ADDRESS \/ (t.to \in Address /\ world.account[t.to] = "contract")
              /\ \E from : /\ polyTxToGwTx(t, world, SigningOf(d)) = Made(t, native, from)
                           /\ ethAddressToAccountId(world, d.signer) =
                                (IF world.account[d.signer] = "none" THEN {} ELSE {d.signer})
                           /\ from = (IF world.account[d.signer] = "none"
                                      THEN AUTO_CREATE_ACCOUNT_FROM_ID ELSE d.signer)
<1> DEFINE t == Encoded(d)
           native == isEthNativeTransfer(world, t.to)
           account == ethAddressToAccountId(world, Sender(t, SigningOf(d)))
           from == IF account = {} THEN AUTO_CREATE_ACCOUNT_FROM_ID ELSE The(account)
<1>1. native \in BOOLEAN /\ (native => Len(t.to) = AddressSize)
    BY DEF isEthNativeTransfer
<1>2. ~native => t.to = DEPLOY_TO_ADDRESS \/ (t.to \in Address /\ world.account[t.to] = "contract")
    BY CodecAssumption DEF isEthNativeTransfer, Addressable, PolyjuiceCreator, DEPLOY_TO_ADDRESS
<1>3. polyTxToGwTx(t, world, SigningOf(d)) = Made(t, native, from)
    BY DEF polyTxToGwTx, Made
<1>4. d.signer \in Address /\ d.signer # PolyjuiceCreator
    BY PathAssumption, CodecAssumption DEF PolyjuiceCreator
<1>5. account = (IF world.account[d.signer] = "none" THEN {} ELSE {d.signer})
    BY <1>4, SenderIsSigner DEF ethAddressToAccountId
<1>6. from = (IF world.account[d.signer] = "none" THEN AUTO_CREATE_ACCOUNT_FROM_ID ELSE d.signer)
    BY <1>5, TheOnly
<1>7. account = ethAddressToAccountId(world, d.signer)
    BY SenderIsSigner
<1> HIDE DEF from, account, native, t
<1> QED  BY <1>1, <1>2, <1>3, <1>5, <1>6, <1>7 DEF t, native

\* The conversion gives a transaction of the form every client's has.
LEMMA ConvertedForm ==
    ASSUME NEW d \in Draft, NEW w, NEW s
    PROVE  L2Form(polyTxToGwTx(Encoded(d), w, s))
<1>1. PICK g : g = polyTxToGwTx(Encoded(d), w, s)
    OBVIOUS
<1>2. Encoded(d).data \in Seq(Nat)
    BY EncodedTyped DEF Typed
<1>3. g.args.inputSize = Len(Encoded(d).data)
    BY <1>1 DEF polyTxToGwTx
<1>4. g = [chain_id |-> g.chain_id, from_id |-> g.from_id, to_id |-> g.to_id, nonce |-> g.nonce,
           args |-> g.args, signature |-> g.signature]
    BY <1>1 DEF polyTxToGwTx
<1>5. Len(Encoded(d).data) \in Nat
    BY <1>2, LenProperties
<1> QED  BY <1>1, <1>3, <1>4, <1>5 DEF L2Form

\* What the conversion leaves holds until the next step.
LEMMA AcceptedMade ==
    ASSUME PathInv, stage = "signed", Addressable(The(tx).to),
           Len(The(tx).data) <= MAX_TRANSACTION_SIZE,
           gw' = {polyTxToGwTx(The(tx), world, The(signing))},
           stage' = "submitted", UNCHANGED <<tx, signing, world>>
    PROVE  MadeInv' /\ FormInv'
<1>1. PICK d \in Draft : DraftedBy(d)
    BY DEF PathInv, SignedInv
<1>2. The(tx) = Encoded(d) /\ The(signing) = SigningOf(d) /\ world.account[d.signer] # "contract"
    BY <1>1, TheOnly DEF DraftedBy
<1> DEFINE t == Encoded(d)
<1>3. PICK native \in BOOLEAN, from \in {AUTO_CREATE_ACCOUNT_FROM_ID, d.signer} :
         /\ polyTxToGwTx(t, world, SigningOf(d)) = Made(t, native, from)
         /\ from = (IF world.account[d.signer] = "none"
                    THEN AUTO_CREATE_ACCOUNT_FROM_ID ELSE d.signer)
         /\ IF native THEN Len(t.to) = AddressSize
            ELSE t.to = DEPLOY_TO_ADDRESS \/ (t.to \in Address /\ world.account[t.to] = "contract")
    BY <1>2, ConversionOf DEF PathInv
<1>4. \/ from = AUTO_CREATE_ACCOUNT_FROM_ID
      \/ from = d.signer /\ world.account[from] = "eoa"
    <2>1. d.signer \in Address  BY PathAssumption
    <2>2. world.account[d.signer] \in Kinds  BY <2>1 DEF PathInv, WorldOK
    <2> QED  BY <1>2, <1>3, <2>2 DEF Kinds
<1>5. MadeOf(d, native, from)'
    BY <1>2, <1>3, <1>4 DEF MadeOf
<1>6. DraftedBy(d)'
    BY <1>1 DEF DraftedBy
<1>7. MadeInv'
    BY <1>5, <1>6 DEF MadeInv
<1>8. FormInv'
    BY <1>2, ConvertedForm DEF FormInv
<1> QED  BY <1>7, <1>8

\* What the client signed is converted to what eth_call would run.
LEMMA SimulationOf ==
    ASSUME WorldOK, NEW d \in Draft, world.account[d.signer] # "contract",
           Addressable(Encoded(d).to)
    PROVE  LET t == Encoded(d)  s == SigningOf(d)
               run == ethCallTxToGodwokenRawTx(CallObject(t, s), world)
               sent == polyTxToGwTx(t, world, s)
           IN run.from_id = sent.from_id /\ run.to_id = sent.to_id /\ run.args = sent.args
<1> DEFINE t == Encoded(d)
           s == SigningOf(d)
           native == isEthNativeTransfer(world, t.to)
           run == ethCallTxToGodwokenRawTx(CallObject(t, s), world)
           sent == polyTxToGwTx(t, world, s)
           to_id == IF native THEN PolyjuiceCreator ELSE The(ethAddressToAccountId(world, t.to))
           create == ~native /\ to_id = PolyjuiceCreator
<1>1. /\ CallObject(t, s).to = t.to /\ CallObject(t, s).from = Sender(t, s)
      /\ CallObject(t, s).gas = t.gasLimit.n /\ CallObject(t, s).gasPrice = t.gasPrice.n
      /\ CallObject(t, s).value = t.value.n /\ CallObject(t, s).data = t.data
    BY DEF CallObject
<1>2. run.from_id = sent.from_id
    BY <1>1 DEF ethCallTxToGodwokenRawTx, polyTxToGwTx
<1>3. /\ run.to_id = to_id
      /\ run.args = buildPolyjuiceArgs(create, t.gasLimit.n, t.gasPrice.n, t.value.n, t.data,
                                       IF native THEN t.to ELSE <<>>)
    BY <1>1 DEF ethCallTxToGodwokenRawTx
<1>4. to_id = (IF native THEN PolyjuiceCreator ELSE t.to) /\ (create <=> t.to = DEPLOY_TO_ADDRESS)
    <2>1. native => Len(t.to) = AddressSize  BY DEF isEthNativeTransfer
    <2>2. AddressSize \in Nat \ {0}  BY CodecAssumption
    <2>3. native => t.to # DEPLOY_TO_ADDRESS  BY <2>1, <2>2 DEF DEPLOY_TO_ADDRESS
    <2>4. ~native => t.to = PolyjuiceCreator \/ world.account[t.to] = "contract"
        BY ConversionOf DEF DEPLOY_TO_ADDRESS, PolyjuiceCreator
    <2>5. ~native => ethAddressToAccountId(world, t.to) = {t.to}
        BY <2>4 DEF ethAddressToAccountId
    <2>6. ~native => to_id = t.to  BY <2>5, TheOnly
    <2> QED  BY <2>3, <2>6 DEF DEPLOY_TO_ADDRESS, PolyjuiceCreator
<1>5. /\ sent.to_id = (IF native THEN PolyjuiceCreator ELSE t.to)
      /\ sent.args = [callKind  |-> IF t.to = DEPLOY_TO_ADDRESS THEN 3 ELSE 0,
                      gasLimit  |-> t.gasLimit.n, gasPrice  |-> t.gasPrice.n,
                      value     |-> t.value.n, inputSize |-> Len(t.data),
                      rest      |-> t.data \o (IF native THEN t.to ELSE <<>>)]
    BY DEF polyTxToGwTx
<1>6. (IF create THEN 3 ELSE 0) = (IF t.to = DEPLOY_TO_ADDRESS THEN 3 ELSE 0)
    BY <1>4
<1> HIDE DEF run, sent, native, to_id, create, t, s
<1>7. run.args = sent.args
    BY <1>3, <1>5, <1>6 DEF buildPolyjuiceArgs
<1> QED  BY <1>2, <1>3, <1>4, <1>5, <1>7 DEF run, sent, t, s

-----------------------------------------------------------------------------
\* Each step of the transaction's way keeps the invariant.

LEMMA PathInit == Init => PathInv /\ CallInv
<1> SUFFICES ASSUME Init PROVE PathInv /\ CallInv
    OBVIOUS
<1>1. WorldOK
    <2>1. world \in World  BY DEF Init
    <2> QED  BY <2>1, PathAssumption DEF WorldOK, Kinds
<1>2. SignedInv
    BY PathAssumption DEF Init, SignedInv
<1>3. FormInv /\ MadeInv /\ RowInv /\ CallInv
    BY DEF Init, FormInv, MadeInv, RowInv, CallInv
<1> QED  BY <1>1, <1>2, <1>3 DEF PathInv

\* A transaction's way but for who has an account by now.
LEMMA MadeStays ==
    ASSUME MadeInv, UNCHANGED <<gw, tx, signing, world>>, stage' = stage \/ stage = "included"
    PROVE  MadeInv'
<1> SUFFICES ASSUME gw # {}, tx # {}
             PROVE  \E d \in Draft, native \in BOOLEAN : \E from :
                       DraftedBy(d)' /\ MadeOf(d, native, from)'
    BY DEF MadeInv
<1>1. PICK d \in Draft, native \in BOOLEAN : \E from : DraftedBy(d) /\ MadeOf(d, native, from)
    BY DEF MadeInv
<1>2. PICK from : DraftedBy(d) /\ MadeOf(d, native, from)
    BY <1>1
<1>3. DraftedBy(d)'
    BY <1>2 DEF DraftedBy
<1>4. MadeOf(d, native, from)'
    BY <1>2 DEF MadeOf
<1> QED  BY <1>3, <1>4

LEMMA PathSign == PathInv /\ Sign => PathInv'
<1> SUFFICES ASSUME PathInv, Sign PROVE PathInv'
    OBVIOUS
<1> USE DEF PathInv
<1>1. PICK d \in Draft :
         /\ tx' = {Encoded(d)} /\ signing' = {SigningOf(d)}
    BY DEF Sign, SigningOf
<1>2. /\ stage = "idle" /\ stage' = "signed" /\ UNCHANGED <<world, gw, call, receipt, row>>
      /\ gw = {} /\ world.account[d.signer] # "contract"
    BY DEF Sign, SignedInv
<1>3. WorldOK'  BY <1>2 DEF WorldOK
<1>4. SignedInv'
    <2>1. DraftedBy(d)'  BY <1>1, <1>2 DEF DraftedBy
    <2> QED  BY <1>1, <1>2, <2>1 DEF SignedInv
<1>5. FormInv' /\ MadeInv' /\ RowInv'  BY <1>2 DEF FormInv, MadeInv, RowInv
<1> QED  BY <1>3, <1>4, <1>5

LEMMA PathSend == PathInv /\ SendRawTransaction => PathInv'
<1> SUFFICES ASSUME PathInv, SendRawTransaction PROVE PathInv'
    OBVIOUS
<1>1. /\ stage = "signed" /\ stage' \in {"submitted", "refused"} /\ tx # {} /\ gw = {}
      /\ UNCHANGED <<tx, signing, world, receipt, row>>
    BY DEF SendRawTransaction, PathInv, SignedInv
<1>2. WorldOK'  BY <1>1 DEF PathInv, WorldOK
<1>3. CASE Accepts(The(tx), world, The(signing))
    <2>1. stage' = "submitted" /\ gw' = {polyTxToGwTx(The(tx), world, The(signing))}
        BY <1>3 DEF SendRawTransaction
    <2>2. Addressable(The(tx).to) /\ Len(The(tx).data) <= MAX_TRANSACTION_SIZE
        BY <1>3 DEF Accepts, EncodedSize
    <2>3. MadeInv' /\ FormInv'  BY <1>1, <2>1, <2>2, AcceptedMade
    <2>4. SignedInv'  BY <1>1, <2>1 DEF PathInv, SignedInv, DraftedBy
    <2>5. RowInv'  BY <2>1 DEF RowInv
    <2> QED  BY <1>2, <2>3, <2>4, <2>5 DEF PathInv
<1>4. CASE ~Accepts(The(tx), world, The(signing))
    <2>1. stage' = "refused" /\ gw' = gw
        BY <1>4 DEF SendRawTransaction
    <2> QED  BY <1>1, <1>2, <2>1 DEF PathInv, SignedInv, FormInv, MadeInv, RowInv, DraftedBy
<1> QED  BY <1>3, <1>4

LEMMA PathSubmit == PathInv /\ SubmitL2Transaction => PathInv'
<1> SUFFICES ASSUME PathInv, SubmitL2Transaction PROVE PathInv'
    OBVIOUS
<1>1. /\ stage' = "submitted" /\ gw' # {}
      /\ UNCHANGED <<tx, signing, world, call, receipt, row>>
    BY DEF SubmitL2Transaction
<1>2. WorldOK' /\ RowInv'  BY <1>1 DEF PathInv, WorldOK, RowInv
<1>3. SignedInv'  BY <1>1 DEF PathInv, SignedInv, DraftedBy
<1>4. MadeInv' /\ FormInv'
    <2>1. CASE stage = "idle"
        <3>1. tx' = {} /\ \E g \in Foreign : gw' = {g}
            BY <1>1, <2>1 DEF PathInv, SignedInv, SubmitL2Transaction
        <3>2. \A g \in Foreign : L2Form(g)
            BY PathAssumption DEF L2Form
        <3> QED  BY <3>1, <3>2 DEF MadeInv, FormInv
    <2>2. CASE stage # "idle"
        <3>1. /\ stage = "signed" /\ gw' = {polyTxToGwTx(The(tx), world, The(signing))}
              /\ Addressable(The(tx).to) /\ Len(The(tx).data) <= MAX_TRANSACTION_SIZE
            BY <2>2 DEF SubmitL2Transaction, EncodedSize
        <3> QED  BY <1>1, <3>1, AcceptedMade
    <2> QED  BY <2>1, <2>2
<1> QED  BY <1>2, <1>3, <1>4 DEF PathInv

LEMMA PathCreate == PathInv /\ CreateAccount => PathInv'
<1> SUFFICES ASSUME PathInv, CreateAccount PROVE PathInv'
    OBVIOUS
<1>1. PICK a \in Address, kind \in {"eoa", "contract"} :
         /\ world.account[a] = "none"
         /\ signing # {} /\ a = The(signing).signer => kind = "eoa"
         /\ world' = [world EXCEPT !.account[a] = kind]
    BY DEF CreateAccount
<1>2. stage = "submitted" /\ UNCHANGED <<stage, tx, signing, gw, call, receipt, row>>
    BY DEF CreateAccount
<1>3. /\ WorldOK'
      /\ \A b \in Address : world'.account[b] = (IF b = a THEN kind ELSE world.account[b])
    BY <1>1 DEF PathInv, WorldOK, Kinds
<1>4. ASSUME NEW d \in Draft, DraftedBy(d) PROVE DraftedBy(d)'
    <2>1. The(signing).signer = d.signer /\ signing # {}
        <3>1. The(signing) = SigningOf(d) /\ signing # {}
            BY <1>4, TheOnly DEF DraftedBy
        <3>2. SigningOf(d).signer = d.signer
            BY DEF SigningOf
        <3> QED  BY <3>1, <3>2
    <2>2. d.signer \in Address  BY PathAssumption
    <2> QED  BY <1>1, <1>2, <1>3, <1>4, <2>1, <2>2 DEF DraftedBy
<1>5. SignedInv'  BY <1>2, <1>4 DEF PathInv, SignedInv
<1>6. MadeInv'
    <2> SUFFICES ASSUME gw # {}, tx # {}
                 PROVE  \E d \in Draft, native \in BOOLEAN : \E from :
                           DraftedBy(d)' /\ MadeOf(d, native, from)'
        BY <1>2 DEF MadeInv
    <2>1. PICK d \in Draft, native \in BOOLEAN : \E from : DraftedBy(d) /\ MadeOf(d, native, from)
        BY DEF PathInv, MadeInv
    <2>2. PICK from : DraftedBy(d) /\ MadeOf(d, native, from)
        BY <2>1
    <2>3. d.signer \in Address  BY PathAssumption
    <2>4. MadeOf(d, native, from)'
        <3>1. \A b \in Address : world.account[b] # "none" => world'.account[b] = world.account[b]
            BY <1>1, <1>3
        <3> DEFINE to == Encoded(d).to
        <3>2. (to \in Address /\ world.account[to] = "contract") =>
                 (to \in Address /\ world'.account[to] = "contract")
            BY <3>1
        <3>3. (from = d.signer /\ world.account[from] = "eoa") =>
                 (from = d.signer /\ world'.account[from] = "eoa")
            BY <2>3, <3>1
        <3> QED  BY <1>2, <2>2, <3>2, <3>3 DEF MadeOf
    <2>5. DraftedBy(d)'
        BY <1>4, <2>2
    <2> QED  BY <2>4, <2>5
<1>7. RowInv' /\ FormInv'  BY <1>2 DEF PathInv, FormInv, RowInv
<1> QED  BY <1>3, <1>5, <1>6, <1>7 DEF PathInv

\* Include gives a transaction the account of its sender.
LEMMA MadeFrom ==
    ASSUME NEW t, NEW native, NEW from, NEW to
    PROVE  [Made(t, native, from) EXCEPT !.from_id = to] = Made(t, native, to)
<1> DEFINE chain == IF PreEIP155(t.v.n) /\ t.v.zeros = 0 THEN 0 ELSE web3ChainId
           callee == IF native THEN PolyjuiceCreator ELSE t.to
           args == [callKind  |-> IF t.to = DEPLOY_TO_ADDRESS THEN 3 ELSE 0,
                    gasLimit  |-> t.gasLimit.n, gasPrice  |-> t.gasPrice.n,
                    value     |-> t.value.n, inputSize |-> Len(t.data),
                    rest      |-> t.data \o (IF native THEN t.to ELSE <<>>)]
           made(f) == [chain_id |-> chain, from_id |-> f, to_id |-> callee, nonce |-> t.nonce.n,
                       args |-> args, signature |-> getSignature(t)]
<1>1. Made(t, native, from) = made(from) /\ Made(t, native, to) = made(to)
    BY DEF Made
<1> HIDE DEF chain, callee, args
<1>2. [made(from) EXCEPT !.from_id = to] = made(to)
    OBVIOUS
<1> QED  BY <1>1, <1>2, Zenon

LEMMA PathInclude == PathInv /\ Include => PathInv'
<1> SUFFICES ASSUME PathInv, Include PROVE PathInv'
    OBVIOUS
<1> DEFINE auto == The(gw).from_id = AUTO_CREATE_ACCOUNT_FROM_ID
           from == IF auto THEN Sender(The(tx), The(signing)) ELSE The(gw).from_id
<1>1. /\ stage = "submitted" /\ stage' = "included" /\ gw # {}
      /\ gw' = {[The(gw) EXCEPT !.from_id = from]}
      /\ world' = IF auto THEN [world EXCEPT !.account[from] = "eoa"] ELSE world
      /\ UNCHANGED <<tx, signing, call, row>>
    BY DEF Include, PathInv, SignedInv
<1> HIDE DEF auto, from
<1>2. WorldOK'
    <2>1. CASE auto  BY <1>1, <2>1 DEF PathInv, WorldOK, Kinds
    <2>2. CASE ~auto  BY <1>1, <2>2 DEF PathInv, WorldOK
    <2> QED  BY <2>1, <2>2
<1>3. \A b \in Address : world'.account[b] = (IF auto /\ b = from THEN "eoa" ELSE world.account[b])
    <2>1. CASE auto  BY <1>1, <2>1 DEF PathInv, WorldOK, Kinds
    <2>2. CASE ~auto  BY <1>1, <2>2
    <2> QED  BY <2>1, <2>2
<1>4. ASSUME NEW d \in Draft, DraftedBy(d) PROVE DraftedBy(d)'
    <2>1. d.signer \in Address  BY PathAssumption
    <2>2. world'.account[d.signer] # "contract"  BY <1>3, <1>4, <2>1 DEF DraftedBy
    <2> QED  BY <1>1, <1>4, <2>2 DEF DraftedBy
<1>5. SignedInv'  BY <1>1, <1>4 DEF PathInv, SignedInv
<1>6. MadeInv'
    <2> SUFFICES ASSUME tx # {}
                 PROVE  \E d \in Draft, native \in BOOLEAN : \E f :
                           DraftedBy(d)' /\ MadeOf(d, native, f)'
        BY <1>1 DEF MadeInv
    <2>1. PICK d \in Draft, native \in BOOLEAN : \E f : DraftedBy(d) /\ MadeOf(d, native, f)
        BY <1>1 DEF PathInv, MadeInv
    <2>2. PICK f : DraftedBy(d) /\ MadeOf(d, native, f)
        BY <2>1
    <2> DEFINE t == Encoded(d)
    <2>3. The(gw) = Made(t, native, f) /\ The(tx) = t /\ The(signing) = SigningOf(d)
        BY <2>2, TheOnly DEF MadeOf, DraftedBy
    <2>4. The(gw).from_id = f
        BY <2>3 DEF Made
    <2>5. Sender(The(tx), The(signing)) = d.signer
        BY <2>3, SenderIsSigner
    <2>6. from = d.signer
        <3>1. auto => from = d.signer  BY <2>5 DEF from
        <3>2. ~auto => from = f /\ f # AUTO_CREATE_ACCOUNT_FROM_ID  BY <2>4 DEF from, auto
        <3> QED  BY <2>2, <3>1, <3>2 DEF MadeOf
    <2>7. gw' = {Made(t, native, d.signer)}
        <3>1. [Made(t, native, f) EXCEPT !.from_id = d.signer] = Made(t, native, d.signer)
            BY MadeFrom
        <3>2. gw' = {[Made(t, native, f) EXCEPT !.from_id = d.signer]}
            BY <1>1, <2>3, <2>6, Zenon
        <3> QED  BY <3>1, <3>2, Zenon
    <2>8. d.signer \in Address /\ world'.account[d.signer] = "eoa"
        <3>1. d.signer \in Address  BY PathAssumption
        <3>2. CASE auto  BY <1>3, <2>6, <3>1, <3>2
        <3>3. CASE ~auto
            <4>1. f = d.signer /\ world.account[f] = "eoa"
                BY <2>2, <2>4, <3>3 DEF MadeOf, auto
            <4> QED  BY <1>3, <3>1, <3>3, <4>1
        <3> QED  BY <3>1, <3>2, <3>3
    <2>9. IF native THEN Len(t.to) = AddressSize
          ELSE t.to = DEPLOY_TO_ADDRESS \/ (t.to \in Address /\ world'.account[t.to] = "contract")
        <3>1. world.account[d.signer] # "contract"  BY <2>2 DEF DraftedBy
        <3>2. (t.to \in Address /\ world.account[t.to] = "contract") => world'.account[t.to] = "contract"
            BY <1>3, <2>6, <3>1
        <3> QED  BY <2>2, <3>2 DEF MadeOf
    <2>10. Len(t.data) <= MAX_TRANSACTION_SIZE
        BY <2>2 DEF MadeOf
    <2> HIDE DEF t
    <2>11. MadeOf(d, native, d.signer)'
        BY <2>7, <2>8, <2>9, <2>10 DEF MadeOf, t
    <2>12. DraftedBy(d)'
        BY <1>4, <2>2
    <2> QED  BY <2>11, <2>12
<1>7. RowInv'  BY <1>1 DEF RowInv
<1>8. FormInv'
    <2>1. PICK g : g \in gw /\ g = The(gw)
        BY <1>1 DEF The
    <2>2. L2Form(g)
        BY <2>1 DEF PathInv, FormInv
    <2>3. PICK h : h = [g EXCEPT !.from_id = from]
        OBVIOUS
    <2>4. L2Form(h)
        BY <2>2, <2>3 DEF L2Form
    <2>5. gw' = {h}
        BY <1>1, <2>1, <2>3
    <2> QED  BY <2>4, <2>5 DEF FormInv
<1> QED  BY <1>2, <1>5, <1>6, <1>7, <1>8 DEF PathInv

LEMMA PathIndex == PathInv /\ Index => PathInv'
<1> SUFFICES ASSUME PathInv, Index PROVE PathInv'
    OBVIOUS
<1>1. /\ stage = "included" /\ stage' \in {"indexed", "skipped", "stuck"}
      /\ UNCHANGED <<tx, signing, world, gw, call, receipt>>
    BY DEF Index
<1>2. WorldOK' /\ SignedInv' /\ FormInv'
    BY <1>1 DEF PathInv, WorldOK, SignedInv, FormInv, DraftedBy
<1>3. MadeInv'
    BY <1>1, MadeStays DEF PathInv
<1>4. RowInv'
    <2>1. stage' = "indexed" =>
            /\ gw # {} /\ Indexable(world, The(gw), The(receipt))
            /\ row' = {filter_single_transaction(The(gw), The(receipt))}
        BY DEF Index, PathInv, SignedInv
    <2>2. ASSUME gw # {}, tx # {}, stage' = "skipped" PROVE FALSE
        <3>1. PICK d \in Draft, native \in BOOLEAN : \E from : DraftedBy(d) /\ MadeOf(d, native, from)
            BY <2>2 DEF PathInv, MadeInv
        <3>2. PICK from : MadeOf(d, native, from)
            BY <3>1
        <3>3. The(gw) = Made(Encoded(d), native, from)
            BY <3>2, TheOnly DEF MadeOf
        <3>4. /\ The(gw).from_id = from
              /\ The(gw).to_id = (IF native THEN PolyjuiceCreator ELSE Encoded(d).to)
            BY <3>3 DEF Made
        <3>5. from \in Address /\ world.account[from] = "eoa"
            BY <1>1, <3>2, PathAssumption DEF MadeOf
        <3>6. ~native => \/ Encoded(d).to = PolyjuiceCreator
                         \/ Encoded(d).to \in Address /\ world.account[Encoded(d).to] = "contract"
            BY <3>2 DEF MadeOf, DEPLOY_TO_ADDRESS, PolyjuiceCreator
        <3>7. IsEthTransaction(world, The(gw))
            <4>1. CASE native  BY <3>4, <3>5, <4>1 DEF IsEthTransaction
            <4>2. CASE ~native  BY <3>4, <3>5, <3>6, <4>2 DEF IsEthTransaction
            <4> QED  BY <4>1, <4>2
        <3>8. ~IsEthTransaction(world, The(gw))
            BY <2>2 DEF Index
        <3> QED  BY <3>7, <3>8
    <2> QED  BY <1>1, <2>1, <2>2 DEF RowInv
<1> QED  BY <1>2, <1>3, <1>4 DEF PathInv

LEMMA PathRests == PathInv /\ UNCHANGED vars => PathInv'
<1> SUFFICES ASSUME PathInv, UNCHANGED vars PROVE PathInv'
    OBVIOUS
<1>1. UNCHANGED <<stage, tx, signing, world, gw, receipt, row>>  BY DEF vars
<1>2. MadeInv'  BY <1>1, MadeStays DEF PathInv
<1> QED  BY <1>1, <1>2 DEF PathInv, WorldOK, SignedInv, FormInv, DraftedBy, RowInv

LEMMA PathNext == PathInv /\ [Next]_vars => PathInv'
BY PathSign, PathSend, PathSubmit, PathCreate, PathInclude, PathIndex, PathRests DEF Next

LEMMA SignedIndexed == PathInv => IndexedAsSigned
<1> SUFFICES ASSUME PathInv, gw # {}, tx # {}
             PROVE  LET t == The(tx)
                    IN /\ Decodes(The(gw).args)
                       /\ stage # "skipped"
                       /\ stage = "indexed" =>
                            /\ The(row).from_address = Sender(t, The(signing))
                            /\ The(row).to_address = (IF t.to = DEPLOY_TO_ADDRESS THEN {} ELSE {t.to})
                            /\ IsCanonical(t) /\ ForThisChain(t) =>
                                 compute_eth_tx_hash(The(row)) = calcEthTxHash(t)
    BY DEF IndexedAsSigned
<1>1. PICK d \in Draft, native \in BOOLEAN : \E from : DraftedBy(d) /\ MadeOf(d, native, from)
    BY DEF PathInv, MadeInv
<1>2. PICK from : DraftedBy(d) /\ MadeOf(d, native, from)
    BY <1>1
<1> DEFINE t == Encoded(d)
<1>3. The(gw) = Made(t, native, from) /\ The(tx) = t /\ The(signing) = SigningOf(d)
    BY <1>2, TheOnly DEF MadeOf, DraftedBy
<1>4. Typed(t) /\ (native => Len(t.to) = AddressSize) /\ Len(t.data) <= MAX_TRANSACTION_SIZE
    BY <1>2, EncodedTyped DEF MadeOf
<1>5. Sender(t, SigningOf(d)) = d.signer
    BY SenderIsSigner
<1> HIDE DEF t
<1>6. Decodes(The(gw).args)
    BY <1>3, <1>4, DecodersRead
<1>7. stage # "skipped"
    BY DEF PathInv, RowInv
<1>8. ASSUME stage = "indexed" PROVE StoredAs(The(row), t, d.signer)
    <2>1. row = {filter_single_transaction(The(gw), The(receipt))}
        BY <1>8 DEF PathInv, RowInv
    <2>2. The(row) = filter_single_transaction(Made(t, native, from), The(receipt))
        BY <1>3, <2>1, TheOnly
    <2>3. from = d.signer
        BY <1>2, <1>8 DEF MadeOf
    <2>4. StoredAs(filter_single_transaction(Made(t, native, from), The(receipt)), t, from)
        BY <1>4, RowOfMade
    <2> QED  BY <2>2, <2>3, <2>4
<1>9. /\ Sender(The(tx), The(signing)) = d.signer
      /\ Decodes(The(gw).args) /\ stage # "skipped"
    BY <1>3, <1>5, <1>6, <1>7
<1>10. stage = "indexed" =>
         /\ The(row).from_address = d.signer
         /\ The(row).to_address = (IF The(tx).to = DEPLOY_TO_ADDRESS THEN {} ELSE {The(tx).to})
         /\ IsCanonical(The(tx)) /\ ForThisChain(The(tx)) =>
              compute_eth_tx_hash(The(row)) = calcEthTxHash(The(tx))
    BY <1>3, <1>8 DEF StoredAs
<1> QED  BY <1>9, <1>10, Zenon

-----------------------------------------------------------------------------
\* The answers before and after indexing.

\* Of arguments that the indexer decodes, the API reads the same.
LEMMA DecodersAgree ==
    ASSUME NEW args, Decodes(args), args.inputSize \in Nat
    PROVE  decodePolyjuiceArgs(args) = PolyjuiceArgs_decode(args)
<1>1. AddressSize \in Nat \ {0} /\ Len(args.rest) \in {args.inputSize, args.inputSize + AddressSize}
    BY CodecAssumption DEF Decodes
<1> DEFINE recipient == IF Len(args.rest) = args.inputSize THEN {}
                        ELSE {SubSeq(args.rest, args.inputSize + 1, args.inputSize + AddressSize)}
           available == IF args.inputSize <= Len(args.rest) THEN args.inputSize ELSE Len(args.rest)
           appended == IF Len(args.rest) = args.inputSize + AddressSize
                       THEN {SubSeq(args.rest, args.inputSize + 1, Len(args.rest))} ELSE {}
<1>2. available = args.inputSize
    BY <1>1
<1>3. appended = recipient
    <2>1. CASE Len(args.rest) = args.inputSize
        <3>1. Len(args.rest) # args.inputSize + AddressSize
            BY <1>1, <2>1
        <3> QED  BY <2>1, <3>1
    <2>2. CASE Len(args.rest) # args.inputSize
        <3>1. Len(args.rest) = args.inputSize + AddressSize
            BY <1>1, <2>2
        <3> QED  BY <2>2, <3>1
    <2> QED  BY <2>1, <2>2
<1>4. decodePolyjuiceArgs(args) =
        [isCreate |-> args.callKind = 3, gasLimit |-> args.gasLimit, gasPrice |-> args.gasPrice,
         value |-> args.value, input |-> SubSeq(args.rest, 1, available),
         toAddressWhenNativeTransfer |-> appended]
    BY Zenon DEF decodePolyjuiceArgs
<1>5. PolyjuiceArgs_decode(args) =
        [isCreate |-> args.callKind = 3, gasLimit |-> args.gasLimit, gasPrice |-> args.gasPrice,
         value |-> args.value, input |-> SubSeq(args.rest, 1, args.inputSize),
         toAddressWhenNativeTransfer |-> recipient]
    BY Zenon DEF PolyjuiceArgs_decode
<1> HIDE DEF available, appended, recipient
<1> QED  BY <1>2, <1>3, <1>4, <1>5, Zenon

\* What parse_log took, the API's parsers take.
LEMMA ParsedAgain ==
    ASSUME NEW e, \A i \in DOMAIN e.logs : LogParses(e.logs[i]), SystemItem(e) # {}
    PROVE  ReceiptParses(e)
<1>1. PICK i \in DOMAIN e.logs :
         /\ e.logs[i].service_flag = GW_LOG_POLYJUICE_SYSTEM
         /\ The(SystemItem(e)) = e.logs[i]
    BY DEF SystemItem, The
<1>2. \A item : LogParses(item) =>
         /\ item.service_flag = GW_LOG_POLYJUICE_SYSTEM => SystemLogParses(item.data)
         /\ item.service_flag = GW_LOG_POLYJUICE_USER => UserLogForm(item.data)
    BY DEF LogParses, UserLogParses, GW_LOG_SUDT_TRANSFER, GW_LOG_SUDT_PAY_FEE,
           GW_LOG_POLYJUICE_SYSTEM, GW_LOG_POLYJUICE_USER
<1>3. SystemLogParses(The(SystemItem(e)).data)
    BY <1>1, <1>2
<1>4. \A j \in DOMAIN e.logs :
         e.logs[j].service_flag = GW_LOG_POLYJUICE_USER => UserLogForm(e.logs[j].data)
    BY <1>2
<1> QED  BY <1>3, <1>4 DEF ReceiptParses

\* The transaction and the receipt of a row, and those of the node's copy.
LEMMA SameViews ==
    ASSUME NEW g, NEW e, decodePolyjuiceArgs(g.args) = PolyjuiceArgs_decode(g.args)
    PROVE  LET stored == filter_single_transaction(g, e)
               view   == toApiTransaction(stored)
           IN /\ Len(g.signature) = 5 => PendingTransaction(view.hash, g) = view
              /\ SystemItem(e) # {} => PendingReceipt(g, e) = toApiTransactionReceipt(stored)
<1> DEFINE args == PolyjuiceArgs_decode(g.args)
<1>1. PICK stored : stored = filter_single_transaction(g, e)
    OBVIOUS
<1>2. PICK view : view = toApiTransaction(stored)
    OBVIOUS
<1>3. /\ stored.chain_id = g.chain_id /\ stored.from_address = g.from_id
      /\ stored.to_address = ToAddress(args, g.to_id)
      /\ stored.value = args.value /\ stored.nonce = g.nonce /\ stored.gas_limit = args.gasLimit
      /\ stored.gas_price = args.gasPrice /\ stored.data = args.input
      /\ stored.r = SubSeq(Signature(g), 1, 2) /\ stored.s = SubSeq(Signature(g), 3, 4)
      /\ stored.v = Signature(g)[5] /\ stored.exit_code = e.exit_code /\ stored.logs = UserLogs(e)
    BY <1>1 DEF filter_single_transaction
<1>4. SystemItem(e) # {} =>
        /\ stored.gas_used = SystemLog(The(SystemItem(e)).data).gasUsed
        /\ stored.contract_address = ContractAddress(args, SystemLog(The(SystemItem(e)).data))
    BY <1>1 DEF filter_single_transaction
<1>5. Len(g.signature) = 5 => Signature(g) = g.signature
    BY DEF Signature
<1>6. /\ view.hash = compute_eth_tx_hash(stored)
      /\ view = [hash |-> view.hash, from |-> stored.from_address, to |-> stored.to_address,
                 gas |-> stored.gas_limit, gasPrice |-> stored.gas_price, input |-> stored.data,
                 nonce |-> stored.nonce, value |-> stored.value, v |-> getRealV(stored.v, stored.chain_id),
                 r |-> Number(stored.r), s |-> Number(stored.s)]
    BY <1>2 DEF toApiTransaction
<1> HIDE DEF args
<1>7. PendingTransaction(view.hash, g) =
        [hash |-> view.hash, from |-> g.from_id, to |-> ToAddress(args, g.to_id),
         gas |-> args.gasLimit, gasPrice |-> args.gasPrice, input |-> args.input,
         nonce |-> g.nonce, value |-> args.value,
         v |-> getRealV(g.signature[5], g.chain_id),
         r |-> Number(SubSeq(g.signature, 1, 2)), s |-> Number(SubSeq(g.signature, 3, 4))]
    BY Zenon DEF PendingTransaction, args
<1>8. Len(g.signature) = 5 => PendingTransaction(view.hash, g) = view
    BY <1>3, <1>5, <1>6, <1>7, Zenon
<1>9. SystemItem(e) # {} => PendingReceipt(g, e) = toApiTransactionReceipt(stored)
    <2>1. PendingReceipt(g, e) =
            [from |-> g.from_id, to |-> ToAddress(args, g.to_id),
             gasUsed |-> SystemLog(The(SystemItem(e)).data).gasUsed,
             contractAddress |-> ContractAddress(args, SystemLog(The(SystemItem(e)).data)),
             status |-> IF e.exit_code = 0 THEN 1 ELSE 0, logs |-> ApiLogs(UserLogs(e))]
        BY Zenon DEF PendingReceipt, args
    <2>2. toApiTransactionReceipt(stored) =
            [from |-> stored.from_address, to |-> stored.to_address, gasUsed |-> stored.gas_used,
             contractAddress |-> stored.contract_address,
             status |-> IF stored.exit_code = 0 THEN 1 ELSE 0, logs |-> ApiLogs(stored.logs)]
        BY Zenon DEF toApiTransactionReceipt
    <2> QED  BY <1>3, <1>4, <2>1, <2>2, Zenon
<1> QED  BY <1>1, <1>2, <1>8, <1>9

\* The three views of an indexed transaction agree.
LEMMA PendingIndexed == PathInv => PendingAsIndexed
<1> SUFFICES ASSUME PathInv, stage = "indexed"
             PROVE  LET g    == The(gw)
                        view == toApiTransaction(The(row))
                    IN /\ Len(g.signature) = 5 => PendingTransaction(view.hash, g) = view
                       /\ tx # {} /\ ForThisChain(The(tx)) /\ The(tx).v.zeros = 0 =>
                            polyjuiceRawTransactionToApiTransaction(
                              The(tx), view.hash, Sender(The(tx), The(signing))) = view
                       /\ SystemItem(The(receipt)) # {} =>
                            /\ ReceiptParses(The(receipt))
                            /\ PendingReceipt(g, The(receipt)) = toApiTransactionReceipt(The(row))
    BY DEF PendingAsIndexed
<1>1. PICK g : g = The(gw) /\ g \in gw
    BY DEF PathInv, RowInv, The
<1>2. PICK e : e = The(receipt)
    OBVIOUS
<1>3. PICK stored : stored = The(row)
    OBVIOUS
<1>4. PICK view : view = toApiTransaction(stored)
    OBVIOUS
<1>5. Indexable(world, g, e) /\ stored = filter_single_transaction(g, e)
    BY <1>1, <1>2, <1>3, TheOnly DEF PathInv, RowInv
<1>6. decodePolyjuiceArgs(g.args) = PolyjuiceArgs_decode(g.args)
    BY <1>1, <1>5, DecodersAgree DEF Indexable, PathInv, FormInv, L2Form
<1>7. /\ Len(g.signature) = 5 => PendingTransaction(view.hash, g) = view
      /\ SystemItem(e) # {} => PendingReceipt(g, e) = toApiTransactionReceipt(stored)
    BY <1>4, <1>5, <1>6, SameViews
<1>8. SystemItem(e) # {} => ReceiptParses(e)
    BY <1>5, ParsedAgain DEF Indexable
<1>9. ASSUME tx # {}, ForThisChain(The(tx)), The(tx).v.zeros = 0
      PROVE  polyjuiceRawTransactionToApiTransaction(
               The(tx), view.hash, Sender(The(tx), The(signing))) = view
    <2>1. PICK d \in Draft, native \in BOOLEAN : \E from : DraftedBy(d) /\ MadeOf(d, native, from)
        BY <1>1, <1>9 DEF PathInv, MadeInv
    <2>2. PICK from : DraftedBy(d) /\ MadeOf(d, native, from)
        BY <2>1
    <2>3. PICK t : t = Encoded(d)
        OBVIOUS
    <2>4. g = Made(t, native, from) /\ The(tx) = t /\ The(signing) = SigningOf(d)
        BY <1>1, <2>2, <2>3, TheOnly DEF MadeOf, DraftedBy
    <2>5. Typed(t) /\ (native => Len(t.to) = AddressSize)
        BY <2>2, <2>3, EncodedTyped DEF MadeOf
    <2>6. from = d.signer /\ Sender(t, SigningOf(d)) = d.signer
        BY <2>2, <2>3, SenderIsSigner DEF MadeOf
    <2>7. StoredAs(stored, t, d.signer)
        BY <1>5, <2>4, <2>5, <2>6, RowOfMade
    <2>8. view = [hash |-> view.hash, from |-> stored.from_address, to |-> stored.to_address,
                  gas |-> stored.gas_limit, gasPrice |-> stored.gas_price, input |-> stored.data,
                  nonce |-> stored.nonce, value |-> stored.value,
                  v |-> getRealV(stored.v, stored.chain_id),
                  r |-> Number(stored.r), s |-> Number(stored.s)]
        BY <1>4 DEF toApiTransaction
    <2>9. polyjuiceRawTransactionToApiTransaction(t, view.hash, d.signer) =
            [hash |-> view.hash, from |-> d.signer,
             to |-> IF t.to = DEPLOY_TO_ADDRESS THEN {} ELSE {t.to},
             gas |-> t.gasLimit.n, gasPrice |-> t.gasPrice.n, input |-> t.data,
             nonce |-> t.nonce.n, value |-> t.value.n, v |-> t.v.n, r |-> t.r.n, s |-> t.s.n]
        BY DEF polyjuiceRawTransactionToApiTransaction
    <2>10. ForThisChain(t) /\ t.v.zeros = 0
        BY <1>9, <2>4
    <2>11. polyjuiceRawTransactionToApiTransaction(t, view.hash, d.signer) = view
        BY <2>7, <2>8, <2>9, <2>10, Zenon DEF StoredAs
    <2> QED  BY <2>4, <2>6, <2>11
<1> QED  BY <1>1, <1>2, <1>3, <1>4, <1>7, <1>8, <1>9

-----------------------------------------------------------------------------
\* What is known of eth_call's transaction and of the checks.

\* Accounts that are created leave balances and prices alone.
LEMMA AcceptsStays ==
    ASSUME NEW t, NEW s, NEW w, NEW v, v.balance = w.balance, v.minGasPrice = w.minGasPrice,
           Accepts(t, w, s)
    PROVE  Accepts(t, v, s)
BY DEF Accepts, EnoughBalance

LEMMA CallSend == PathInv /\ SendRawTransaction => CallInv'
<1> SUFFICES ASSUME PathInv, SendRawTransaction, stage' = "submitted" PROVE CallInv'
    BY DEF CallInv, SendRawTransaction
<1>1. /\ stage = "signed" /\ tx # {} /\ UNCHANGED <<tx, signing, world>>
      /\ Accepts(The(tx), world, The(signing))
      /\ gw' = {polyTxToGwTx(The(tx), world, The(signing))}
      /\ call' = {ethCallTxToGodwokenRawTx(CallObject(The(tx), The(signing)), world)}
    BY DEF SendRawTransaction, PathInv, SignedInv
<1>2. PICK d \in Draft : DraftedBy(d)
    BY <1>1 DEF PathInv, SignedInv
<1>3. /\ The(tx) = Encoded(d) /\ The(signing) = SigningOf(d)
      /\ world.account[d.signer] # "contract" /\ Addressable(The(tx).to)
    BY <1>1, <1>2, TheOnly DEF DraftedBy, Accepts
<1>4. /\ The(gw') = polyTxToGwTx(Encoded(d), world, SigningOf(d))
      /\ The(call') = ethCallTxToGodwokenRawTx(CallObject(Encoded(d), SigningOf(d)), world)
    BY <1>1, <1>3, TheOnly
<1>5. /\ The(call').from_id = The(gw').from_id /\ The(call').to_id = The(gw').to_id
      /\ The(call').args = The(gw').args
    BY <1>3, <1>4, SimulationOf DEF PathInv
<1>6. Accepts(The(tx), world, The(signing))' /\ tx' # {}
    BY <1>1
<1> QED  BY <1>5, <1>6 DEF CallInv

LEMMA CallCreate == CallInv /\ CreateAccount => CallInv'
<1> SUFFICES ASSUME CallInv, CreateAccount, call # {} PROVE CallInv'
    BY DEF CallInv, CreateAccount
<1>1. stage = "submitted" /\ UNCHANGED <<stage, tx, signing, gw, call>>
    BY DEF CreateAccount
<1>2. PICK a, kind : world' = [world EXCEPT !.account[a] = kind]
    BY DEF CreateAccount
<1>3. world'.balance = world.balance /\ world'.minGasPrice = world.minGasPrice
    BY <1>2
<1>4. Accepts(The(tx), world', The(signing))
    BY <1>1, <1>3, AcceptsStays DEF CallInv
<1> QED  BY <1>1, <1>4 DEF CallInv

LEMMA CallNext == CallInv /\ PathInv /\ [Next]_vars => CallInv'
<1> SUFFICES ASSUME PathInv, CallInv, [Next]_vars PROVE CallInv'
    OBVIOUS
<1>1. CASE SendRawTransaction  BY <1>1, CallSend
<1>2. CASE CreateAccount  BY <1>2, CallCreate
<1>3. CASE SubmitL2Transaction
    BY <1>3 DEF SubmitL2Transaction, CallInv, PathInv, SignedInv
<1>4. CASE Sign \/ Include \/ Index
    BY <1>4 DEF Sign, Include, Index, CallInv
<1>5. CASE UNCHANGED vars
    BY <1>5 DEF vars, CallInv
<1> QED  BY <1>1, <1>2, <1>3, <1>4, <1>5 DEF Next

\* gw_submit_l2transaction puts the same Ethereum transaction together again,
\* but for leading zeros and for v.
Again(x, t) ==
    /\ x.nonce.n = t.nonce.n /\ x.gasPrice = [n |-> t.gasPrice.n, zeros |-> 0]
    /\ x.gasLimit.n = t.gasLimit.n /\ x.to = t.to /\ x.value.n = t.value.n /\ x.data = t.data
    /\ x.r.n = t.r.n /\ x.s.n = t.s.n

\* What gw_submit_l2transaction puts together of a transaction that is no
\* native transfer is the signed one again, but for its v.
LEMMA PutTogether ==
    ASSUME NEW t, Typed(t), NEW from
    PROVE  LET made == Made(t, FALSE, from)
               x    == AsPolyjuiceTransaction(made)
           IN /\ Again(x, t)
              /\ x.v.n = made.chain_id * 2 + 35 + getSignature(t)[5]
<1> DEFINE made == Made(t, FALSE, from)
           x == AsPolyjuiceTransaction(made)
           number(n) == [n |-> n, zeros |-> 0]
<1>1. decodePolyjuiceArgs(made.args) = Read(t, FALSE)
    BY DecodersRead
<1>2. made.nonce = t.nonce.n /\ made.signature = getSignature(t) /\ made.to_id = t.to
    BY DEF Made
<1> HIDE DEF made
<1>3. /\ x.nonce = number(made.nonce)
      /\ x.gasPrice = number(Read(t, FALSE).gasPrice)
      /\ x.gasLimit = number(Read(t, FALSE).gasLimit)
      /\ x.to = (IF Read(t, FALSE).isCreate THEN DEPLOY_TO_ADDRESS ELSE made.to_id)
      /\ x.value = number(Read(t, FALSE).value) /\ x.data = Read(t, FALSE).input
      /\ x.v = number(made.chain_id * 2 + 35 + made.signature[5])
      /\ x.r = number(Number(SubSeq(made.signature, 1, 2)))
      /\ x.s = number(Number(SubSeq(made.signature, 3, 4)))
    BY <1>1 DEF AsPolyjuiceTransaction
<1> HIDE DEF x
<1>4. /\ Read(t, FALSE).isCreate = (t.to = DEPLOY_TO_ADDRESS)
      /\ Read(t, FALSE).gasPrice = t.gasPrice.n /\ Read(t, FALSE).gasLimit = t.gasLimit.n
      /\ Read(t, FALSE).value = t.value.n /\ Read(t, FALSE).input = t.data
    BY DEF Read
<1>5. /\ Number(SubSeq(made.signature, 1, 2)) = t.r.n
      /\ Number(SubSeq(made.signature, 3, 4)) = t.s.n
    BY <1>2, SignatureParts
<1>6. x.to = t.to
    BY <1>2, <1>3, <1>4, Zenon
<1>7. x.nonce.n = t.nonce.n /\ x.r.n = t.r.n /\ x.s.n = t.s.n
    BY <1>2, <1>3, <1>5
<1>8. /\ x.gasLimit.n = t.gasLimit.n /\ x.value.n = t.value.n /\ x.data = t.data
      /\ x.gasPrice = number(t.gasPrice.n)
    <2>1. x.gasPrice = number(t.gasPrice.n)
        BY <1>3, <1>4, Zenon
    <2>2. x.gasLimit = number(t.gasLimit.n) /\ x.value = number(t.value.n)
        BY <1>3, <1>4, Zenon
    <2>3. x.data = t.data
        BY <1>3, <1>4, Zenon
    <2>4. x.gasLimit.n = t.gasLimit.n /\ x.value.n = t.value.n
        BY <2>2
    <2> QED  BY <2>1, <2>3, <2>4, Zenon
<1>9. x.v.n = made.chain_id * 2 + 35 + getSignature(t)[5]
    BY <1>2, <1>3
<1>10. Again(x, t)
    BY <1>6, <1>7, <1>8 DEF Again
<1> QED  BY <1>9, <1>10 DEF x, made

\* A transaction signed for this chain recovers to its signer both times.
LEMMA SameSender ==
    ASSUME NEW t, Typed(t), NEW x, Again(x, t), NEW s,
           ~PreEIP155(t.v.n), SignedChain(t.v.n) = web3ChainId,
           x.v.n = web3ChainId * 2 + 35 + getSignature(t)[5]
    PROVE  Sender(x, s) = Sender(t, s)
<1>1. t.v.n \in Nat /\ web3ChainId \in Nat \ {0}
    BY CodecAssumption DEF Typed
<1>2. getSignature(t)[5] = (IF t.v.n % 2 = 0 THEN 1 ELSE 0)
    BY SignatureParts
<1>3. x.v.n = t.v.n
    <2>1. t.v.n = 2 * web3ChainId + 35 + (IF t.v.n % 2 = 0 THEN 1 ELSE 0)
        BY <1>1, ChainRead
    <2> QED  BY <1>1, <1>2, <2>1
<1>4. getSignature(x) = getSignature(t)
    <2>1. x.r.n = t.r.n /\ x.s.n = t.s.n  BY DEF Again
    <2> QED  BY <1>3, <2>1, Zenon DEF getSignature
<1>5. calcMessage(x) = calcMessage(t)
    <2>1. /\ x.nonce.n = t.nonce.n /\ x.gasPrice.n = t.gasPrice.n /\ x.gasLimit.n = t.gasLimit.n
          /\ x.to = t.to /\ x.value.n = t.value.n /\ x.data = t.data
        BY DEF Again
    <2> QED  BY <1>3, <2>1, Zenon DEF calcMessage
<1> QED  BY <1>4, <1>5, Zenon DEF Sender

\* The checks see the same numbers, recipient and data.
LEMMA SameChecks ==
    ASSUME NEW t, NEW x, Again(x, t), NEW w, NEW from
    PROVE  /\ x.gasLimit.n = t.gasLimit.n
           /\ calcIntrinsicGas(x.to, x.data) = calcIntrinsicGas(t.to, t.data)
           /\ isGaslessTransaction(x) <=> isGaslessTransaction(t)
           /\ verifyGaslessTransaction(t) => verifyGaslessTransaction(x)
           /\ verifyGasPrice(t, w.minGasPrice) => verifyGasPrice(x, w.minGasPrice)
           /\ EnoughBalance(x, w, from) <=> EnoughBalance(t, w, from)
<1>1. /\ x.gasLimit.n = t.gasLimit.n /\ x.to = t.to /\ x.data = t.data
      /\ x.gasPrice.n = t.gasPrice.n /\ x.gasPrice.zeros = 0 /\ x.value.n = t.value.n
    BY DEF Again
<1>2. calcIntrinsicGas(x.to, x.data) = calcIntrinsicGas(t.to, t.data)
    BY <1>1
<1>3. isGaslessTransaction(x) <=> isGaslessTransaction(t)
    BY <1>1, Zenon DEF isGaslessTransaction
<1>4. verifyGaslessTransaction(t) => verifyGaslessTransaction(x)
    BY <1>1, Zenon DEF verifyGaslessTransaction
<1>5. verifyGasPrice(t, w.minGasPrice) => verifyGasPrice(x, w.minGasPrice)
    BY <1>1, Zenon DEF verifyGasPrice
<1>6. EnoughBalance(x, w, from) <=> EnoughBalance(t, w, from)
    BY <1>1, Zenon DEF EnoughBalance, RequiredBalance
<1> QED  BY <1>1, <1>2, <1>3, <1>4, <1>5, <1>6

\* gw_submit_l2transaction takes what eth_sendRawTransaction has taken.
LEMMA SubmitsAgain ==
    ASSUME PathInv, CallInv, stage = "submitted", call # {}, The(gw).to_id = The(tx).to,
           The(gw).from_id = AUTO_CREATE_ACCOUNT_FROM_ID =>
             ~PreEIP155(The(tx).v.n) /\ SignedChain(The(tx).v.n) = web3ChainId
    PROVE  SubmitAccepts(The(gw), world, The(signing))
<1>0. gw # {} /\ tx # {} /\ Accepts(The(tx), world, The(signing))
    BY DEF PathInv, SignedInv, CallInv
<1>1. PICK d \in Draft, native \in BOOLEAN : \E from : DraftedBy(d) /\ MadeOf(d, native, from)
    BY <1>0 DEF PathInv, MadeInv
<1>2. PICK from : DraftedBy(d) /\ MadeOf(d, native, from)
    BY <1>1
<1> DEFINE t == Encoded(d)
           s == SigningOf(d)
           sent == Made(t, native, from)
           x == AsPolyjuiceTransaction(sent)
<1>3. The(gw) = sent /\ The(tx) = t /\ The(signing) = s
    BY <1>2, TheOnly DEF MadeOf, DraftedBy
<1>4. Typed(t) /\ Sender(t, s) = d.signer /\ Accepts(t, world, s)
    BY <1>0, <1>3, EncodedTyped, SenderIsSigner
<1>5. /\ sent.from_id = from /\ sent.to_id = (IF native THEN PolyjuiceCreator ELSE t.to)
      /\ sent.chain_id = (IF PreEIP155(t.v.n) /\ t.v.zeros = 0 THEN 0 ELSE web3ChainId)
    BY DEF Made
<1>6. ~native /\ sent.to_id = t.to
    <2>1. native => Len(t.to) = AddressSize  BY <1>2 DEF MadeOf
    <2>2. AddressSize \in Nat \ {0}  BY CodecAssumption
    <2>3. native => t.to # PolyjuiceCreator  BY <2>1, <2>2 DEF PolyjuiceCreator
    <2>4. sent.to_id = t.to  BY <1>3
    <2> QED  BY <1>5, <2>3, <2>4
<1>7. Again(x, t) /\ x.v.n = sent.chain_id * 2 + 35 + getSignature(t)[5]
    <2>1. sent = Made(t, FALSE, from)  BY <1>6
    <2> QED  BY <1>4, <2>1, PutTogether
<1>8. from = d.signer \/ from = AUTO_CREATE_ACCOUNT_FROM_ID
    BY <1>2 DEF MadeOf
<1>9. from # AUTO_CREATE_ACCOUNT_FROM_ID => from = d.signer /\ world.account[from] = "eoa"
    BY <1>2 DEF MadeOf
<1>10. t.to # PolyjuiceCreator => world.account[t.to] = "contract"
    BY <1>2, <1>6 DEF MadeOf, DEPLOY_TO_ADDRESS, PolyjuiceCreator
<1>11. from = AUTO_CREATE_ACCOUNT_FROM_ID => Sender(x, s) = d.signer
    <2> SUFFICES ASSUME from = AUTO_CREATE_ACCOUNT_FROM_ID PROVE Sender(x, s) = d.signer
        OBVIOUS
    <2>1. ~PreEIP155(t.v.n) /\ SignedChain(t.v.n) = web3ChainId
        BY <1>3, <1>5
    <2>2. sent.chain_id = web3ChainId
        BY <1>5, <2>1
    <2> QED  BY <1>4, <1>7, <2>1, <2>2, SameSender
<1> DEFINE payer == IF sent.from_id = AUTO_CREATE_ACCOUNT_FROM_ID THEN Sender(x, s) ELSE sent.from_id
<1>12. payer = d.signer
    BY <1>5, <1>9, <1>11
<1> HIDE DEF t, s, sent, x, payer
<1>13. /\ t.gasLimit.n <= RPC_MAX_GAS_LIMIT
       /\ calcIntrinsicGas(t.to, t.data) <= t.gasLimit.n
       /\ IF isGaslessTransaction(t) THEN verifyGaslessTransaction(t)
          ELSE verifyGasPrice(t, world.minGasPrice)
       /\ EnoughBalance(t, world, payer)
    BY <1>4, <1>12 DEF Accepts
<1>14. /\ x.gasLimit.n <= RPC_MAX_GAS_LIMIT
       /\ calcIntrinsicGas(x.to, x.data) <= x.gasLimit.n
       /\ IF isGaslessTransaction(x) THEN verifyGaslessTransaction(x)
          ELSE verifyGasPrice(x, world.minGasPrice)
       /\ EnoughBalance(x, world, payer)
    <2>1. /\ x.gasLimit.n = t.gasLimit.n
          /\ calcIntrinsicGas(x.to, x.data) = calcIntrinsicGas(t.to, t.data)
          /\ EnoughBalance(x, world, payer) <=> EnoughBalance(t, world, payer)
        BY <1>7, SameChecks
    <2>2. IF isGaslessTransaction(x) THEN verifyGaslessTransaction(x)
          ELSE verifyGasPrice(x, world.minGasPrice)
        <3>1. /\ isGaslessTransaction(x) <=> isGaslessTransaction(t)
              /\ verifyGaslessTransaction(t) => verifyGaslessTransaction(x)
              /\ verifyGasPrice(t, world.minGasPrice) => verifyGasPrice(x, world.minGasPrice)
            BY <1>7, SameChecks
        <3> QED  BY <1>13, <3>1
    <2> QED  BY <1>13, <2>1, <2>2
<1>15. /\ sent.from_id # AUTO_CREATE_ACCOUNT_FROM_ID => world.account[sent.from_id] # "none"
       /\ sent.to_id # PolyjuiceCreator => world.account[sent.to_id] # "none"
    BY <1>5, <1>6, <1>9, <1>10
<1>16. SubmitAccepts(sent, world, s)
    BY <1>14, <1>15, Zenon DEF SubmitAccepts, x, payer
<1> QED  BY <1>3, <1>16

LEMMA SimulatedSent == PathInv /\ CallInv => SimulatedAsSent
BY SubmitsAgain DEF SimulatedAsSent, CallInv

\* Whatever accounts are created on the way, the row of a transaction that was
\* sent is what was signed, and its hash the one the client was given.
THEOREM IndexedAsSignedHolds == Spec => []IndexedAsSigned
<1>1. Init => PathInv  BY PathInit
<1>2. PathInv /\ [Next]_vars => PathInv'  BY PathNext
<1>3. PathInv => IndexedAsSigned  BY SignedIndexed
<1> QED  BY <1>1, <1>2, <1>3, PTL DEF Spec

\* Whatever is signed, submitted or executed, and whoever did it: the answers
\* from the node's copy, from the raw transaction and from the row agree.
THEOREM PendingAsIndexedHolds == Spec => []PendingAsIndexed
<1>1. Init => PathInv  BY PathInit
<1>2. PathInv /\ [Next]_vars => PathInv'  BY PathNext
<1>3. PathInv => PendingAsIndexed  BY PendingIndexed
<1> QED  BY <1>1, <1>2, <1>3, PTL DEF Spec

\* eth_call runs what eth_sendRawTransaction submits, and gw_submit_l2transaction
\* takes it too, with the exceptions that SimulatedAsSent names.
THEOREM SimulatedAsSentHolds == Spec => []SimulatedAsSent
<1>1. Init => PathInv /\ CallInv  BY PathInit
<1>2. PathInv /\ CallInv /\ [Next]_vars => PathInv' /\ CallInv'  BY PathNext, CallNext
<1>3. PathInv /\ CallInv => SimulatedAsSent  BY SimulatedSent
<1> QED  BY <1>1, <1>2, <1>3, PTL DEF Spec

-----------------------------------------------------------------------------
\* The price oracle.

\* Of at most one there are no two.
LEMMA FewAreAlike ==
    ASSUME NEW S, IsFiniteSet(S), Cardinality(S) <= 1, NEW a \in S, NEW b \in S
    PROVE  a = b
<1>1. Cardinality(S) # 0
    BY FS_EmptySet
<1>2. Cardinality(S) = 1
    BY <1>1, FS_CardinalityType
<1> QED  BY <1>2, FS_Singleton

\* At most one of three answers is not a quote, and none if there are fewer.
LEMMA OneWild ==
    ASSUME NEW a \in Answers
    PROVE  /\ \A s \in Source : a[s] = {} \/ \E p \in Nat : a[s] = {p}
           /\ \A s, t \in Source : ~(a[s] \subseteq Quote) /\ ~(a[t] \subseteq Quote) => s = t
           /\ (\E s \in Source : a[s] = {}) => \A s \in Source : a[s] \subseteq Quote
<1> DEFINE wild == {s \in Source : ~(a[s] \subseteq Quote)}
<1>1. /\ a \in [Source -> {{}} \cup {{p} : p \in Quote \cup WildQuote}]
      /\ Cardinality(wild) <= (IF \E s \in Source : a[s] = {} THEN 0 ELSE 1)
    BY DEF Answers
<1>2. \A s \in Source : a[s] = {} \/ \E p \in Nat : a[s] = {p}
    BY <1>1, OracleAssumption
<1>3. IsFiniteSet(wild)
    <2>1. IsFiniteSet(Source)
        <3>1. Source = (({} \cup {"coingecko"}) \cup {"binance"}) \cup {"cryptocom"}
            BY DEF Source
        <3> QED  BY <3>1, FS_EmptySet, FS_AddElement
    <2> QED  BY <2>1, FS_Subset
<1>4. Cardinality(wild) \in Nat
    BY <1>3, FS_CardinalityType
<1>5. Cardinality(wild) <= 1
    BY <1>1, <1>4
<1>6. ASSUME \E s \in Source : a[s] = {} PROVE wild = {}
    <2>1. Cardinality(wild) = 0  BY <1>1, <1>4, <1>6
    <2> QED  BY <1>3, <2>1, FS_EmptySet
<1>7. \A s, t \in wild : s = t
    BY <1>3, <1>5, FewAreAlike
<1> QED  BY <1>2, <1>6, <1>7

\* The median of three or the average of two lies between two quotes.
LEMMA PollBounded ==
    ASSUME NEW a \in Answers, NEW p \in pollPrice(a)
    PROVE  p \in Nat /\ \E low, high \in Quote : low <= p /\ p <= high
<1> DEFINE answered == {s \in Source : a[s] # {}}
<1>1. /\ \A s \in Source : a[s] = {} \/ \E q \in Nat : a[s] = {q}
      /\ \A s, t \in Source : ~(a[s] \subseteq Quote) /\ ~(a[t] \subseteq Quote) => s = t
      /\ (\E s \in Source : a[s] = {}) => \A s \in Source : a[s] \subseteq Quote
    BY OneWild
<1>2. Quote \subseteq Nat
    BY OracleAssumption
<1>3. CASE answered = Source
    <2>1. PICK s \in Source, t \in Source, u \in Source :
             /\ {s, t, u} = Source /\ p \in a[t]
             /\ \E low \in a[s], high \in a[u] : Median(low, p, high)
        BY <1>3 DEF pollPrice
    <2>2. PICK low \in a[s], high \in a[u] : low <= p /\ p <= high
        BY <2>1 DEF Median
    <2>3. p \in Nat
        BY <1>1, <2>1
    <2>4. s # t /\ u # t
        BY <2>1 DEF Source
    <2>5. CASE a[t] \subseteq Quote
        <3>1. p \in Quote /\ p <= p  BY <2>1, <2>3, <2>5
        <3> QED  BY <2>3, <3>1
    <2>6. CASE ~(a[t] \subseteq Quote)
        <3>1. a[s] \subseteq Quote /\ a[u] \subseteq Quote  BY <1>1, <2>4, <2>6
        <3> QED  BY <2>2, <2>3, <3>1
    <2> QED  BY <2>5, <2>6
<1>4. CASE answered # Source
    <2>1. \A s \in Source : a[s] \subseteq Quote
        BY <1>1, <1>4
    <2>2. PICK s \in Source, t \in Source : p \in {average(q, r) : q \in a[s], r \in a[t]}
        BY <1>4 DEF pollPrice
    <2>3. PICK q \in Quote, r \in Quote : p = average(q, r)
        BY <2>1, <2>2
    <2>4. q \in Nat /\ r \in Nat
        BY <1>2
    <2>5. p \in Nat /\ ((q <= p /\ p <= r) \/ (r <= p /\ p <= q))
        BY <2>3, <2>4 DEF average
    <2> QED  BY <2>5
<1> QED  BY <1>3, <1>4

\* A gas price is clamped, whatever the price is, unless it throws.
LEMMA GasPriceClamped ==
    ASSUME price \subseteq Nat, \A p \in price : ~GasPriceThrows(p),
           NEW median \in MedianGasPrice, NEW used
    PROVE  MIN_GAS_PRICE_LOWER_LIMIT <= gasPrice(median, minGasPrice(price), used)
<1>1. /\ MIN_GAS_PRICE_LOWER_LIMIT \in Nat /\ MIN_GAS_PRICE_UPPER_LIMIT \in Nat
      /\ MIN_GAS_PRICE_LOWER_LIMIT <= MIN_GAS_PRICE_UPPER_LIMIT /\ median \in Nat
      /\ PRECISION \in Nat \ {0} /\ GAS_PRICE_DIVIDER \in Nat
    BY OracleAssumption
<1>2. minGasPrice(price) \in Int /\ MIN_GAS_PRICE_LOWER_LIMIT <= minGasPrice(price)
    <2>1. CASE price = {}  BY <1>1, <2>1 DEF minGasPrice
    <2>2. CASE price # {}
        <3> DEFINE p == CHOOSE p \in price : TRUE
                   scale == enlargeCkbPrice(p)
        <3>1. p \in Nat /\ ~GasPriceThrows(p)
            BY <2>2
        <3> HIDE DEF p
        <3>2. scale \in Nat
            <4>1. 2 * p + PRECISION \in Nat /\ 2 * PRECISION \in Nat \ {0}
                BY <1>1, <3>1
            <4>2. \A m \in Nat, n \in Nat \ {0} : m \div n \in Nat
                OBVIOUS
            <4> QED  BY <4>1, <4>2 DEF enlargeCkbPrice
        <3>3. scale # 0
            BY <3>1 DEF GasPriceThrows
        <3> HIDE DEF scale
        <3>4. toGasPrice(p) \in Int
            BY <1>1, <3>2, <3>3 DEF toGasPrice, scale
        <3>5. toMinGasPrice(p) \in Int /\ MIN_GAS_PRICE_LOWER_LIMIT <= toMinGasPrice(p)
            BY <1>1, <3>4 DEF toMinGasPrice
        <3>6. minGasPrice(price) = toMinGasPrice(p)
            BY <2>2 DEF minGasPrice, p
        <3> QED  BY <3>5, <3>6
    <2> QED  BY <2>1, <2>2
<1> HIDE DEF minGasPrice
<1> QED  BY <1>1, <1>2 DEF gasPrice

OracleInv == PriceSound /\ price \subseteq Nat /\ running \in BOOLEAN

LEMMA OracleStep == OracleInv /\ [OracleNext]_oracleVars => OracleInv'
<1> SUFFICES ASSUME OracleInv, [OracleNext]_oracleVars PROVE OracleInv'
    OBVIOUS
<1>1. ASSUME ExecutePoll PROVE OracleInv'
    <2>1. running /\ loops > 0 /\ UNCHANGED gasPriceCache
        BY <1>1 DEF ExecutePoll
    <2>2. PICK a \in Answers :
             \/ \E p \in pollPrice(a) : price' = {p} /\ UNCHANGED <<running, loops>>
             \/ UNCHANGED <<price, running, loops>>
             \/ running' = FALSE /\ loops' = loops - 1 /\ UNCHANGED price
        BY <1>1 DEF ExecutePoll
    <2>3. CASE \E p \in pollPrice(a) : price' = {p} /\ UNCHANGED <<running, loops>>
        <3>1. PICK p \in pollPrice(a) : price' = {p} /\ UNCHANGED <<running, loops>>
            BY <2>3
        <3>2. p \in Nat /\ \E low, high \in Quote : low <= p /\ p <= high
            BY PollBounded
        <3> QED  BY <2>1, <3>1, <3>2 DEF OracleInv, PriceSound
    <2>4. CASE UNCHANGED <<price, running, loops>>
        BY <2>1, <2>4 DEF OracleInv, PriceSound
    <2>5. CASE running' = FALSE /\ loops' = loops - 1 /\ UNCHANGED price
        <3>1. loops = 1
            BY <2>1 DEF OracleInv, PriceSound
        <3>2. loops' = 0 /\ price' = price
            BY <2>5, <3>1
        <3>3. ~running' /\ running' \in BOOLEAN
            BY <2>5, Zenon
        <3> QED  BY <2>1, <3>2, <3>3 DEF OracleInv, PriceSound
    <2> QED  BY <2>2, <2>3, <2>4, <2>5
<1>2. ASSUME LivenessCheck PROVE OracleInv'
    BY <1>2 DEF LivenessCheck, OracleInv, PriceSound
<1>3. ASSUME GasPrice PROVE OracleInv'
    <2>1. PICK median \in MedianGasPrice, used \in GasUsed :
             gasPriceCache' = IF GasPriceCached
                              THEN {gasPrice(median, minGasPrice(price), used)} ELSE {}
        BY <1>3 DEF GasPrice
    <2>2. MIN_GAS_PRICE_LOWER_LIMIT <= gasPrice(median, minGasPrice(price), used)
        BY <1>3, GasPriceClamped DEF GasPrice, OracleInv
    <2>3. UNCHANGED <<price, running, loops>>
        BY <1>3 DEF GasPrice
    <2> QED  BY <2>1, <2>2, <2>3 DEF OracleInv, PriceSound
<1>4. ASSUME Expire PROVE OracleInv'
    <2>1. CASE price' = {} /\ UNCHANGED <<running, loops, gasPriceCache>>
        BY <2>1 DEF OracleInv, PriceSound
    <2>2. CASE gasPriceCache' = {} /\ UNCHANGED <<price, running, loops>>
        BY <2>2 DEF OracleInv, PriceSound
    <2> QED  BY <1>4, <2>1, <2>2 DEF Expire
<1>5. ASSUME UNCHANGED oracleVars PROVE OracleInv'
    BY <1>5 DEF oracleVars, OracleInv, PriceSound
<1> QED  BY <1>1, <1>2, <1>3, <1>4, <1>5 DEF OracleNext

\* The price stays between two quotes of sources that work, one loop runs, and no
\* gas price is below the lower limit, whatever one source answers.
THEOREM PriceSoundHolds == OracleSpec => []PriceSound
<1>1. OracleInit => OracleInv
    BY DEF OracleInit, OracleInv, PriceSound
<1>2. OracleInv => PriceSound
    BY DEF OracleInv
<1> QED  BY <1>1, <1>2, OracleStep, PTL DEF OracleSpec

-----------------------------------------------------------------------------
\* Log filters: the memory of a worker and the database follow one rule.

\* A sequence is a sequence over its own elements.
LEMMA SequenceLength ==
    ASSUME NEW s, IsSequence(s)
    PROVE  Len(s) \in Nat /\ DOMAIN s = 1 .. Len(s) /\ (Len(s) = 0 <=> s = <<>>)
<1>1. s \in Seq(Range(s))  BY DEF IsSequence
<1>2. Len(s) \in Nat /\ DOMAIN s = 1 .. Len(s)  BY <1>1, LenProperties
<1>3. s # <<>> => Len(s) \in Nat \ {0}  BY <1>1, EmptySeq
<1>4. s = <<>> => Len(s) = 0  BY EmptySeq
<1> QED  BY <1>2, <1>3, <1>4

\* An entry that is no list is anything or one text.
LEMMA SingleEntry ==
    ASSUME NEW e, EntryForm(e), ~e.list
    PROVE  /\ e # Anything <=> e.texts # <<>>
           /\ e.texts # <<>> => DOMAIN e.texts = {1} /\ Range(e.texts) = {e.texts[1]}
<1>1. /\ e = [list |-> e.list, texts |-> e.texts] /\ e.list = FALSE
      /\ IsSequence(e.texts) /\ Len(e.texts) <= 1
    BY DEF EntryForm
<1>2. e = [list |-> FALSE, texts |-> e.texts]
    BY <1>1
<1>3. e # Anything <=> e.texts # <<>>
    BY <1>2 DEF Anything
<1>4. Len(e.texts) \in Nat /\ DOMAIN e.texts = 1 .. Len(e.texts) /\ (Len(e.texts) = 0 <=> e.texts = <<>>)
    BY <1>1, SequenceLength
<1>5. ASSUME e.texts # <<>> PROVE DOMAIN e.texts = {1} /\ Range(e.texts) = {e.texts[1]}
    <2>1. DOMAIN e.texts = {1}  BY <1>1, <1>4, <1>5
    <2> QED  BY <2>1 DEF Range
<1> QED  BY <1>3, <1>5

\* Comparing lower-case texts is comparing what they stand for, and an address
\* is compared without its case.
LEMMA TextsCompare ==
    /\ \A value, text : text.upper = FALSE /\ text = Text(text.value, text.upper) =>
          (bufferToHex(value) = text <=> value = text.value)
    /\ \A value, text : bufferToHex(value) = normalizeQueryAddress(text) <=> value = text.value
<1>1. \A v, w, b : Text(v, b) = Text(w, b) <=> v = w  BY DEF Text
<1>2. ASSUME NEW value, NEW text, text.upper = FALSE, text = Text(text.value, text.upper)
      PROVE  bufferToHex(value) = text <=> value = text.value
    <2>1. text = Text(text.value, FALSE)  BY <1>2
    <2> QED  BY <1>1, <2>1, Zenon DEF bufferToHex
<1>3. \A value, text : bufferToHex(value) = normalizeQueryAddress(text) <=> value = text.value
    BY <1>1 DEF bufferToHex, normalizeQueryAddress
<1> QED  BY <1>2, <1>3

\* An entry of a plain filter, and what a topic has to be for it.
PlainEntry(e) == EntryForm(e) /\ \A text \in Range(e.texts) : ~text.upper
Chosen(e, topic) == e # Anything => \E text \in Range(e.texts) : topic = text.value

\* One topic in memory,
LEMMA EntryInMemory ==
    ASSUME NEW e, PlainEntry(e), NEW topic
    PROVE  (/\ e.list => bufferToHex(topic) \in Range(e.texts)
            /\ ~e.list => \A text \in Range(e.texts) : bufferToHex(topic) = text)
           <=> Chosen(e, topic)
<1>1. \A text \in Range(e.texts) : bufferToHex(topic) = text <=> topic = text.value
    BY TextsCompare DEF PlainEntry, EntryForm
<1>2. CASE e.list
    <2>1. e # Anything
        <3>1. Anything.list = FALSE  BY DEF Anything
        <3> QED  BY <1>2, <3>1
    <2> QED  BY <1>1, <1>2, <2>1 DEF Chosen
<1>3. CASE ~e.list
    <2>1. e # Anything <=> e.texts # <<>>
        BY <1>3, SingleEntry DEF PlainEntry
    <2>2. e.texts # <<>> => Range(e.texts) = {e.texts[1]}
        BY <1>3, SingleEntry DEF PlainEntry
    <2>3. e.texts = <<>> => Range(e.texts) = {}
        BY DEF Range
    <2> QED  BY <1>1, <1>3, <2>1, <2>2, <2>3 DEF Chosen
<1>4. e.list \in BOOLEAN  BY DEF PlainEntry, EntryForm
<1> QED  BY <1>2, <1>3, <1>4

\* and in the database.
LEMMA EntryInDatabase ==
    ASSUME NEW e, PlainEntry(e), NEW topic
    PROVE  (/\ e.list => topic \in {hexToBuffer(text) : text \in Range(e.texts)}
            /\ ~e.list => \A text \in Range(e.texts) : topic = hexToBuffer(text))
           <=> Chosen(e, topic)
<1>1. \A text : hexToBuffer(text) = text.value
    BY DEF hexToBuffer
<1>2. CASE e.list
    <2>1. e # Anything
        <3>1. Anything.list = FALSE  BY DEF Anything
        <3> QED  BY <1>2, <3>1
    <2> QED  BY <1>1, <1>2, <2>1 DEF Chosen
<1>3. CASE ~e.list
    <2>1. e # Anything <=> e.texts # <<>>
        BY <1>3, SingleEntry DEF PlainEntry
    <2>2. e.texts # <<>> => Range(e.texts) = {e.texts[1]}
        BY <1>3, SingleEntry DEF PlainEntry
    <2>3. e.texts = <<>> => Range(e.texts) = {}
        BY DEF Range
    <2> QED  BY <1>1, <1>3, <2>1, <2>2, <2>3 DEF Chosen
<1>4. e.list \in BOOLEAN  BY DEF PlainEntry, EntryForm
<1> QED  BY <1>2, <1>3, <1>4

\* The rule, an entry at a time.
RightAddress(log, address) ==
    address.texts # <<>> => \E text \in Range(address.texts) : log.address = text.value
RightTopics(log, topics) ==
    \A i \in 1 .. Len(topics) : i <= Len(log.topics) /\ Chosen(topics[i], log.topics[i])

\* A plain filter has one address at most and plain entries.
LEMMA PlainParts ==
    ASSUME NEW filter, FilterForm(filter), PlainFilter(filter)
    PROVE  /\ EntryForm(filter.address) /\ ~filter.address.list
           /\ Len(filter.topics) \in Nat /\ DOMAIN filter.topics = 1 .. Len(filter.topics)
           /\ Len(filter.topics) = 0 <=> filter.topics = <<>>
           /\ \A i \in 1 .. Len(filter.topics) : PlainEntry(filter.topics[i])
<1>1. /\ EntryForm(filter.address) /\ ~filter.address.list
      /\ \A entry \in Range(filter.topics) : EntryForm(entry)
    BY DEF FilterForm, PlainFilter
<1>2. /\ Len(filter.topics) \in Nat /\ DOMAIN filter.topics = 1 .. Len(filter.topics)
      /\ Len(filter.topics) = 0 <=> filter.topics = <<>>
    BY SequenceLength DEF FilterForm
<1>3. \A i \in 1 .. Len(filter.topics) : filter.topics[i] \in Range(filter.topics)
    BY <1>2 DEF Range
<1> QED  BY <1>1, <1>2, <1>3 DEF PlainFilter, PlainEntry

\* The rule is one of the address and one of the topics.
LEMMA RuleInParts ==
    ASSUME NEW filter, FilterForm(filter), PlainFilter(filter), NEW log
    PROVE  RuleMatches(log, filter) <=>
             RightAddress(log, filter.address) /\ RightTopics(log, filter.topics)
BY PlainParts DEF RuleMatches, RightAddress, RightTopics, Chosen

\* filterLogsByAddress follows the rule,
LEMMA AddressInMemory ==
    ASSUME NEW address, EntryForm(address), ~address.list, NEW logs
    PROVE  filterLogsByAddress(logs, address) = {log \in logs : RightAddress(log, address)}
<1>1. CASE address.texts = <<>>
    <2>1. address = Anything  BY <1>1, SingleEntry
    <2> QED  BY <1>1, <2>1 DEF filterLogsByAddress, RightAddress
<1>2. CASE address.texts # <<>>
    <2>1. address # Anything /\ Range(address.texts) = {address.texts[1]}
        BY <1>2, SingleEntry
    <2>2. \A log : bufferToHex(log.address) = normalizeQueryAddress(address.texts[1])
                     <=> log.address = address.texts[1].value
        BY TextsCompare
    <2> QED  BY <1>2, <2>1, <2>2 DEF filterLogsByAddress, RightAddress
<1> QED  BY <1>1, <1>2

\* and filterLogsByTopics,
LEMMA TopicsInMemory ==
    ASSUME NEW filter, FilterForm(filter), PlainFilter(filter),
           NEW logs, \A log \in logs : LogForm(log)
    PROVE  filterLogsByTopics(logs, filter.topics) = {log \in logs : RightTopics(log, filter.topics)}
<1> DEFINE topics == filter.topics
<1>1. /\ Len(topics) \in Nat /\ DOMAIN topics = 1 .. Len(topics)
      /\ Len(topics) = 0 <=> topics = <<>>
      /\ \A i \in 1 .. Len(topics) : PlainEntry(topics[i])
    BY PlainParts
<1>2. \A log \in logs : Len(log.topics) \in Nat /\ DOMAIN log.topics = 1 .. Len(log.topics)
    BY SequenceLength DEF LogForm
<1> HIDE DEF topics
<1>3. CASE topics = <<>>
    <2>1. Len(topics) = 0  BY <1>1, <1>3
    <2>2. \A log \in logs : RightTopics(log, topics)  BY <2>1 DEF RightTopics
    <2> QED  BY <1>3, <2>2 DEF filterLogsByTopics, topics
<1>4. CASE topics # <<>> /\ \A i \in DOMAIN topics : topics[i] = Anything
    <2>1. ASSUME NEW log \in logs PROVE RightTopics(log, topics) <=> Len(log.topics) >= Len(topics)
        <3>1. Len(log.topics) \in Nat  BY <1>2
        <3>2. Len(topics) \in Nat \ {0}  BY <1>1, <1>4
        <3>3. \A i \in 1 .. Len(topics) : Chosen(topics[i], log.topics[i])
            BY <1>1, <1>4 DEF Chosen
        <3>4. RightTopics(log, topics) <=> \A i \in 1 .. Len(topics) : i <= Len(log.topics)
            BY <3>3 DEF RightTopics
        <3> QED  BY <3>1, <3>2, <3>4
    <2>2. filterLogsByTopics(logs, topics) = {log \in logs : Len(log.topics) >= Len(topics)}
        BY <1>4, Zenon DEF filterLogsByTopics
    <2> QED  BY <2>1, <2>2 DEF topics
<1>5. CASE topics # <<>> /\ ~\A i \in DOMAIN topics : topics[i] = Anything
    <2>1. ASSUME NEW log \in logs PROVE TopicsMatch(log.topics, topics) <=> RightTopics(log, topics)
        <3>1. Len(log.topics) \in Nat /\ DOMAIN log.topics = 1 .. Len(log.topics)
            BY <1>2
        <3>2. Len(topics) \in Nat \ {0}  BY <1>1, <1>5
        <3> DEFINE InMemory(e, t) == /\ e.list => bufferToHex(t) \in Range(e.texts)
                                     /\ ~e.list => \A text \in Range(e.texts) : bufferToHex(t) = text
        <3>3. \A i \in 1 .. Len(topics) : InMemory(topics[i], log.topics[i]) <=> Chosen(topics[i], log.topics[i])
            BY <1>1, EntryInMemory
        <3>4. TopicsMatch(log.topics, topics) <=>
                /\ Len(log.topics) >= Len(topics)
                /\ \A i \in DOMAIN log.topics \cap DOMAIN topics : InMemory(topics[i], log.topics[i])
            BY Zenon DEF TopicsMatch
        <3> HIDE DEF InMemory
        <3>5. Len(log.topics) >= Len(topics) => DOMAIN log.topics \cap DOMAIN topics = 1 .. Len(topics)
            BY <1>1, <3>1, <3>2
        <3>6. (\A i \in 1 .. Len(topics) : i <= Len(log.topics)) <=> Len(log.topics) >= Len(topics)
            BY <3>1, <3>2
        <3> QED  BY <3>3, <3>4, <3>5, <3>6 DEF RightTopics
    <2>2. filterLogsByTopics(logs, topics) = {log \in logs : TopicsMatch(log.topics, topics)}
        BY <1>5, Zenon DEF filterLogsByTopics
    <2> QED  BY <2>1, <2>2 DEF topics
<1> QED  BY <1>3, <1>4, <1>5

\* In memory a plain filter selects what the rule says.
LEMMA MemoryFollowsRule ==
    ASSUME NEW filter, FilterForm(filter), PlainFilter(filter),
           NEW logs, \A log \in logs : LogForm(log)
    PROVE  Matching(logs, filter) = {log \in logs : RuleMatches(log, filter)}
<1> DEFINE there == filterLogsByAddress(logs, filter.address)
<1>1. there = {log \in logs : RightAddress(log, filter.address)}
    BY PlainParts, AddressInMemory
<1>2. \A log \in there : LogForm(log)
    BY <1>1
<1> HIDE DEF there
<1>3. filterLogsByTopics(there, filter.topics) = {log \in there : RightTopics(log, filter.topics)}
    BY <1>2, TopicsInMemory
<1>4. Matching(logs, filter) = {log \in there : RightTopics(log, filter.topics)}
    BY <1>3 DEF Matching, there
<1> QED  BY <1>1, <1>4, RuleInParts

\* as do buildQueryLogAddress
LEMMA AddressInDatabase ==
    ASSUME NEW address, EntryForm(address), ~address.list, NEW log
    PROVE  buildQueryLogAddress(log, universalizeAddress(address)) <=> RightAddress(log, address)
<1> DEFINE addresses == universalizeAddress(address)
<1>1. addresses = [i \in DOMAIN address.texts |-> normalizeQueryAddress(address.texts[i])]
    BY DEF universalizeAddress
<1>2. CASE address.texts = <<>>
    <2>1. DOMAIN address.texts = {}
        <3>1. Len(<<>>) = 0 /\ DOMAIN <<>> = 1 .. 0  BY EmptySeq
        <3> QED  BY <1>2, <3>1
    <2>2. addresses = <<>>
        BY <1>1, <2>1
    <2> QED  BY <1>2, <2>2 DEF buildQueryLogAddress, RightAddress
<1>3. CASE address.texts # <<>>
    <2>1. DOMAIN address.texts = {1} /\ Range(address.texts) = {address.texts[1]}
        BY <1>3, SingleEntry
    <2>2. DOMAIN addresses = {1} /\ addresses[1] = normalizeQueryAddress(address.texts[1])
        BY <1>1, <2>1
    <2>3. addresses # <<>>
        <3>1. DOMAIN <<>> = {}  OBVIOUS
        <3> QED  BY <2>2, <3>1
    <2>4. hexToBuffer(addresses[1]) = address.texts[1].value
        BY <2>2 DEF hexToBuffer, normalizeQueryAddress, Text
    <2> HIDE DEF addresses
    <2>5. {hexToBuffer(addresses[i]) : i \in DOMAIN addresses} = {address.texts[1].value}
        BY <2>2, <2>4
    <2>6. buildQueryLogAddress(log, addresses) <=> log.address = address.texts[1].value
        BY <2>3, <2>5 DEF buildQueryLogAddress
    <2> QED  BY <1>3, <2>1, <2>6 DEF RightAddress, addresses
<1> QED  BY <1>2, <1>3

\* and buildQueryLogTopics.
LEMMA TopicsInDatabase ==
    ASSUME NEW filter, FilterForm(filter), PlainFilter(filter), NEW log, LogForm(log)
    PROVE  buildQueryLogTopics(log, filter.topics) <=> RightTopics(log, filter.topics)
<1> DEFINE topics == filter.topics
           InDatabase(e, t) == /\ e.list => t \in {hexToBuffer(text) : text \in Range(e.texts)}
                               /\ ~e.list => \A text \in Range(e.texts) : t = hexToBuffer(text)
<1>1. /\ Len(topics) \in Nat /\ DOMAIN topics = 1 .. Len(topics)
      /\ Len(topics) = 0 <=> topics = <<>>
      /\ \A i \in 1 .. Len(topics) : PlainEntry(topics[i])
    BY PlainParts
<1>2. Len(log.topics) \in Nat
    BY SequenceLength DEF LogForm
<1>3. \A i \in 1 .. Len(topics) : InDatabase(topics[i], log.topics[i]) <=> Chosen(topics[i], log.topics[i])
    BY <1>1, EntryInDatabase
<1>4. buildQueryLogTopics(log, topics) <=>
        /\ topics # <<>> => Len(log.topics) >= Len(topics)
        /\ \A i \in DOMAIN topics : InDatabase(topics[i], log.topics[i])
    BY Zenon DEF buildQueryLogTopics
<1> HIDE DEF InDatabase, topics
<1>5. (\A i \in 1 .. Len(topics) : i <= Len(log.topics)) <=>
        (topics # <<>> => Len(log.topics) >= Len(topics))
    BY <1>1, <1>2
<1>6. buildQueryLogTopics(log, topics) <=> RightTopics(log, topics)
    BY <1>1, <1>3, <1>4, <1>5 DEF RightTopics
<1> QED  BY <1>6 DEF topics

\* The database selects what the rule says, in the filter's blocks and after
\* its last poll.
LEMMA DatabaseFollowsRule ==
    ASSUME NEW f \in Filter, PlainFilter(f), NEW after \in PollId
    PROVE  getLogsByFilter(Log, f, after) =
             {log \in {log \in Log : RuleMatches(log, f)} :
                /\ IF f.blockHash = {} THEN f.fromBlock <= log.block /\ log.block <= f.toBlock
                   ELSE f.blockHash = {log.hash}
                /\ after # -1 => log.id > after}
<1>1. /\ FilterForm(f) /\ f.fromBlock \in Int /\ f.toBlock \in Int
      /\ \A hash, other \in f.blockHash : hash = other
    BY GatewayAssumption
<1>2. EntryForm(f.address) /\ ~f.address.list
    BY <1>1, PlainParts
<1>3. ASSUME NEW log \in Log
      PROVE  /\ buildQueryLogAddress(log, universalizeAddress(f.address))
             /\ buildQueryLogTopics(log, f.topics)
             <=> RuleMatches(log, f)
    <2>1. LogForm(log)  BY GatewayAssumption
    <2> QED  BY <1>1, <1>2, <2>1, AddressInDatabase, TopicsInDatabase, RuleInParts
<1>4. ASSUME NEW log \in Log
      PROVE  buildQueryLogBlock(log, f.fromBlock, f.toBlock, f.blockHash) <=>
               IF f.blockHash = {} THEN f.fromBlock <= log.block /\ log.block <= f.toBlock
               ELSE f.blockHash = {log.hash}
    <2>1. log.block \in Int  BY GatewayAssumption
    <2>2. CASE f.blockHash = {}  BY <1>1, <2>1, <2>2 DEF buildQueryLogBlock
    <2>3. CASE f.blockHash # {}
        <3>1. log.hash \in f.blockHash <=> f.blockHash = {log.hash}  BY <1>1, <2>3
        <3> QED  BY <2>3, <3>1 DEF buildQueryLogBlock
    <2> QED  BY <2>2, <2>3
<1> QED  BY <1>3, <1>4 DEF getLogsByFilter, buildQueryLogId

AskedOK == \A query \in asked : query.filter \in Filter /\ query.lastPollId \in PollId

\* So what was asked has one answer.
LEMMA AskedAgree == AskedOK => FiltersAgree
<1> SUFFICES ASSUME AskedOK, NEW query \in asked, PlainFilter(query.filter)
             PROVE  /\ filterLogsByTopics(filterLogsByAddress(Log, query.filter.address), query.filter.topics)
                         = {log \in Log : RuleMatches(log, query.filter)}
                    /\ getLogsByFilter(Log, query.filter, query.lastPollId) =
                         {log \in {log \in Log : RuleMatches(log, query.filter)} :
                            /\ IF query.filter.blockHash = {}
                               THEN query.filter.fromBlock <= log.block /\ log.block <= query.filter.toBlock
                               ELSE query.filter.blockHash = {log.hash}
                            /\ query.lastPollId # -1 => log.id > query.lastPollId}
    BY Zenon DEF FiltersAgree
<1>1. query.filter \in Filter /\ query.lastPollId \in PollId
    BY DEF AskedOK
<1>2. FilterForm(query.filter) /\ \A log \in Log : LogForm(log)
    BY <1>1, GatewayAssumption
<1>3. Matching(Log, query.filter) = {log \in Log : RuleMatches(log, query.filter)}
    BY <1>2, MemoryFollowsRule
<1> QED  BY <1>1, <1>3, DatabaseFollowsRule DEF Matching

\* Whatever is asked, the database and the memory select what the rule says.
THEOREM FiltersAgreeHolds == GatewaySpec => []FiltersAgree
<1>1. GatewayInit => AskedOK
    BY DEF GatewayInit, AskedOK
<1>2. AskedOK /\ [GatewayNext]_gatewayVars => AskedOK'
    <2> SUFFICES ASSUME AskedOK, [GatewayNext]_gatewayVars PROVE AskedOK'
        OBVIOUS
    <2>1. CASE AskLogs
        <3>1. PICK filter \in Filter, lastPollId \in PollId :
                 asked' = {[filter |-> filter, lastPollId |-> lastPollId]}
            BY <2>1 DEF AskLogs
        <3> QED  BY <3>1 DEF AskedOK
    <2>2. CASE asked' = asked
        BY <2>2 DEF AskedOK
    <2>3. AskLogs \/ asked' = asked
        BY DEF GatewayNext, Transact, Connect, FollowPrice, gatewayVars
    <2> QED  BY <2>1, <2>2, <2>3
<1> QED  BY <1>1, <1>2, AskedAgree, PTL DEF GatewaySpec

-----------------------------------------------------------------------------
\* A WebSocket connection.

\* More heads after some: those heard until now, and those heard before.
LEMMA HeardGrows ==
    ASSUME NEW S, NEW s \in Seq(S), NEW t \in Seq(S), NEW from \in 0 .. Len(s)
    PROVE  /\ SubSeq(s \o t, from + 1, Len(s \o t)) = SubSeq(s, from + 1, Len(s)) \o t
           /\ \A until \in from .. Len(s) : SubSeq(s \o t, from + 1, until) = SubSeq(s, from + 1, until)
<1> DEFINE c == s \o t
<1>1. /\ c \in Seq(S) /\ Len(c) = Len(s) + Len(t)
      /\ \A i \in 1 .. Len(s) + Len(t) : c[i] = (IF i <= Len(s) THEN s[i] ELSE t[i - Len(s)])
    BY ConcatProperties
<1>2. Len(s) \in Nat /\ Len(t) \in Nat /\ from \in Nat
    BY LenProperties
<1>3. /\ \A i \in 1 .. Len(c) : c[i] \in S
      /\ \A i \in 1 .. Len(s) : s[i] \in S
      /\ \A i \in 1 .. Len(t) : t[i] \in S
    BY <1>1, ElementOfSeq
<1> HIDE DEF c
<1>4. ASSUME NEW until \in from .. Len(s)
      PROVE  SubSeq(c, from + 1, until) = SubSeq(s, from + 1, until)
    <2>1. \A i \in from + 1 .. until : c[i] \in S /\ s[i] \in S /\ c[i] = s[i]
        BY <1>1, <1>2, <1>3
    <2>2. /\ SubSeq(c, from + 1, until) \in Seq(S) /\ SubSeq(s, from + 1, until) \in Seq(S)
          /\ Len(SubSeq(c, from + 1, until)) = until - from
          /\ Len(SubSeq(s, from + 1, until)) = until - from
          /\ \A i \in 1 .. until - from : SubSeq(c, from + 1, until)[i] = c[from + i]
          /\ \A i \in 1 .. until - from : SubSeq(s, from + 1, until)[i] = s[from + i]
        BY <1>2, <2>1, SubSeqProperties
    <2>3. \A i \in 1 .. until - from : c[from + i] = s[from + i]
        BY <1>2, <2>1
    <2> QED  BY <2>2, <2>3, SeqEqual
<1>5. SubSeq(c, from + 1, Len(c)) = SubSeq(s, from + 1, Len(s)) \o t
    <2> DEFINE a == SubSeq(s, from + 1, Len(s))
               b == SubSeq(c, from + 1, Len(c))
    <2>1. /\ a \in Seq(S) /\ Len(a) = Len(s) - from
          /\ \A i \in 1 .. Len(s) - from : a[i] = s[from + i]
        BY <1>2, <1>3, SubSeqProperties
    <2>2. /\ b \in Seq(S) /\ Len(b) = Len(s) + Len(t) - from
          /\ \A i \in 1 .. Len(s) + Len(t) - from : b[i] = c[from + i]
        BY <1>1, <1>2, <1>3, SubSeqProperties
    <2> HIDE DEF a, b
    <2>3. /\ a \o t \in Seq(S) /\ Len(a \o t) = Len(a) + Len(t)
          /\ \A i \in 1 .. Len(a) + Len(t) : (a \o t)[i] = (IF i <= Len(a) THEN a[i] ELSE t[i - Len(a)])
        BY <2>1, ConcatProperties
    <2>4. \A i \in 1 .. Len(b) : b[i] = (a \o t)[i]
        <3> SUFFICES ASSUME NEW i \in 1 .. Len(b) PROVE b[i] = (a \o t)[i]
            OBVIOUS
        <3>1. CASE i <= Len(a)
            <4>1. i \in 1 .. Len(s) - from /\ from + i \in 1 .. Len(s)
                BY <1>2, <2>1, <2>2, <3>1
            <4>2. b[i] = c[from + i] /\ c[from + i] = s[from + i] /\ (a \o t)[i] = s[from + i]
                BY <1>1, <1>2, <2>1, <2>2, <2>3, <3>1, <4>1
            <4> QED  BY <4>2
        <3>2. CASE i > Len(a)
            <4>1. /\ i \in Nat /\ i - Len(a) \in 1 .. Len(t) /\ ~(i <= Len(a))
                  /\ from + i \in 1 .. Len(s) + Len(t) /\ ~(from + i <= Len(s))
                  /\ i - Len(a) = from + i - Len(s)
                BY <1>2, <2>1, <2>2, <3>2
            <4>2. b[i] = c[from + i]  BY <2>2
            <4>3. c[from + i] = t[from + i - Len(s)]  BY <1>1, <4>1
            <4>4. (a \o t)[i] = t[i - Len(a)]
                <5>1. i \in 1 .. Len(a) + Len(t)  BY <1>2, <2>1, <4>1
                <5> QED  BY <2>3, <4>1, <5>1
            <4> QED  BY <4>1, <4>2, <4>3, <4>4
        <3> QED  BY <1>2, <2>1, <2>2, <3>1, <3>2
    <2>5. Len(b) = Len(a \o t)
        BY <1>2, <2>1, <2>2, <2>3
    <2> QED  BY <2>2, <2>3, <2>4, <2>5, SeqEqual DEF a, b
<1> QED  BY <1>4, <1>5 DEF c

\* A subscription: what it is, since when, and until when it was there.
Moment == [heads : 0 .. Len(heads), lists : 0 .. Len(lists)]
SubscriptionForm(s) ==
    /\ s = [name |-> s.name, query |-> s.query, from |-> s.from, until |-> s.until]
    /\ s.name \in {"newHeads", "syncing", "logs"}
    /\ s.name = "logs" => s.query \in LogQuery
    /\ s.from \in Moment
    /\ \/ s.until = {}
       \/ \E m \in Moment : s.until = {m} /\ s.from.heads <= m.heads

\* Where the connection keeps it.
Kept(id, s) ==
    /\ id \in newHeadsIds <=> s.name = "newHeads" /\ s.until = {}
    /\ id \in syncingIds <=> s.name = "syncing" /\ s.until = {}
    /\ logsQueryMaps[id] = (IF s.name = "logs" /\ s.until = {} THEN {s.query} ELSE {})

LogNote == [list : Nat, logs : SUBSET UNION Batch]

\* What was sent and what is on its way.
LogsKept(id, s) ==
    /\ outbox[id] \in Seq(LogNote)
    /\ PlainFilter(s.query) =>
         /\ LogsDelivered(id, s)
         /\ \A d \in delivering : d.id = id => d.logs = Selected(s, d.list)
SentOK(id, s) ==
    /\ s.name = "newHeads" => outbox[id] = SubSeq(heads, s.from.heads + 1, Until(s).heads)
    /\ s.name = "syncing" => outbox[id] = <<>>
    /\ s.name = "logs" => LogsKept(id, s)
    /\ s.name # "logs" => Waiting(id) = {}

IdOK(id) ==
    /\ during[id] = {} =>
         /\ ~Subscribed(id) /\ outbox[id] = <<>> /\ Waiting(id) = {} /\ Failed(id) = {}
    /\ \A s \in during[id] : during[id] = {s} /\ SubscriptionForm(s) /\ Kept(id, s) /\ SentOK(id, s)

ConnectionOK ==
    /\ open \in BOOLEAN
    /\ newHeadsIds \subseteq SubscriptionId /\ syncingIds \subseteq SubscriptionId
    /\ logsQueryMaps \in [SubscriptionId -> SUBSET LogQuery]
    /\ heads \in Seq(EthNewHead) /\ lists \in Seq(Batch)
    /\ DOMAIN outbox = SubscriptionId /\ DOMAIN during = SubscriptionId
    /\ outbox = [id \in SubscriptionId |-> outbox[id]]
    /\ during = [id \in SubscriptionId |-> during[id]]
    /\ \A d \in delivering :
         /\ d = [id |-> d.id, list |-> d.list, logs |-> d.logs]
         /\ d.id \in SubscriptionId /\ d.list \in 1 .. Len(lists) /\ d.logs \subseteq UNION Batch

SubscriptionInv == ConnectionOK /\ \A id \in SubscriptionId : IdOK(id)

LEMMA SubscribedExactly == SubscriptionInv => SubscriptionsExact
BY DEF SubscriptionInv, IdOK, SentOK, LogsKept, SubscriptionsExact

\* The present is a moment.
LEMMA MomentNow ==
    ASSUME ConnectionOK
    PROVE  /\ Len(heads) \in Nat /\ Len(lists) \in Nat /\ Now \in Moment
           /\ Now.heads = Len(heads) /\ Now.lists = Len(lists)
<1>1. Len(heads) \in Nat /\ Len(lists) \in Nat
    BY LenProperties DEF ConnectionOK
<1> QED  BY <1>1 DEF Now, Moment

\* Nothing is subscribed at first.
LEMMA SubscriptionStarts == SubscriptionInit => SubscriptionInv
<1> SUFFICES ASSUME SubscriptionInit PROVE SubscriptionInv
    OBVIOUS
<1>1. ConnectionOK
    <2>1. <<>> \in Seq(EthNewHead) /\ <<>> \in Seq(Batch)  BY EmptySeq
    <2> QED  BY <2>1 DEF SubscriptionInit, ConnectionOK
<1>2. ASSUME NEW id \in SubscriptionId PROVE IdOK(id)
    BY DEF SubscriptionInit, IdOK, Subscribed, Waiting, Failed
<1> QED  BY <1>1, <1>2 DEF SubscriptionInv

\* A step that leaves a subscription's own state alone.
Rests(id) ==
    /\ outbox'[id] = outbox[id] /\ during'[id] = during[id]
    /\ (id \in newHeadsIds') = (id \in newHeadsIds) /\ (id \in syncingIds') = (id \in syncingIds)
    /\ logsQueryMaps'[id] = logsQueryMaps[id]
    /\ \A d : d.id = id => (d \in delivering' <=> d \in delivering)
    /\ \A l : l.id = id => (l \in lost' <=> l \in lost)

\* What was selected stays selected, and so does what is due when nothing
\* arrives.
LEMMA SelectedSame ==
    ASSUME lists' = lists
    PROVE  /\ \A s, list : Selected(s, list)' = Selected(s, list)
           /\ heads' = heads => \A s : Due(s)' = Due(s) /\ Until(s)' = Until(s)
BY DEF Selected, Due, Until, Now

\* What is on its way, lost or sent for an id depends on its own lists only.
LEMMA SameWaiting ==
    ASSUME NEW id, Rests(id)
    PROVE  Waiting(id)' = Waiting(id) /\ Failed(id)' = Failed(id) /\ Sent(id)' = Sent(id)
<1>1. {d \in delivering' : d.id = id} = {d \in delivering : d.id = id}
    BY DEF Rests
<1>2. {l \in lost' : l.id = id} = {l \in lost : l.id = id}
    BY DEF Rests
<1> QED  BY <1>1, <1>2 DEF Rests, Waiting, Failed, Sent

\* A step that does not touch an id keeps what is known of it.
LEMMA IdRests ==
    ASSUME NEW id, IdOK(id), Rests(id), heads' = heads, lists' = lists, open' => open
    PROVE  IdOK(id)'
<1>1. /\ Waiting(id)' = Waiting(id) /\ Failed(id)' = Failed(id) /\ Sent(id)' = Sent(id)
      /\ outbox'[id] = outbox[id] /\ during'[id] = during[id]
      /\ Subscribed(id)' <=> Subscribed(id)
    BY SameWaiting DEF Rests, Subscribed
<1>2. /\ \A s, list : Selected(s, list)' = Selected(s, list)
      /\ \A s : Due(s)' = Due(s) /\ Until(s)' = Until(s)
    BY SelectedSame
<1>3. Moment' = Moment
    BY DEF Moment
<1>4. ASSUME NEW s \in during[id]
      PROVE  SubscriptionForm(s)' /\ Kept(id, s)' /\ SentOK(id, s)'
    <2>1. SubscriptionForm(s) /\ Kept(id, s) /\ SentOK(id, s)
        BY <1>4 DEF IdOK
    <2>2. SubscriptionForm(s)'
        BY <1>3, <2>1 DEF SubscriptionForm
    <2>3. Kept(id, s)'
        BY <2>1 DEF Kept, Rests
    <2>4. LogsDelivered(id, s) => LogsDelivered(id, s)'
        BY <1>1, <1>2 DEF LogsDelivered
    <2>5. LogsKept(id, s) => LogsKept(id, s)'
        BY <1>1, <1>2, <2>4 DEF LogsKept, Rests
    <2>6. SentOK(id, s)'
        BY <1>1, <1>2, <2>1, <2>5 DEF SentOK
    <2> QED  BY <2>2, <2>3, <2>6
<1> QED  BY <1>1, <1>4 DEF IdOK

LEMMA OnSubscribe == SubscriptionInv /\ EthSubscribe => SubscriptionInv'
<1> SUFFICES ASSUME SubscriptionInv, EthSubscribe PROVE SubscriptionInv'
    OBVIOUS
<1>1. PICK new \in SubscriptionId, name \in {"newHeads", "syncing", "logs"} : \E query :
         /\ during[new] = {}
         /\ name = "logs" => query \in LogQuery
         /\ Registers(new, name, query)
         /\ newHeadsIds' = IF name = "newHeads" THEN newHeadsIds \cup {new} ELSE newHeadsIds
         /\ syncingIds' = IF name = "syncing" THEN syncingIds \cup {new} ELSE syncingIds
         /\ logsQueryMaps' = IF name = "logs" THEN [logsQueryMaps EXCEPT ![new] = {query}] ELSE logsQueryMaps
    BY DEF EthSubscribe, newSubscriptionId
<1>2. PICK query :
         /\ during[new] = {}
         /\ name = "logs" => query \in LogQuery
         /\ Registers(new, name, query)
         /\ newHeadsIds' = IF name = "newHeads" THEN newHeadsIds \cup {new} ELSE newHeadsIds
         /\ syncingIds' = IF name = "syncing" THEN syncingIds \cup {new} ELSE syncingIds
         /\ logsQueryMaps' = IF name = "logs" THEN [logsQueryMaps EXCEPT ![new] = {query}] ELSE logsQueryMaps
    BY <1>1
<1>3. UNCHANGED <<open, delivering, outbox, heads, lists, lost>>
    BY DEF EthSubscribe
<1>0. PICK s : s = [name |-> name, query |-> query, from |-> Now, until |-> {}]
    OBVIOUS
<1>4. /\ DOMAIN during' = SubscriptionId /\ during' = [id \in SubscriptionId |-> during'[id]]
      /\ during'[new] = {s}
      /\ \A id \in SubscriptionId : id # new => during'[id] = during[id]
    BY <1>0, <1>2 DEF Registers, SubscriptionInv, ConnectionOK
<1>5. /\ logsQueryMaps' \in [SubscriptionId -> SUBSET LogQuery]
      /\ logsQueryMaps'[new] = (IF name = "logs" THEN {query} ELSE logsQueryMaps[new])
      /\ \A id \in SubscriptionId : id # new => logsQueryMaps'[id] = logsQueryMaps[id]
    <2>1. CASE name = "logs"  BY <1>2, <2>1 DEF SubscriptionInv, ConnectionOK
    <2>2. CASE name # "logs"  BY <1>2, <2>2 DEF SubscriptionInv, ConnectionOK
    <2> QED  BY <2>1, <2>2
<1>6. ConnectionOK'
    <2>1. newHeadsIds' \subseteq SubscriptionId /\ syncingIds' \subseteq SubscriptionId
        BY <1>2 DEF SubscriptionInv, ConnectionOK
    <2> QED  BY <1>3, <1>4, <1>5, <2>1 DEF SubscriptionInv, ConnectionOK
<1>7. ASSUME NEW id \in SubscriptionId, id # new PROVE IdOK(id)'
    <2>1. Rests(id)
        <3>1. /\ (id \in newHeadsIds') = (id \in newHeadsIds)
              /\ (id \in syncingIds') = (id \in syncingIds)
            BY <1>2, <1>7
        <3> QED  BY <1>3, <1>4, <1>5, <1>7, <3>1 DEF Rests
    <2> QED  BY <1>3, <2>1, IdRests DEF SubscriptionInv
<1>8. IdOK(new)'
    <2>1. /\ new \notin newHeadsIds /\ new \notin syncingIds /\ logsQueryMaps[new] = {}
          /\ outbox[new] = <<>> /\ Waiting(new) = {} /\ Failed(new) = {}
        BY <1>2 DEF SubscriptionInv, IdOK, Subscribed
    <2>2. /\ s.name = name /\ s.query = query /\ s.from = Now /\ s.until = {}
          /\ s = [name |-> s.name, query |-> s.query, from |-> s.from, until |-> s.until]
        BY <1>0
    <2>3. /\ Now \in Moment /\ Now.heads = Len(heads) /\ Now.lists = Len(lists)
          /\ Len(heads) \in Nat /\ Len(lists) \in Nat /\ Now' = Now /\ Moment' = Moment
        BY <1>3, MomentNow DEF SubscriptionInv, Now, Moment
    <2>4. SubscriptionForm(s)'
        BY <1>2, <2>2, <2>3 DEF SubscriptionForm
    <2>5. Kept(new, s)'
        BY <1>2, <1>5, <2>1, <2>2 DEF Kept
    <2>6. outbox'[new] = <<>> /\ Waiting(new)' = {} /\ Failed(new)' = {} /\ Sent(new)' = {}
        <3>1. Waiting(new)' = {} /\ Failed(new)' = {}  BY <1>3, <2>1 DEF Waiting, Failed
        <3>2. DOMAIN <<>> = {}  OBVIOUS
        <3> QED  BY <1>3, <2>1, <3>1, <3>2 DEF Sent
    <2>7. Until(s)' = Now
        BY <2>2, <2>3 DEF Until
    <2>8. Due(s)' = {}
        BY <2>2, <2>3, <2>7 DEF Due
    <2>9. SubSeq(heads', s.from.heads + 1, Until(s)'.heads) = <<>>
        BY <1>3, <2>2, <2>3, <2>7, SubSeqEmpty
    <2>10. LogsKept(new, s)'
        <3>1. \A d \in delivering' : d.id # new
            BY <2>6 DEF Waiting
        <3>2. <<>> \in Seq(LogNote) /\ DOMAIN <<>> = {}
            BY EmptySeq
        <3>3. LogsDelivered(new, s)'
            BY <2>6, <2>8, <3>2 DEF LogsDelivered
        <3> QED  BY <2>6, <3>1, <3>2, <3>3 DEF LogsKept
    <2>11. SentOK(new, s)'
        BY <2>6, <2>9, <2>10 DEF SentOK
    <2> QED  BY <1>4, <2>4, <2>5, <2>11 DEF IdOK
<1> QED  BY <1>6, <1>7, <1>8 DEF SubscriptionInv

LEMMA OnUnsubscribe == SubscriptionInv /\ EthUnsubscribe => SubscriptionInv'
<1> SUFFICES ASSUME SubscriptionInv, EthUnsubscribe PROVE SubscriptionInv'
    OBVIOUS
<1>1. PICK old \in SubscriptionId :
         /\ Subscribed(old) /\ Ends(old)
         /\ newHeadsIds' = newHeadsIds \ {old}
         /\ syncingIds' = syncingIds \ {old}
         /\ logsQueryMaps' = [logsQueryMaps EXCEPT ![old] = {}]
    BY DEF EthUnsubscribe
<1>2. UNCHANGED <<open, delivering, outbox, heads, lists, lost>>
    BY DEF EthUnsubscribe
<1>3. PICK s : during[old] = {s} /\ SubscriptionForm(s) /\ Kept(old, s) /\ SentOK(old, s)
    <2>1. during[old] # {}
        BY <1>1 DEF SubscriptionInv, IdOK
    <2> QED  BY <2>1 DEF SubscriptionInv, IdOK
<1>4. s.until = {}
    BY <1>1, <1>3 DEF Subscribed, Kept
<1>0. PICK ended : ended = [s EXCEPT !.until = {Now}]
    OBVIOUS
<1>5. /\ DOMAIN during' = SubscriptionId /\ during' = [id \in SubscriptionId |-> during'[id]]
      /\ during'[old] = {ended}
      /\ \A id \in SubscriptionId : id # old => during'[id] = during[id]
    BY <1>0, <1>1, <1>3 DEF Ends, SubscriptionInv, ConnectionOK
<1>6. /\ ended.name = s.name /\ ended.query = s.query /\ ended.from = s.from /\ ended.until = {Now}
      /\ ended = [name |-> ended.name, query |-> ended.query, from |-> ended.from, until |-> ended.until]
    <2>1. s = [name |-> s.name, query |-> s.query, from |-> s.from, until |-> s.until]
        BY <1>3 DEF SubscriptionForm
    <2> QED  BY <1>0, <2>1
<1>7. /\ logsQueryMaps' \in [SubscriptionId -> SUBSET LogQuery] /\ logsQueryMaps'[old] = {}
      /\ \A id \in SubscriptionId : id # old => logsQueryMaps'[id] = logsQueryMaps[id]
    BY <1>1 DEF SubscriptionInv, ConnectionOK
<1>8. ConnectionOK'
    BY <1>1, <1>2, <1>5, <1>7 DEF SubscriptionInv, ConnectionOK
<1>9. ASSUME NEW id \in SubscriptionId, id # old PROVE IdOK(id)'
    <2>1. Rests(id)
        <3>1. /\ (id \in newHeadsIds') = (id \in newHeadsIds)
              /\ (id \in syncingIds') = (id \in syncingIds)
            BY <1>1, <1>9
        <3> QED  BY <1>2, <1>5, <1>7, <1>9, <3>1 DEF Rests
    <2> QED  BY <1>2, <2>1, IdRests DEF SubscriptionInv
<1>10. IdOK(old)'
    <2>1. /\ Now \in Moment /\ Now' = Now /\ Moment' = Moment /\ Now.heads = Len(heads)
        BY <1>2, MomentNow DEF SubscriptionInv, Now, Moment
    <2>2. Until(ended)' = Now /\ Until(s) = Now
        BY <1>4, <1>6 DEF Until
    <2>3. SubscriptionForm(ended)'
        <3>1. s.from.heads <= Now.heads
            BY <1>3, <2>1 DEF SubscriptionForm, Moment
        <3> QED  BY <1>3, <1>6, <2>1, <3>1 DEF SubscriptionForm
    <2>4. Kept(old, ended)'
        BY <1>1, <1>6, <1>7 DEF Kept
    <2>5. \A list : Selected(ended, list)' = Selected(s, list)
        BY <1>2, <1>6 DEF Selected, RuleMatches
    <2>6. Due(ended)' = Due(s)
        BY <1>6, <2>2, <2>5 DEF Due
    <2>7. Waiting(old)' = Waiting(old) /\ Failed(old)' = Failed(old) /\ Sent(old)' = Sent(old)
        BY <1>2 DEF Waiting, Failed, Sent
    <2>8. LogsDelivered(old, s) => LogsDelivered(old, ended)'
        BY <1>2, <2>5, <2>6, <2>7 DEF LogsDelivered
    <2>9. LogsKept(old, s) => LogsKept(old, ended)'
        BY <1>2, <1>6, <2>5, <2>8 DEF LogsKept
    <2>10. SentOK(old, ended)'
        BY <1>2, <1>3, <1>6, <2>2, <2>7, <2>9 DEF SentOK
    <2> QED  BY <1>5, <2>3, <2>4, <2>10 DEF IdOK
<1> QED  BY <1>8, <1>9, <1>10 DEF SubscriptionInv

\* A form stays one while more arrives.
LEMMA FormStays ==
    ASSUME NEW s, SubscriptionForm(s),
           Len(heads) \in Nat, Len(heads') \in Nat, Len(heads) <= Len(heads'),
           Len(lists) \in Nat, Len(lists') \in Nat, Len(lists) <= Len(lists')
    PROVE  SubscriptionForm(s)'
<1>1. Moment \subseteq Moment'
    BY DEF Moment
<1> QED  BY <1>1 DEF SubscriptionForm

\* What ended has heard what it had heard then.
LEMMA UntilWithin ==
    ASSUME ConnectionOK, NEW s, SubscriptionForm(s)
    PROVE  /\ s.from.heads \in 0 .. Len(heads) /\ s.from.lists \in 0 .. Len(lists)
           /\ Until(s).heads \in s.from.heads .. Len(heads) /\ Until(s).lists \in 0 .. Len(lists)
           /\ s.until # {} => Until(s)' = Until(s)
           /\ s.until = {} => Until(s) = Now /\ Until(s)' = Now'
<1>1. /\ Len(heads) \in Nat /\ Len(lists) \in Nat /\ Now \in Moment
      /\ Now.heads = Len(heads) /\ Now.lists = Len(lists)
    BY MomentNow
<1>2. s.from.heads \in 0 .. Len(heads) /\ s.from.lists \in 0 .. Len(lists)
    BY DEF SubscriptionForm, Moment
<1>3. CASE s.until = {}
    <2>1. Until(s) = Now /\ Until(s)' = Now'
        BY <1>3 DEF Until
    <2> QED  BY <1>1, <1>2, <1>3, <2>1
<1>4. CASE s.until # {}
    <2>1. PICK m \in Moment : s.until = {m} /\ s.from.heads <= m.heads
        BY <1>4 DEF SubscriptionForm
    <2>2. Until(s) = m /\ Until(s)' = m
        BY <2>1 DEF Until
    <2>3. m.heads \in 0 .. Len(heads) /\ m.lists \in 0 .. Len(lists)
        BY DEF Moment
    <2> QED  BY <1>1, <1>2, <1>4, <2>1, <2>2, <2>3
<1> QED  BY <1>3, <1>4

\* How much has arrived, before and after a step.
LEMMA NowCounts ==
    Now.heads = Len(heads) /\ Now'.heads = Len(heads') /\ Now.lists = Len(lists) /\ Now'.lists = Len(lists')
BY DEF Now

LEMMA OnHeads == SubscriptionInv /\ BlockListener => SubscriptionInv'
<1> SUFFICES ASSUME SubscriptionInv, BlockListener PROVE SubscriptionInv'
    OBVIOUS
<1>1. PICK list \in Heads :
         /\ heads' = heads \o list
         /\ outbox' = [id \in SubscriptionId |->
                         IF id \in newHeadsIds THEN outbox[id] \o list ELSE outbox[id]]
    BY DEF BlockListener
<1>2. UNCHANGED <<open, newHeadsIds, syncingIds, logsQueryMaps, delivering, lists, during, lost>>
    BY DEF BlockListener
<1>3. ConnectionOK /\ heads \in Seq(EthNewHead) /\ list \in Seq(EthNewHead)
    BY SubscriptionAssumption DEF SubscriptionInv, ConnectionOK
<1>4. /\ heads' \in Seq(EthNewHead) /\ Len(heads') \in Nat /\ Len(heads) \in Nat
      /\ Len(heads) <= Len(heads')
    <2>1. heads' \in Seq(EthNewHead) /\ Len(heads') = Len(heads) + Len(list)
        BY <1>1, <1>3, ConcatProperties
    <2>2. Len(heads) \in Nat /\ Len(list) \in Nat
        BY <1>3, LenProperties
    <2> QED  BY <2>1, <2>2
<1>5. ConnectionOK'
    BY <1>1, <1>2, <1>3, <1>4 DEF ConnectionOK
<1>6. Len(lists) \in Nat /\ lists' = lists
    BY <1>2, <1>3, MomentNow
<1>7. ASSUME NEW id \in SubscriptionId PROVE IdOK(id)'
    <2>1. /\ during'[id] = during[id] /\ (Subscribed(id)' <=> Subscribed(id))
          /\ Waiting(id)' = Waiting(id) /\ Failed(id)' = Failed(id)
        BY <1>2 DEF Subscribed, Waiting, Failed
    <2>2. outbox'[id] = (IF id \in newHeadsIds THEN outbox[id] \o list ELSE outbox[id])
        BY <1>1
    <2>3. IdOK(id)
        BY DEF SubscriptionInv
    <2>4. during[id] = {} => outbox'[id] = outbox[id]
        BY <2>2, <2>3 DEF IdOK, Subscribed
    <2>5. ASSUME NEW s \in during[id]
          PROVE  SubscriptionForm(s)' /\ Kept(id, s)' /\ SentOK(id, s)'
        <3>1. SubscriptionForm(s) /\ Kept(id, s) /\ SentOK(id, s)
            BY <2>3, <2>5 DEF IdOK
        <3>2. SubscriptionForm(s)'
            BY <1>4, <1>6, <3>1, FormStays
        <3>3. Kept(id, s)'
            BY <1>2, <3>1 DEF Kept
        <3>4. /\ s.from.heads \in 0 .. Len(heads)
              /\ Until(s).heads \in s.from.heads .. Len(heads)
              /\ s.until # {} => Until(s)' = Until(s)
              /\ s.until = {} => Until(s) = Now /\ Until(s)' = Now'
              /\ Now.heads = Len(heads) /\ Now'.heads = Len(heads') /\ Now'.lists = Now.lists
            BY <1>2, <1>3, <3>1, UntilWithin, NowCounts
        <3>5. CASE s.name = "newHeads"
            <4>1. outbox[id] = SubSeq(heads, s.from.heads + 1, Until(s).heads)
                BY <3>1, <3>5 DEF SentOK
            <4>2. CASE s.until = {}
                <5>1. outbox'[id] = outbox[id] \o list
                    BY <2>2, <3>1, <3>5, <4>2 DEF Kept
                <5>2. SubSeq(heads', s.from.heads + 1, Len(heads')) =
                        SubSeq(heads, s.from.heads + 1, Len(heads)) \o list
                    BY <1>1, <1>3, <3>4, HeardGrows
                <5> QED  BY <2>1, <3>1, <3>4, <3>5, <4>1, <4>2, <5>1, <5>2, <3>2, <3>3 DEF SentOK
            <4>3. CASE s.until # {}
                <5>1. outbox'[id] = outbox[id]
                    BY <2>2, <3>1, <3>5, <4>3 DEF Kept
                <5>2. SubSeq(heads', s.from.heads + 1, Until(s).heads) =
                        SubSeq(heads, s.from.heads + 1, Until(s).heads)
                    BY <1>1, <1>3, <3>4, HeardGrows
                <5> QED  BY <2>1, <3>1, <3>4, <3>5, <4>1, <4>3, <5>1, <5>2, <3>2, <3>3 DEF SentOK
            <4> QED  BY <4>2, <4>3
        <3>6. CASE s.name # "newHeads"
            <4>1. outbox'[id] = outbox[id]
                BY <2>2, <3>1, <3>6 DEF Kept
            <4>2. Until(s)'.lists = Until(s).lists
                BY <3>4
            <4>3. \A n : Selected(s, n)' = Selected(s, n)
                BY <1>6, SelectedSame
            <4>4. Due(s)' = Due(s)
                BY <4>2, <4>3 DEF Due
            <4>5. Sent(id)' = Sent(id)
                BY <4>1 DEF Sent
            <4>6. LogsDelivered(id, s) => LogsDelivered(id, s)'
                BY <1>2, <2>1, <4>1, <4>3, <4>4, <4>5 DEF LogsDelivered
            <4>7. LogsKept(id, s) => LogsKept(id, s)'
                BY <1>2, <4>1, <4>3, <4>6 DEF LogsKept
            <4> QED  BY <2>1, <3>1, <3>6, <4>1, <4>7, <3>2, <3>3 DEF SentOK
        <3> QED  BY <3>2, <3>3, <3>5, <3>6
    <2> QED  BY <2>1, <2>3, <2>4, <2>5 DEF IdOK
<1> QED  BY <1>5, <1>7 DEF SubscriptionInv

\* What a list of logs makes wait.
LEMMA DeliveriesOf ==
    ASSUME NEW logs, NEW n, NEW d
    PROVE  d \in Deliveries(logs, n) <=>
             \E id \in SubscriptionId : \E query \in logsQueryMaps[id] :
                d = [id |-> id, list |-> n, logs |-> Matching(logs, query)]
BY DEF Deliveries

LEMMA OnLogs == SubscriptionInv /\ LogsListener => SubscriptionInv'
<1> SUFFICES ASSUME SubscriptionInv, LogsListener PROVE SubscriptionInv'
    OBVIOUS
<1>0. PICK n : n = Len(lists) + 1
    OBVIOUS
<1>1. PICK logs \in Batch :
         /\ lists' = Append(lists, logs)
         /\ delivering' = delivering \cup {d \in Deliveries(logs, n) : d.logs # {}}
    BY <1>0 DEF LogsListener
<1>2. UNCHANGED <<open, newHeadsIds, syncingIds, logsQueryMaps, outbox, heads, during, lost>>
    BY DEF LogsListener
<1>3. /\ ConnectionOK /\ Len(lists) \in Nat /\ Len(heads) \in Nat /\ n \in Nat /\ Now.lists = Len(lists)
      /\ lists' \in Seq(Batch) /\ Len(lists') = n /\ lists'[n] = logs
      /\ \A l \in 1 .. Len(lists) : lists'[l] = lists[l]
    <2>1. ConnectionOK /\ lists \in Seq(Batch)
        BY DEF SubscriptionInv, ConnectionOK
    <2>2. Len(lists) \in Nat /\ Len(heads) \in Nat /\ Now.lists = Len(lists)
        BY <2>1, MomentNow
    <2> QED  BY <1>0, <1>1, <2>1, <2>2, AppendProperties
<1>4. \A log \in logs : LogForm(log)
    BY SubscriptionAssumption
<1>5. \A id \in SubscriptionId : \A query \in logsQueryMaps[id] : Matching(logs, query) \subseteq logs
    BY DEF Matching, filterLogsByTopics, filterLogsByAddress
<1>6. ConnectionOK'
    <2>1. ASSUME NEW d \in delivering'
          PROVE  /\ d = [id |-> d.id, list |-> d.list, logs |-> d.logs]
                 /\ d.id \in SubscriptionId /\ d.list \in 1 .. n /\ d.logs \subseteq UNION Batch
        <3>1. CASE d \in delivering
            BY <1>0, <1>3, <3>1 DEF ConnectionOK
        <3>2. CASE d \in Deliveries(logs, n)
            <4>1. PICK id \in SubscriptionId : \E query \in logsQueryMaps[id] :
                     d = [id |-> id, list |-> n, logs |-> Matching(logs, query)]
                BY <3>2, DeliveriesOf
            <4>2. PICK query \in logsQueryMaps[id] :
                     d = [id |-> id, list |-> n, logs |-> Matching(logs, query)]
                BY <4>1
            <4> QED  BY <1>0, <1>3, <1>5, <4>2
        <3> QED  BY <1>1, <2>1, <3>1, <3>2
    <2> QED  BY <1>2, <1>3, <2>1 DEF ConnectionOK
<1>7. ASSUME NEW id \in SubscriptionId PROVE IdOK(id)'
    <2>1. /\ during'[id] = during[id] /\ (Subscribed(id)' <=> Subscribed(id))
          /\ outbox'[id] = outbox[id] /\ Failed(id)' = Failed(id) /\ Sent(id)' = Sent(id)
        BY <1>2 DEF Subscribed, Failed, Sent
    <2>2. IdOK(id)
        BY DEF SubscriptionInv
    <2>3. \A d : d \in delivering' /\ d.id = id <=>
            \/ d \in delivering /\ d.id = id
            \/ \E query \in logsQueryMaps[id] :
                 /\ Matching(logs, query) # {}
                 /\ d = [id |-> id, list |-> n, logs |-> Matching(logs, query)]
        <3>1. \A d : d \in Deliveries(logs, n) /\ d.id = id <=>
                \E query \in logsQueryMaps[id] :
                   d = [id |-> id, list |-> n, logs |-> Matching(logs, query)]
            BY DeliveriesOf
        <3>2. \A d : d \in delivering' <=> d \in delivering \/ (d \in Deliveries(logs, n) /\ d.logs # {})
            BY <1>1
        <3> QED  BY <3>1, <3>2
    <2>4. logsQueryMaps[id] = {} => Waiting(id)' = Waiting(id)
        <3>1. logsQueryMaps[id] = {} => {d \in delivering' : d.id = id} = {d \in delivering : d.id = id}
            BY <2>3
        <3> QED  BY <3>1 DEF Waiting
    <2>5. during[id] = {} => logsQueryMaps[id] = {}
        BY <2>2 DEF IdOK, Subscribed
    <2>6. ASSUME NEW s \in during[id]
          PROVE  SubscriptionForm(s)' /\ Kept(id, s)' /\ SentOK(id, s)'
        <3>1. SubscriptionForm(s) /\ Kept(id, s) /\ SentOK(id, s)
            BY <2>2, <2>6 DEF IdOK
        <3>2. SubscriptionForm(s)'
            BY <1>0, <1>2, <1>3, <3>1, FormStays
        <3>3. Kept(id, s)'
            BY <1>2, <3>1 DEF Kept
        <3>4. /\ s.from.lists \in 0 .. Len(lists) /\ Until(s).lists \in 0 .. Len(lists)
              /\ Until(s)'.heads = Until(s).heads
              /\ s.until # {} => Until(s)'.lists = Until(s).lists
              /\ s.until = {} => Until(s).lists = Len(lists) /\ Until(s)'.lists = n
            <4>1. /\ s.from.lists \in 0 .. Len(lists) /\ Until(s).lists \in 0 .. Len(lists)
                  /\ s.until # {} => Until(s)' = Until(s)
                  /\ s.until = {} => Until(s) = Now /\ Until(s)' = Now'
                BY <1>3, <3>1, UntilWithin
            <4>2. Now'.lists = n /\ Now'.heads = Now.heads
                BY <1>2, <1>3 DEF Now
            <4> QED  BY <1>3, <4>1, <4>2
        <3>5. CASE s.name # "logs"
            <4>1. Waiting(id)' = Waiting(id)
                BY <2>4, <3>1, <3>5 DEF Kept
            <4> QED  BY <1>2, <2>1, <3>1, <3>2, <3>3, <3>4, <3>5, <4>1 DEF SentOK
        <3>6. CASE s.name = "logs"
            <4>1. LogsKept(id, s)
                BY <3>1, <3>6 DEF SentOK
            <4>2. ASSUME PlainFilter(s.query)
                  PROVE  LogsDelivered(id, s)' /\ \A d \in delivering' : d.id = id => d.logs = Selected(s, d.list)'
                <5>1. LogsDelivered(id, s) /\ \A d \in delivering : d.id = id => d.logs = Selected(s, d.list)
                    BY <4>1, <4>2 DEF LogsKept
                <5>2. \A l \in 1 .. Len(lists) : Selected(s, l)' = Selected(s, l)
                    BY <1>3 DEF Selected
                <5>3. Matching(logs, s.query) = Selected(s, n)'
                    <6>1. s.query \in LogQuery /\ FilterForm(s.query)
                        BY <3>1, <3>6, SubscriptionAssumption DEF SubscriptionForm
                    <6>2. Matching(logs, s.query) = {log \in logs : RuleMatches(log, s.query)}
                        BY <1>4, <4>2, <6>1, MemoryFollowsRule
                    <6> QED  BY <1>3, <6>2 DEF Selected
                <5>4. Due(s) \subseteq 1 .. Len(lists)
                    BY <1>3, <3>4 DEF Due
                <5>5. \A d \in delivering : d.list \in 1 .. Len(lists)
                    BY <1>3 DEF ConnectionOK
                <5>6. \A d \in delivering' : d.id = id => d.logs = Selected(s, d.list)'
                    <6> SUFFICES ASSUME NEW d \in delivering', d.id = id
                                 PROVE  d.logs = Selected(s, d.list)'
                        OBVIOUS
                    <6>1. CASE d \in delivering
                        BY <5>1, <5>2, <5>5, <6>1
                    <6>2. CASE d \notin delivering
                        <7>1. PICK query \in logsQueryMaps[id] :
                                 d = [id |-> id, list |-> n, logs |-> Matching(logs, query)]
                            BY <2>3, <6>2
                        <7>2. query = s.query
                            BY <3>1, <7>1 DEF Kept
                        <7> QED  BY <5>3, <7>1, <7>2
                    <6> QED  BY <6>1, <6>2
                <5>7. \A k \in DOMAIN outbox[id] : outbox[id][k].list \in 1 .. Len(lists)
                    BY <5>1, <5>4 DEF LogsDelivered, Sent
                <5>8. CASE s.until = {} /\ Matching(logs, s.query) # {}
                    <6>1. logsQueryMaps[id] = {s.query}
                        BY <3>1, <3>6, <5>8 DEF Kept
                    <6>2. {d \in delivering' : d.id = id} =
                            {d \in delivering : d.id = id}
                              \cup {[id |-> id, list |-> n, logs |-> Matching(logs, s.query)]}
                        BY <2>3, <5>8, <6>1
                    <6>3. Waiting(id)' = Waiting(id) \cup {n}
                        <7>1. PICK r : r = [id |-> id, list |-> n, logs |-> Matching(logs, s.query)]
                            OBVIOUS
                        <7>2. {d \in delivering' : d.id = id} = {d \in delivering : d.id = id} \cup {r}
                            BY <6>2, <7>1
                        <7>3. r.list = n
                            BY <7>1
                        <7>4. Waiting(id)' = {d.list : d \in {d \in delivering' : d.id = id}}
                            BY DEF Waiting
                        <7>5. \A l : l \in Waiting(id)' <=> l \in Waiting(id) \/ l = n
                            BY <7>2, <7>3, <7>4 DEF Waiting
                        <7> QED  BY <7>5
                    <6>4. Due(s)' = Due(s) \cup {n}
                        <7>1. \A l \in s.from.lists + 1 .. n : Selected(s, l)' # {} <=> l \in Due(s) \cup {n}
                            <8> SUFFICES ASSUME NEW l \in s.from.lists + 1 .. n
                                         PROVE  Selected(s, l)' # {} <=> l \in Due(s) \cup {n}
                                OBVIOUS
                            <8>1. CASE l = n  BY <5>3, <5>8, <8>1
                            <8>2. CASE l # n
                                <9>1. l \in 1 .. Len(lists) /\ l \in s.from.lists + 1 .. Until(s).lists
                                    BY <1>0, <1>3, <3>4, <5>8, <8>2
                                <9> QED  BY <5>2, <8>2, <9>1 DEF Due
                            <8> QED  BY <8>1, <8>2
                        <7>2. Due(s)' = {l \in s.from.lists + 1 .. n : Selected(s, l)' # {}}
                            BY <3>4, <5>8 DEF Due
                        <7>3. Due(s) \cup {n} \subseteq s.from.lists + 1 .. n
                            BY <1>0, <1>3, <3>4 DEF Due
                        <7> QED  BY <7>1, <7>2, <7>3
                    <6>5. n \notin 1 .. Len(lists)
                        BY <1>0, <1>3
                    <6>6. n \notin Sent(id) /\ n \notin Failed(id)
                        BY <5>1, <5>4, <6>5 DEF LogsDelivered
                    <6> QED  BY <1>2, <2>1, <5>1, <5>2, <5>6, <5>7, <6>3, <6>4, <6>6 DEF LogsDelivered
                <5>9. CASE ~(s.until = {} /\ Matching(logs, s.query) # {})
                    <6>1. \A query \in logsQueryMaps[id] : Matching(logs, query) = {}
                        BY <3>1, <3>6, <5>9 DEF Kept
                    <6>2. {d \in delivering' : d.id = id} = {d \in delivering : d.id = id}
                        BY <2>3, <6>1
                    <6>3. Waiting(id)' = Waiting(id)
                        BY <6>2 DEF Waiting
                    <6>4. Due(s)' = Due(s)
                        <7>1. CASE s.until # {}
                            <8>1. \A l \in s.from.lists + 1 .. Until(s).lists : Selected(s, l)' = Selected(s, l)
                                BY <1>3, <3>4, <5>2
                            <8> QED  BY <3>4, <7>1, <8>1 DEF Due
                        <7>2. CASE s.until = {}
                            <8>1. Selected(s, n)' = {}
                                BY <5>3, <5>9, <7>2
                            <8>2. \A l \in s.from.lists + 1 .. Len(lists) : Selected(s, l)' = Selected(s, l)
                                BY <1>3, <3>4, <5>2
                            <8>3. s.from.lists + 1 .. n = (s.from.lists + 1 .. Len(lists)) \cup {n}
                                BY <1>0, <1>3, <3>4
                            <8>4. /\ Due(s)' = {l \in s.from.lists + 1 .. n : Selected(s, l)' # {}}
                                  /\ Due(s) = {l \in s.from.lists + 1 .. Len(lists) : Selected(s, l) # {}}
                                BY <3>4, <7>2 DEF Due
                            <8> QED  BY <8>1, <8>2, <8>3, <8>4
                        <7> QED  BY <7>1, <7>2
                    <6> QED  BY <1>2, <2>1, <5>1, <5>2, <5>6, <5>7, <6>3, <6>4 DEF LogsDelivered
                <5> QED  BY <5>8, <5>9
            <4>3. LogsKept(id, s)'
                BY <2>1, <4>1, <4>2 DEF LogsKept
            <4> QED  BY <3>2, <3>3, <3>6, <4>3 DEF SentOK
        <3> QED  BY <3>5, <3>6
    <2> QED  BY <2>1, <2>2, <2>4, <2>5, <2>6 DEF IdOK
<1> QED  BY <1>6, <1>7 DEF SubscriptionInv

\* A list waits once for an id: taking it from the ones on their way.
LEMMA Taken ==
    ASSUME ConnectionOK, NEW id, NEW s, LogsKept(id, s), PlainFilter(s.query),
           NEW d \in delivering, d.id = id, delivering' = delivering \ {d}
    PROVE  /\ d.list \in Waiting(id) /\ d.logs = Selected(s, d.list)
           /\ Waiting(id)' = Waiting(id) \ {d.list}
           /\ \A e \in delivering' : e.id = id => e.logs = Selected(s, e.list)
<1>1. \A e \in delivering : e.id = id => e.logs = Selected(s, e.list)
    BY DEF LogsKept
<1>2. \A e \in delivering : e = [id |-> e.id, list |-> e.list, logs |-> e.logs]
    BY DEF ConnectionOK
<1>3. ASSUME NEW e \in delivering, e.id = id, e.list = d.list PROVE e = d
    BY <1>1, <1>2, <1>3
<1>4. Waiting(id)' = {e.list : e \in {e \in delivering' : e.id = id}}
    BY DEF Waiting
<1>5. \A l : l \in Waiting(id)' <=> l \in Waiting(id) /\ l # d.list
    BY <1>3, <1>4 DEF Waiting
<1>6. d.list \in Waiting(id) /\ d.logs = Selected(s, d.list)
    BY <1>1 DEF Waiting
<1>7. \A e \in delivering' : e.id = id => e.logs = Selected(s, e.list)
    BY <1>1
<1>8. Waiting(id)' = Waiting(id) \ {d.list}
    BY <1>5
<1> QED  BY <1>6, <1>7, <1>8

\* Whose list it is, when one is taken.
LEMMA TakenFrom ==
    ASSUME SubscriptionInv, NEW d \in delivering
    PROVE  /\ d.id \in SubscriptionId /\ d.list \in Nat /\ d.logs \in SUBSET UNION Batch
           /\ \E s : /\ during[d.id] = {s} /\ SubscriptionForm(s) /\ Kept(d.id, s)
                     /\ s.name = "logs" /\ LogsKept(d.id, s)
<1>1. d.id \in SubscriptionId /\ d.list \in 1 .. Len(lists) /\ d.logs \subseteq UNION Batch /\ Len(lists) \in Nat
    BY MomentNow DEF SubscriptionInv, ConnectionOK
<1>2. Waiting(d.id) # {}
    BY DEF Waiting
<1>3. IdOK(d.id)
    BY <1>1 DEF SubscriptionInv
<1>4. PICK s : during[d.id] = {s} /\ SubscriptionForm(s) /\ Kept(d.id, s) /\ SentOK(d.id, s)
    BY <1>2, <1>3 DEF IdOK
<1>5. s.name = "logs" /\ LogsKept(d.id, s)
    BY <1>2, <1>4 DEF SentOK
<1> QED  BY <1>1, <1>4, <1>5

\* What a step that takes a list has to show for its subscription.
LEMMA IdFollows ==
    ASSUME NEW id, NEW s, during[id] = {s}, SubscriptionForm(s), Kept(id, s), s.name = "logs", LogsKept(id, s)',
           UNCHANGED <<newHeadsIds, syncingIds, logsQueryMaps, heads, lists, during>>
    PROVE  IdOK(id)'
<1>1. Moment' = Moment
    BY DEF Moment
<1>2. SubscriptionForm(s)' /\ Kept(id, s)'
    BY <1>1 DEF SubscriptionForm, Kept
<1>3. SentOK(id, s)'
    BY DEF SentOK
<1> QED  BY <1>2, <1>3 DEF IdOK

LEMMA OnSend == SubscriptionInv /\ SendLogs => SubscriptionInv'
<1> SUFFICES ASSUME SubscriptionInv, SendLogs PROVE SubscriptionInv'
    OBVIOUS
<1>1. PICK d \in delivering :
         /\ delivering' = delivering \ {d}
         /\ outbox' = IF open
                      THEN [outbox EXCEPT ![d.id] = Append(@, [list |-> d.list, logs |-> d.logs])]
                      ELSE outbox
    BY DEF SendLogs
<1>2. UNCHANGED <<open, newHeadsIds, syncingIds, logsQueryMaps, heads, lists, during, lost>>
    BY DEF SendLogs
<1>3. ConnectionOK /\ d.id \in SubscriptionId /\ d.list \in Nat /\ d.logs \in SUBSET UNION Batch
    BY TakenFrom DEF SubscriptionInv
<1>4. PICK s : /\ during[d.id] = {s} /\ SubscriptionForm(s) /\ Kept(d.id, s)
               /\ s.name = "logs" /\ LogsKept(d.id, s)
    BY TakenFrom
<1>5. PICK note : note = [list |-> d.list, logs |-> d.logs]
    OBVIOUS
<1>6. note \in LogNote /\ note.list = d.list /\ note.logs = d.logs
    BY <1>3, <1>5 DEF LogNote
<1>7. /\ DOMAIN outbox' = SubscriptionId /\ outbox' = [id \in SubscriptionId |-> outbox'[id]]
      /\ outbox'[d.id] = (IF open THEN Append(outbox[d.id], note) ELSE outbox[d.id])
      /\ \A id \in SubscriptionId : id # d.id => outbox'[id] = outbox[id]
    <2>1. CASE open  BY <1>1, <1>3, <1>5, <2>1 DEF ConnectionOK
    <2>2. CASE ~open  BY <1>1, <1>3, <2>2 DEF ConnectionOK
    <2> QED  BY <2>1, <2>2
<1>8. ConnectionOK'
    BY <1>1, <1>2, <1>3, <1>7 DEF ConnectionOK
<1>9. ASSUME NEW id \in SubscriptionId, id # d.id PROVE IdOK(id)'
    <2>1. Rests(id)
        BY <1>1, <1>2, <1>7, <1>9 DEF Rests
    <2> QED  BY <1>2, <2>1, IdRests DEF SubscriptionInv
<1>10. IdOK(d.id)'
    <2>0. PICK id : id = d.id
        OBVIOUS
    <2>1. outbox[id] \in Seq(LogNote) /\ LogsKept(id, s)
        BY <1>4, <2>0 DEF LogsKept
    <2>2. /\ outbox'[id] \in Seq(LogNote)
          /\ open => /\ outbox'[id] = Append(outbox[id], note)
                     /\ Len(outbox[id]) \in Nat /\ DOMAIN outbox[id] = 1 .. Len(outbox[id])
                     /\ DOMAIN outbox'[id] = 1 .. Len(outbox[id]) + 1
                     /\ outbox'[id][Len(outbox[id]) + 1] = note
                     /\ \A k \in 1 .. Len(outbox[id]) : outbox'[id][k] = outbox[id][k]
          /\ ~open => outbox'[id] = outbox[id]
        <3>1. CASE open
            <4>1. outbox'[id] = Append(outbox[id], note)
                BY <1>7, <2>0, <3>1
            <4> QED  BY <1>6, <2>1, <3>1, <4>1, AppendProperties, LenProperties
        <3>2. CASE ~open  BY <1>7, <2>0, <2>1, <3>2
        <3> QED  BY <3>1, <3>2
    <2>3. ASSUME PlainFilter(s.query)
          PROVE  LogsDelivered(id, s)' /\ \A e \in delivering' : e.id = id => e.logs = Selected(s, e.list)'
        <3>1. /\ d.list \in Waiting(id) /\ d.logs = Selected(s, d.list)
              /\ Waiting(id)' = Waiting(id) \ {d.list}
              /\ \A e \in delivering' : e.id = id => e.logs = Selected(s, e.list)
            BY <1>1, <1>3, <2>0, <2>1, <2>3, Taken
        <3>2. LogsDelivered(id, s)
            BY <2>1, <2>3 DEF LogsKept
        <3>3. /\ \A l : Selected(s, l)' = Selected(s, l)
              /\ Due(s)' = Due(s) /\ Failed(id)' = Failed(id)
            BY <1>2, SelectedSame DEF Failed
        <3>4. CASE open
            <4>1. Sent(id)' = Sent(id) \cup {d.list}
                <5>1. Sent(id)' = {outbox'[id][k].list : k \in 1 .. Len(outbox[id]) + 1}
                    BY <2>2, <3>4 DEF Sent
                <5>2. Sent(id) = {outbox[id][k].list : k \in 1 .. Len(outbox[id])}
                    BY <2>2, <3>4 DEF Sent
                <5>3. 1 .. Len(outbox[id]) + 1 = (1 .. Len(outbox[id])) \cup {Len(outbox[id]) + 1}
                    BY <2>2, <3>4
                <5>4. \A l : l \in Sent(id)' <=> l \in Sent(id) \/ l = d.list
                    BY <1>6, <2>2, <3>4, <5>1, <5>2, <5>3
                <5> QED  BY <5>4
            <4>2. \A m, k \in DOMAIN outbox'[id] : outbox'[id][m].list = outbox'[id][k].list => m = k
                <5>1. \A k \in 1 .. Len(outbox[id]) : outbox[id][k].list \in Sent(id)
                    BY <2>2, <3>4 DEF Sent
                <5>2. d.list \notin Sent(id)
                    BY <3>1, <3>2 DEF LogsDelivered
                <5>3. \A k \in 1 .. Len(outbox[id]) : outbox'[id][k].list # note.list
                    BY <1>6, <2>2, <3>4, <5>1, <5>2
                <5>4. \A k \in DOMAIN outbox'[id] : k \in 1 .. Len(outbox[id]) \/ k = Len(outbox[id]) + 1
                    BY <2>2, <3>4
                <5>5. \A m, k \in 1 .. Len(outbox[id]) : outbox[id][m].list = outbox[id][k].list => m = k
                    BY <2>2, <3>2, <3>4 DEF LogsDelivered
                <5> QED  BY <2>2, <3>4, <5>3, <5>4, <5>5
            <4>3. \A k \in DOMAIN outbox'[id] : outbox'[id][k].logs = Selected(s, outbox'[id][k].list)
                <5>1. \A k \in 1 .. Len(outbox[id]) : outbox[id][k].logs = Selected(s, outbox[id][k].list)
                    BY <2>2, <3>2, <3>4 DEF LogsDelivered
                <5>2. \A k \in DOMAIN outbox'[id] : k \in 1 .. Len(outbox[id]) \/ k = Len(outbox[id]) + 1
                    BY <2>2, <3>4
                <5> QED  BY <1>6, <2>2, <3>1, <3>4, <5>1, <5>2
            <4>4. /\ Sent(id) \cap Waiting(id) = {} /\ Failed(id) \cap (Sent(id) \cup Waiting(id)) = {}
                  /\ Sent(id) \cup Waiting(id) \cup Failed(id) \subseteq Due(s)
                  /\ open => Due(s) \subseteq Sent(id) \cup Waiting(id) \cup Failed(id)
                BY <3>2 DEF LogsDelivered
            <4>5. /\ Sent(id)' \cap Waiting(id)' = {} /\ Failed(id)' \cap (Sent(id)' \cup Waiting(id)') = {}
                  /\ Sent(id)' \cup Waiting(id)' \cup Failed(id)' \subseteq Due(s)'
                  /\ open => Due(s)' \subseteq Sent(id)' \cup Waiting(id)' \cup Failed(id)'
                BY <3>1, <3>3, <4>1, <4>4
            <4> QED  BY <1>2, <3>1, <3>3, <4>2, <4>3, <4>5 DEF LogsDelivered
        <3>5. CASE ~open
            <4>1. Sent(id)' = Sent(id)
                BY <2>2, <3>5 DEF Sent
            <4> QED  BY <1>2, <2>2, <3>1, <3>2, <3>3, <3>5, <4>1 DEF LogsDelivered
        <3> QED  BY <3>4, <3>5
    <2>4. LogsKept(id, s)'
        BY <2>2, <2>3 DEF LogsKept
    <2> QED  BY <1>2, <1>4, <2>0, <2>4, IdFollows
<1> QED  BY <1>8, <1>9, <1>10 DEF SubscriptionInv

LEMMA OnLookupFails == SubscriptionInv /\ LookupFails => SubscriptionInv'
<1> SUFFICES ASSUME SubscriptionInv, LookupFails PROVE SubscriptionInv'
    OBVIOUS
<1>1. PICK d \in delivering :
         /\ delivering' = delivering \ {d}
         /\ lost' = lost \cup {[id |-> d.id, list |-> d.list]}
    BY DEF LookupFails
<1>2. UNCHANGED <<open, newHeadsIds, syncingIds, logsQueryMaps, outbox, heads, lists, during>>
    BY DEF LookupFails
<1>3. ConnectionOK /\ d.id \in SubscriptionId
    BY TakenFrom DEF SubscriptionInv
<1>4. PICK s : /\ during[d.id] = {s} /\ SubscriptionForm(s) /\ Kept(d.id, s)
               /\ s.name = "logs" /\ LogsKept(d.id, s)
    BY TakenFrom
<1>5. PICK note : note = [id |-> d.id, list |-> d.list]
    OBVIOUS
<1>6. note.id = d.id /\ note.list = d.list /\ lost' = lost \cup {note}
    BY <1>1, <1>5
<1>7. ConnectionOK'
    BY <1>1, <1>2, <1>3 DEF ConnectionOK
<1>8. ASSUME NEW id \in SubscriptionId, id # d.id PROVE IdOK(id)'
    <2>1. Rests(id)
        BY <1>1, <1>2, <1>6, <1>8 DEF Rests
    <2> QED  BY <1>2, <2>1, IdRests DEF SubscriptionInv
<1>9. IdOK(d.id)'
    <2>0. PICK id : id = d.id
        OBVIOUS
    <2>1. outbox[id] \in Seq(LogNote) /\ LogsKept(id, s)
        BY <1>4, <2>0 DEF LogsKept
    <2>2. ASSUME PlainFilter(s.query)
          PROVE  LogsDelivered(id, s)' /\ \A e \in delivering' : e.id = id => e.logs = Selected(s, e.list)'
        <3>1. /\ d.list \in Waiting(id)
              /\ Waiting(id)' = Waiting(id) \ {d.list}
              /\ \A e \in delivering' : e.id = id => e.logs = Selected(s, e.list)
            BY <1>1, <1>3, <2>0, <2>1, <2>2, Taken
        <3>2. LogsDelivered(id, s)
            BY <2>1, <2>2 DEF LogsKept
        <3>3. /\ \A l : Selected(s, l)' = Selected(s, l)
              /\ Due(s)' = Due(s) /\ Sent(id)' = Sent(id)
            BY <1>2, SelectedSame DEF Sent
        <3>4. Failed(id)' = Failed(id) \cup {d.list}
            <4>1. \A l : l \in Failed(id)' <=> l \in Failed(id) \/ l = d.list
                <5>1. Failed(id)' = {l.list : l \in {l \in lost \cup {note} : l.id = id}}
                    BY <1>6 DEF Failed
                <5> QED  BY <1>6, <2>0, <5>1 DEF Failed
            <4> QED  BY <4>1
        <3>5. /\ Sent(id) \cap Waiting(id) = {} /\ Failed(id) \cap (Sent(id) \cup Waiting(id)) = {}
              /\ Sent(id) \cup Waiting(id) \cup Failed(id) \subseteq Due(s)
              /\ open => Due(s) \subseteq Sent(id) \cup Waiting(id) \cup Failed(id)
            BY <3>2 DEF LogsDelivered
        <3>6. /\ Sent(id)' \cap Waiting(id)' = {} /\ Failed(id)' \cap (Sent(id)' \cup Waiting(id)') = {}
              /\ Sent(id)' \cup Waiting(id)' \cup Failed(id)' \subseteq Due(s)'
              /\ open => Due(s)' \subseteq Sent(id)' \cup Waiting(id)' \cup Failed(id)'
            BY <3>1, <3>3, <3>4, <3>5
        <3> QED  BY <1>2, <3>1, <3>2, <3>3, <3>6 DEF LogsDelivered
    <2>3. LogsKept(id, s)'
        BY <1>2, <2>1, <2>2 DEF LogsKept
    <2> QED  BY <1>2, <1>4, <2>0, <2>3, IdFollows
<1> QED  BY <1>7, <1>8, <1>9 DEF SubscriptionInv

\* A step that leaves the subscriptions alone but may close the connection.
LEMMA OnRest ==
    ASSUME SubscriptionInv, open' \in BOOLEAN, open' => open,
           UNCHANGED <<newHeadsIds, syncingIds, logsQueryMaps, delivering, outbox, heads, lists, during, lost>>
    PROVE  SubscriptionInv'
<1>1. ConnectionOK'
    BY DEF SubscriptionInv, ConnectionOK
<1>2. ASSUME NEW id \in SubscriptionId PROVE IdOK(id)'
    <2>1. Rests(id)
        BY DEF Rests
    <2> QED  BY <2>1, IdRests DEF SubscriptionInv
<1> QED  BY <1>1, <1>2 DEF SubscriptionInv

LEMMA SubscriptionStep == SubscriptionInv /\ [SubscriptionNext]_subscriptionVars => SubscriptionInv'
<1> SUFFICES ASSUME SubscriptionInv, [SubscriptionNext]_subscriptionVars PROVE SubscriptionInv'
    OBVIOUS
<1>1. CASE EthSubscribe  BY <1>1, OnSubscribe
<1>2. CASE EthUnsubscribe  BY <1>2, OnUnsubscribe
<1>3. CASE BlockListener  BY <1>3, OnHeads
<1>4. CASE LogsListener  BY <1>4, OnLogs
<1>5. CASE SendLogs  BY <1>5, OnSend
<1>6. CASE LookupFails  BY <1>6, OnLookupFails
<1>7. CASE Close
    BY <1>7, OnRest DEF Close
<1>8. CASE UNCHANGED subscriptionVars
    BY <1>8, OnRest DEF subscriptionVars, SubscriptionInv, ConnectionOK
<1> QED  BY <1>1, <1>2, <1>3, <1>4, <1>5, <1>6, <1>7, <1>8 DEF SubscriptionNext

\* Whatever is subscribed, unsubscribed and delivered in between, and however
\* lists overtake each other, a client is sent exactly what it subscribed to.
THEOREM SubscriptionsExactHolds == SubscriptionSpec => []SubscriptionsExact
<1>1. SubscriptionSpec => []SubscriptionInv
    BY SubscriptionStarts, SubscriptionStep, PTL DEF SubscriptionSpec
<1> QED  BY <1>1, SubscribedExactly, PTL

-----------------------------------------------------------------------------
\* The composition: a step of the gateway is a step of one part, and the others
\* rest.

LEMMA GatewayStep ==
    [GatewayNext]_gatewayVars =>
      [Next]_vars /\ [SubscriptionNext]_subscriptionVars /\ [OracleNext]_oracleVars
<1>1. CASE Transact  BY <1>1 DEF Transact
<1>2. CASE Connect  BY <1>2 DEF Connect
<1>3. CASE FollowPrice  BY <1>3 DEF FollowPrice
<1>4. CASE AskLogs  BY <1>4 DEF AskLogs
<1>5. CASE UNCHANGED gatewayVars  BY <1>5 DEF gatewayVars
<1> QED  BY <1>1, <1>2, <1>3, <1>4, <1>5 DEF GatewayNext

\* The gateway is each of its parts: what one does is never more than it does
\* alone.
THEOREM PartsFollowed == GatewaySpec => Spec /\ SubscriptionSpec /\ OracleSpec
<1>1. GatewayInit => Init /\ SubscriptionInit /\ OracleInit
    BY DEF GatewayInit
<1> QED  BY <1>1, GatewayStep, PTL DEF GatewaySpec, Spec, SubscriptionSpec, OracleSpec

\* So the gateway keeps what its parts promise, whatever is asked of it: one
\* transaction is read alike by everyone who reads it, a connection is sent
\* exactly what it subscribed to, the price is sound, and both filters of logs
\* follow one rule.
THEOREM GatewayIsSafe ==
    GatewaySpec =>
      [](/\ IndexedAsSigned /\ PendingAsIndexed /\ SimulatedAsSent
         /\ SubscriptionsExact /\ PriceSound /\ FiltersAgree)
BY PartsFollowed, IndexedAsSignedHolds, PendingAsIndexedHolds, SimulatedAsSentHolds,
   SubscriptionsExactHolds, PriceSoundHolds, FiltersAgreeHolds, PTL

-----------------------------------------------------------------------------
\* The layout of what is exchanged with a node (MoleculeLayout), for any number
\* of fields or items and whatever their bytes are. First, induction over the
\* naturals, said of a set.

L == INSTANCE MoleculeLayout

LEMMA LeastElement ==
    ASSUME NEW T \in SUBSET Nat, T # {}
    PROVE  \E x \in T : \A y \in T : x <= y
<1> DEFINE Less == {pair \in Nat \X Nat : pair[1] < pair[2]}
<1>1. IsWellFoundedOn(Less, Nat)
    <2>1. Less = OpToRel(<, Nat)  BY DEF OpToRel
    <2> QED  BY <2>1, NatLessThanWellFounded
<1>2. PICK x \in T : \A y \in T : <<y, x>> \notin Less
    BY <1>1, WFMin
<1>3. ASSUME NEW y \in T PROVE x <= y
    <2>1. x \in Nat /\ y \in Nat  OBVIOUS
    <2>2. ~(y < x)  BY <1>2, <2>1
    <2> QED  BY <2>1, <2>2
<1> QED  BY <1>3

LEMMA SetInduction ==
    ASSUME NEW T \in SUBSET Nat, 0 \in T, \A n \in T : n + 1 \in T
    PROVE  T = Nat
<1> SUFFICES ASSUME T # Nat PROVE FALSE
    OBVIOUS
<1>1. PICK x \in Nat \ T : \A y \in Nat \ T : x <= y
    BY LeastElement
<1>2. x # 0 /\ x - 1 \in Nat /\ ~(x <= x - 1) /\ (x - 1) + 1 = x
    BY <1>1
<1>3. x - 1 \in T
    BY <1>1, <1>2
<1> QED  BY <1>1, <1>2, <1>3

\* The concatenations of the first 0, 1, ... n buffers.
Joins(S, bufs, n, t) ==
    /\ t \in [0 .. n -> Seq(S)]
    /\ t[0] = <<>>
    /\ \A i \in 1 .. n : t[i] = t[i - 1] \o bufs[i]

LEMMA JoinsExist ==
    ASSUME NEW S, NEW bufs \in Seq(Seq(S))
    PROVE  \E t : Joins(S, bufs, Len(bufs), t)
<1>0. Len(bufs) \in Nat /\ \A i \in 1 .. Len(bufs) : bufs[i] \in Seq(S)
    BY LenProperties
<1> DEFINE T == {n \in Nat : n <= Len(bufs) => \E t : Joins(S, bufs, n, t)}
<1>1. 0 \in T
    <2>1. <<>> \in Seq(S)  BY EmptySeq
    <2>2. Joins(S, bufs, 0, [i \in 0 .. 0 |-> <<>>])  BY <2>1 DEF Joins
    <2> QED  BY <2>2
<1>2. ASSUME NEW n \in T PROVE n + 1 \in T
    <2> SUFFICES ASSUME n + 1 <= Len(bufs) PROVE \E t : Joins(S, bufs, n + 1, t)
        OBVIOUS
    <2>1. n \in Nat /\ n <= Len(bufs) /\ n + 1 \in 1 .. Len(bufs) /\ (n + 1) - 1 = n
        BY <1>0
    <2>2. PICK t : Joins(S, bufs, n, t)
        BY <2>1
    <2> DEFINE u == [i \in 0 .. (n + 1) |-> IF i = n + 1 THEN t[n] \o bufs[n + 1] ELSE t[i]]
    <2>3. bufs[n + 1] \in Seq(S) /\ t[n] \in Seq(S)
        BY <1>0, <2>1, <2>2 DEF Joins
    <2>4. t[n] \o bufs[n + 1] \in Seq(S)
        BY <2>3, ConcatProperties
    <2>5. \A i \in 0 .. (n + 1) : i = n + 1 \/ i \in 0 .. n
        BY <2>1
    <2>6. u \in [0 .. (n + 1) -> Seq(S)]
        BY <2>2, <2>4, <2>5 DEF Joins
    <2>7. u[n + 1] = t[n] \o bufs[n + 1] /\ \A i \in 0 .. n : u[i] = t[i]
        <3>1. n + 1 \in 0 .. (n + 1)  BY <2>1
        <3>2. \A i \in 0 .. n : i \in 0 .. (n + 1) /\ i # n + 1  BY <2>1
        <3> QED  BY <3>1, <3>2
    <2> HIDE DEF u
    <2>8. u[0] = <<>>
        <3>1. 0 \in 0 .. n  BY <2>1
        <3> QED  BY <2>2, <2>7, <3>1 DEF Joins
    <2>9. ASSUME NEW i \in 1 .. (n + 1) PROVE u[i] = u[i - 1] \o bufs[i]
        <3>1. CASE i = n + 1
            <4>1. u[i - 1] = t[n]  BY <2>1, <2>7, <3>1
            <4> QED  BY <2>7, <3>1, <4>1
        <3>2. CASE i # n + 1
            <4>1. i \in 1 .. n /\ i \in 0 .. n /\ i - 1 \in 0 .. n  BY <2>1, <3>2
            <4> QED  BY <2>2, <2>7, <4>1 DEF Joins
        <3> QED  BY <3>1, <3>2
    <2>10. Joins(S, bufs, n + 1, u)
        BY <2>6, <2>8, <2>9 DEF Joins
    <2> QED  BY <2>10
<1>3. T = Nat
    <2>1. T \in SUBSET Nat  OBVIOUS
    <2> HIDE DEF T
    <2> QED  BY <1>1, <1>2, <2>1, SetInduction
<1>4. Len(bufs) \in T /\ Len(bufs) <= Len(bufs)
    BY <1>0, <1>3
<1> QED  BY <1>4

\* FlattenSeq is the last of them.
LEMMA FlattenIs ==
    ASSUME NEW S, NEW bufs \in Seq(Seq(S)), NEW t, Joins(S, bufs, Len(bufs), t)
    PROVE  L!FlattenSeq(bufs) = t[Len(bufs)]
<1> DEFINE n == Len(bufs)
<1>0. /\ n \in Nat /\ bufs \in [1 .. n -> Seq(S)]
      /\ \A i \in 1 .. n : bufs[i] \in Seq(S)
    BY LenProperties
<1>1. CASE n = 0
    <2>1. L!FlattenSeq(bufs) = bufs  BY <1>1 DEF L!FlattenSeq
    <2>2. bufs = <<>>  BY <1>1, EmptySeq
    <2> QED  BY <1>1, <2>1, <2>2 DEF Joins
<1>2. CASE n # 0
    <2> DEFINE body(f) == [i \in 1 .. n |-> IF i = 1 THEN bufs[i] ELSE f[i - 1] \o bufs[i]]
               cut == [i \in 1 .. n |-> t[i]]
    <2>1. ASSUME NEW i \in 1 .. n
          PROVE  t[i] = (IF i = 1 THEN bufs[i] ELSE cut[i - 1] \o bufs[i])
        <3>1. t[i] = t[i - 1] \o bufs[i]  BY DEF Joins
        <3>2. CASE i = 1
            <4>1. t[i - 1] = <<>>  BY <3>2 DEF Joins
            <4>2. <<>> \o bufs[i] = bufs[i]  BY <1>0, ConcatEmptySeq
            <4> QED  BY <3>1, <3>2, <4>1, <4>2
        <3>3. CASE i # 1
            <4>1. i - 1 \in 1 .. n  BY <1>0, <3>3
            <4> QED  BY <3>1, <3>3, <4>1
        <3> QED  BY <3>2, <3>3
    <2>2. cut = body(cut)
        BY <2>1
    <2> DEFINE F == CHOOSE f : f = body(f)
    <2>3. L!FlattenSeq(bufs) = F[n]
        BY <1>2, Zenon DEF L!FlattenSeq
    <2>4. F = body(F)
        BY <2>2, Zenon
    <2> HIDE DEF F
    <2>5. \A i \in 1 .. n : F[i] = (IF i = 1 THEN bufs[i] ELSE F[i - 1] \o bufs[i])
        <3>1. F = [i \in 1 .. n |-> IF i = 1 THEN bufs[i] ELSE F[i - 1] \o bufs[i]]
            BY <2>4
        <3> QED  BY <3>1, Zenon
    <2> DEFINE I == {i \in Nat : i + 1 <= n => F[i + 1] = t[i + 1]}
    <2>6. 0 \in I
        <3>1. 1 \in 1 .. n  BY <1>0, <1>2
        <3>2. F[1] = bufs[1] /\ t[1] = bufs[1]  BY <2>1, <2>5, <3>1
        <3>3. F[0 + 1] = t[0 + 1]  BY <3>2
        <3> QED  BY <3>3
    <2>7. ASSUME NEW i \in I PROVE i + 1 \in I
        <3> SUFFICES ASSUME (i + 1) + 1 <= n PROVE F[(i + 1) + 1] = t[(i + 1) + 1]
            OBVIOUS
        <3>1. /\ (i + 1) + 1 \in 1 .. n /\ (i + 1) + 1 # 1 /\ ((i + 1) + 1) - 1 = i + 1
              /\ i + 1 \in 1 .. n /\ i + 1 <= n
            BY <1>0
        <3>2. F[i + 1] = t[i + 1] /\ cut[i + 1] = t[i + 1]
            BY <3>1
        <3>3. F[(i + 1) + 1] = F[i + 1] \o bufs[(i + 1) + 1]
            BY <2>5, <3>1
        <3>4. t[(i + 1) + 1] = cut[i + 1] \o bufs[(i + 1) + 1]
            BY <2>1, <3>1
        <3> QED  BY <3>2, <3>3, <3>4
    <2>8. I = Nat
        <3>1. I \in SUBSET Nat  OBVIOUS
        <3> HIDE DEF I
        <3> QED  BY <2>6, <2>7, <3>1, SetInduction
    <2>9. n - 1 \in Nat /\ (n - 1) + 1 = n
        BY <1>0, <1>2
    <2>10. F[n] = t[n]
        <3>1. n - 1 \in I  BY <2>8, <2>9
        <3>2. (n - 1) + 1 <= n  BY <1>0
        <3>3. F[(n - 1) + 1] = t[(n - 1) + 1]  BY <3>1, <3>2
        <3> QED  BY <2>9, <3>3
    <2> QED  BY <2>3, <2>10
<1> QED  BY <1>1, <1>2

\* Of the first m buffers, it is the m-th.
LEMMA FlattenOfPrefix ==
    ASSUME NEW S, NEW bufs \in Seq(Seq(S)), NEW t, Joins(S, bufs, Len(bufs), t), NEW m \in 0 .. Len(bufs)
    PROVE  L!FlattenSeq(SubSeq(bufs, 1, m)) = t[m]
<1> DEFINE pre == SubSeq(bufs, 1, m)
           u == [i \in 0 .. m |-> t[i]]
<1>0. Len(bufs) \in Nat /\ \A i \in 1 .. Len(bufs) : bufs[i] \in Seq(S)
    BY LenProperties
<1>1. \A i \in 1 .. m : bufs[i] \in Seq(S)
    BY <1>0
<1>2. /\ pre \in Seq(Seq(S)) /\ Len(pre) = m
      /\ \A i \in 1 .. m : pre[i] = bufs[i]
    <2>1. /\ pre \in Seq(Seq(S)) /\ Len(pre) = (IF 1 <= m THEN m - 1 + 1 ELSE 0)
          /\ \A i \in 1 .. m - 1 + 1 : pre[i] = bufs[1 + i - 1]
        BY <1>0, <1>1, SubSeqProperties
    <2>2. m - 1 + 1 = m /\ \A i \in 1 .. m : 1 + i - 1 = i  BY <1>0
    <2> QED  BY <1>0, <2>1, <2>2
<1> HIDE DEF pre
<1>3. Joins(S, pre, m, u)
    <2>1. \A i \in 0 .. m : i \in 0 .. Len(bufs)  BY <1>0
    <2>2. u \in [0 .. m -> Seq(S)]  BY <2>1 DEF Joins
    <2>3. u[0] = <<>>  BY <1>0 DEF Joins
    <2>4. ASSUME NEW i \in 1 .. m PROVE u[i] = u[i - 1] \o pre[i]
        <3>1. i \in 1 .. Len(bufs) /\ i \in 0 .. m /\ i - 1 \in 0 .. m  BY <1>0
        <3>2. t[i] = t[i - 1] \o bufs[i]  BY <3>1 DEF Joins
        <3> QED  BY <1>2, <3>1, <3>2
    <2> QED  BY <1>2, <2>2, <2>3, <2>4 DEF Joins
<1>4. L!FlattenSeq(pre) = u[Len(pre)]
    BY <1>2, <1>3, FlattenIs
<1> QED  BY <1>0, <1>2, <1>4 DEF pre

\* Where the items end: the bytes of the first i.
End(bufs, i) == Len(L!FlattenSeq(SubSeq(bufs, 1, i)))

\* Each buffer is found between its two ends.
LEMMA Pieces ==
    ASSUME NEW S, NEW bufs \in Seq(Seq(S))
    PROVE  /\ L!FlattenSeq(bufs) \in Seq(S)
           /\ End(bufs, 0) = 0
           /\ End(bufs, Len(bufs)) = Len(L!FlattenSeq(bufs))
           /\ \A i \in 0 .. Len(bufs) : End(bufs, i) \in 0 .. Len(L!FlattenSeq(bufs))
           /\ \A i \in 1 .. Len(bufs) :
                /\ End(bufs, i) = End(bufs, i - 1) + Len(bufs[i])
                /\ \A k \in 1 .. Len(bufs[i]) :
                     L!FlattenSeq(bufs)[End(bufs, i - 1) + k] = bufs[i][k]
<1> DEFINE n == Len(bufs)
           all == L!FlattenSeq(bufs)
<1>0. n \in Nat /\ \A i \in 1 .. n : bufs[i] \in Seq(S) /\ Len(bufs[i]) \in Nat
    BY LenProperties
<1>1. PICK t : Joins(S, bufs, n, t)
    BY JoinsExist
<1>2. all = t[n] /\ \A i \in 0 .. n : End(bufs, i) = Len(t[i])
    BY <1>1, FlattenIs, FlattenOfPrefix DEF End
<1>3. \A i \in 0 .. n : t[i] \in Seq(S) /\ Len(t[i]) \in Nat
    <2>1. \A i \in 0 .. n : t[i] \in Seq(S)  BY <1>1 DEF Joins
    <2> QED  BY <2>1, LenProperties
<1> HIDE DEF all
<1>4. ASSUME NEW i \in 1 .. n
      PROVE  /\ Len(t[i]) = Len(t[i - 1]) + Len(bufs[i])
             /\ \A k \in 1 .. Len(t[i - 1]) : t[i][k] = t[i - 1][k]
             /\ \A k \in 1 .. Len(bufs[i]) : t[i][Len(t[i - 1]) + k] = bufs[i][k]
    <2>1. i - 1 \in 0 .. n  BY <1>0
    <2> DEFINE a == t[i - 1]
               b == bufs[i]
    <2>2. a \in Seq(S) /\ b \in Seq(S) /\ Len(a) \in Nat /\ Len(b) \in Nat
        BY <1>0, <1>3, <2>1
    <2>3. t[i] = a \o b
        BY <1>1 DEF Joins
    <2> HIDE DEF a, b
    <2>4. /\ Len(a \o b) = Len(a) + Len(b)
          /\ \A k \in 1 .. Len(a) + Len(b) : (a \o b)[k] = IF k <= Len(a) THEN a[k] ELSE b[k - Len(a)]
        BY <2>2, ConcatProperties
    <2>5. \A k \in 1 .. Len(a) : (a \o b)[k] = a[k]
        <3>1. \A k \in 1 .. Len(a) : k \in 1 .. Len(a) + Len(b) /\ k <= Len(a)  BY <2>2
        <3> QED  BY <2>4, <3>1
    <2>6. \A k \in 1 .. Len(b) : (a \o b)[Len(a) + k] = b[k]
        <3>1. \A k \in 1 .. Len(b) :
                 Len(a) + k \in 1 .. Len(a) + Len(b) /\ ~(Len(a) + k <= Len(a)) /\ Len(a) + k - Len(a) = k
            BY <2>2
        <3> QED  BY <2>4, <3>1
    <2> QED  BY <2>3, <2>4, <2>5, <2>6 DEF a, b
<1>5. ASSUME NEW i \in 0 .. n
      PROVE  \A m \in i .. n : Len(t[i]) <= Len(t[m]) /\ \A k \in 1 .. Len(t[i]) : t[m][k] = t[i][k]
    <2> DEFINE Stays(m) == Len(t[i]) <= Len(t[m]) /\ \A k \in 1 .. Len(t[i]) : t[m][k] = t[i][k]
               I == {d \in Nat : i + d <= n => Stays(i + d)}
    <2>1. 0 \in I
        <3>1. i + 0 = i /\ Len(t[i]) <= Len(t[i])  BY <1>0, <1>3
        <3>2. Stays(i + 0)  BY <3>1
        <3> HIDE DEF Stays
        <3> QED  BY <3>2
    <2>2. ASSUME NEW d \in I PROVE d + 1 \in I
        <3> SUFFICES ASSUME i + (d + 1) <= n PROVE Stays(i + (d + 1))
            OBVIOUS
        <3>1. /\ i + d \in 0 .. n /\ i + (d + 1) \in 1 .. n /\ (i + (d + 1)) - 1 = i + d
              /\ i + (d + 1) \in 0 .. n /\ i + d <= n
            BY <1>0
        <3>2. Stays(i + d)
            BY <3>1
        <3> DEFINE a == t[i + d]
                   b == t[i + (d + 1)]
        <3>3. /\ Len(b) = Len(a) + Len(bufs[i + (d + 1)])
              /\ \A k \in 1 .. Len(a) : b[k] = a[k]
            <4>1. /\ Len(b) = Len(t[(i + (d + 1)) - 1]) + Len(bufs[i + (d + 1)])
                  /\ \A k \in 1 .. Len(t[(i + (d + 1)) - 1]) : b[k] = t[(i + (d + 1)) - 1][k]
                BY <1>4, <3>1
            <4> QED  BY <3>1, <4>1
        <3>4. Len(a) \in Nat /\ Len(b) \in Nat /\ Len(bufs[i + (d + 1)]) \in Nat /\ Len(t[i]) \in Nat
            BY <1>0, <1>3, <3>1
        <3>5. Len(t[i]) <= Len(a) /\ \A k \in 1 .. Len(t[i]) : a[k] = t[i][k]
            BY <3>2
        <3> HIDE DEF a, b
        <3>6. Len(t[i]) <= Len(b)
            BY <3>3, <3>4, <3>5
        <3>7. \A k \in 1 .. Len(t[i]) : b[k] = t[i][k]
            <4>1. \A k \in 1 .. Len(t[i]) : k \in 1 .. Len(a)  BY <3>4, <3>5
            <4> QED  BY <3>3, <3>5, <4>1
        <3> QED  BY <3>6, <3>7 DEF b
    <2>3. I = Nat
        <3>1. I \in SUBSET Nat  OBVIOUS
        <3> HIDE DEF I
        <3> QED  BY <2>1, <2>2, <3>1, SetInduction
    <2> SUFFICES ASSUME NEW m \in i .. n PROVE Stays(m)
        OBVIOUS
    <2>4. m - i \in Nat /\ i + (m - i) = m /\ i + (m - i) <= n
        BY <1>0
    <2>5. m - i \in I
        BY <2>3, <2>4
    <2>6. Stays(i + (m - i))
        <3> HIDE DEF Stays
        <3> QED  BY <2>4, <2>5
    <2> QED  BY <2>4, <2>6
<1>6. n \in 0 .. n /\ 0 \in 0 .. n
    BY <1>0
<1>7. \A i \in 0 .. n : n \in i .. n
    BY <1>0
<1>8. all \in Seq(S) /\ End(bufs, 0) = 0 /\ End(bufs, n) = Len(all)
    <2>1. Len(t[0]) = 0  BY <1>1, EmptySeq DEF Joins
    <2> QED  BY <1>2, <1>3, <1>6, <2>1
<1>9. \A i \in 0 .. n : End(bufs, i) \in 0 .. Len(all)
    <2>1. \A i \in 0 .. n : Len(t[i]) <= Len(t[n])  BY <1>5, <1>7
    <2> QED  BY <1>2, <1>3, <1>6, <2>1
<1>10. ASSUME NEW i \in 1 .. n
       PROVE  /\ End(bufs, i) = End(bufs, i - 1) + Len(bufs[i])
              /\ \A k \in 1 .. Len(bufs[i]) : all[End(bufs, i - 1) + k] = bufs[i][k]
    <2>1. i \in 0 .. n /\ i - 1 \in 0 .. n  BY <1>0
    <2>2. End(bufs, i) = Len(t[i]) /\ End(bufs, i - 1) = Len(t[i - 1])  BY <1>2, <2>1
    <2>3. \A k \in 1 .. Len(t[i]) : all[k] = t[i][k]  BY <1>2, <1>5, <1>7, <2>1
    <2>4. \A k \in 1 .. Len(bufs[i]) : Len(t[i - 1]) + k \in 1 .. Len(t[i])
        <3>1. Len(t[i - 1]) \in Nat /\ Len(bufs[i]) \in Nat  BY <1>0, <1>3, <2>1
        <3>2. Len(t[i]) = Len(t[i - 1]) + Len(bufs[i])  BY <1>4
        <3> DEFINE a == Len(t[i - 1])
                   b == Len(bufs[i])
        <3>3. a \in Nat /\ b \in Nat /\ Len(t[i]) = a + b  BY <3>1, <3>2
        <3> HIDE DEF a, b
        <3>4. \A k \in 1 .. b : a + k \in 1 .. Len(t[i])  BY <3>3
        <3> QED  BY <3>4 DEF a, b
    <2> QED  BY <1>4, <2>2, <2>3, <2>4
<1> QED  BY <1>8, <1>9, <1>10 DEF all

\* Every place of the concatenation lies in one of the buffers.
LEMMA EveryPlace ==
    ASSUME NEW S, NEW bufs \in Seq(Seq(S)), NEW k \in 1 .. Len(L!FlattenSeq(bufs))
    PROVE  \E i \in 1 .. Len(bufs) : \E j \in 1 .. Len(bufs[i]) : k = End(bufs, i - 1) + j
<1> DEFINE n == Len(bufs)
           T == {i \in 0 .. n : k <= End(bufs, i)}
<1>0. n \in Nat /\ \A i \in 1 .. n : Len(bufs[i]) \in Nat
    BY LenProperties
<1>1. /\ End(bufs, 0) = 0 /\ End(bufs, n) = Len(L!FlattenSeq(bufs))
      /\ \A i \in 0 .. n : End(bufs, i) \in 0 .. Len(L!FlattenSeq(bufs))
      /\ \A i \in 1 .. n : End(bufs, i) = End(bufs, i - 1) + Len(bufs[i])
    BY Pieces
<1>2. n \in T
    BY <1>0, <1>1
<1>3. PICK i \in T : \A y \in T : i <= y
    <2>1. T \in SUBSET Nat  BY <1>0
    <2> HIDE DEF T
    <2> QED  BY <1>2, <2>1, LeastElement
<1>4. i \in 1 .. n
    BY <1>0, <1>1, <1>3
<1>5. i - 1 \in 0 .. n /\ i - 1 \notin T
    <2>1. ~(i <= i - 1)  BY <1>4
    <2> QED  BY <1>0, <1>3, <1>4, <2>1
<1>6. End(bufs, i - 1) \in Nat /\ End(bufs, i - 1) < k
    BY <1>1, <1>5
<1>7. k - End(bufs, i - 1) \in 1 .. Len(bufs[i]) /\ k = End(bufs, i - 1) + (k - End(bufs, i - 1))
    <2> DEFINE e == End(bufs, i - 1)
               size == Len(bufs[i])
    <2>1. e \in Nat /\ size \in Nat /\ k \in Int /\ e < k
        BY <1>0, <1>4, <1>6
    <2>2. k <= e + size
        BY <1>1, <1>3, <1>4
    <2> HIDE DEF e, size
    <2>3. k - e \in 1 .. size /\ k = e + (k - e)
        BY <2>1, <2>2
    <2> QED  BY <2>3 DEF e, size
<1> QED  BY <1>4, <1>7

\* Buffers of one size end at its multiples.
LEMMA SameSize ==
    ASSUME NEW S, NEW bufs \in Seq(Seq(S)), NEW size \in Nat,
           \A i \in 1 .. Len(bufs) : Len(bufs[i]) = size
    PROVE  \A i \in 0 .. Len(bufs) : End(bufs, i) = i * size
<1> DEFINE n == Len(bufs)
           I == {i \in Nat : i <= n => End(bufs, i) = i * size}
<1>0. n \in Nat  BY LenProperties
<1>1. /\ End(bufs, 0) = 0
      /\ \A i \in 1 .. n : End(bufs, i) = End(bufs, i - 1) + Len(bufs[i])
    BY Pieces
<1>2. 0 \in I
    BY <1>1
<1>3. ASSUME NEW i \in I PROVE i + 1 \in I
    <2> SUFFICES ASSUME i + 1 <= n PROVE End(bufs, i + 1) = (i + 1) * size
        OBVIOUS
    <2>1. i \in Nat /\ i <= n /\ i + 1 \in 1 .. n /\ (i + 1) - 1 = i  BY <1>0
    <2>2. End(bufs, i) = i * size  BY <2>1
    <2>3. End(bufs, i + 1) = End(bufs, i) + size
        <3>1. End(bufs, i + 1) = End(bufs, (i + 1) - 1) + Len(bufs[i + 1])  BY <1>1, <2>1
        <3> QED  BY <2>1, <3>1
    <2>4. (i + 1) * size = i * size + size  BY <2>1
    <2> QED  BY <2>2, <2>3, <2>4
<1>4. I = Nat
    <2>1. I \in SUBSET Nat  OBVIOUS
    <2> HIDE DEF I
    <2> QED  BY <1>2, <1>3, <2>1, SetInduction
<1> QED  BY <1>0, <1>4

-----------------------------------------------------------------------------
\* Words.
Octet == 0 .. 255

\* Four bytes are those of the word that is read from them, and are read as
\* the word they were written for.
LEMMA Words ==
    ASSUME NEW n \in Nat, n < L!TooLong
    PROVE  /\ L!LittleEndian(n) \in Seq(Octet) /\ Len(L!LittleEndian(n)) = 4
           /\ L!LittleEndian(n)[1] + 256 * L!LittleEndian(n)[2] = n
           /\ L!LittleEndian(n)[3] = 0 /\ L!LittleEndian(n)[4] = 0
<1>1. n \in Nat /\ n < 65536
    BY DEF L!TooLong
<1>2. n % 256 \in 0 .. 255 /\ n \div 256 \in 0 .. 255 /\ n = (256 * (n \div 256)) + (n % 256)
    BY <1>1
<1>3. (n \div 256) % 256 = n \div 256
    BY <1>2
<1>4. n \div 65536 = 0 /\ n \div 16777216 = 0 /\ 0 % 256 = 0
    BY <1>1
<1>5. L!LittleEndian(n) = <<n % 256, n \div 256, 0, 0>>
    BY <1>3, <1>4 DEF L!LittleEndian
<1> HIDE DEF L!LittleEndian
<1> DEFINE low == n % 256
           high == n \div 256
<1>6. low \in 0 .. 255 /\ high \in 0 .. 255 /\ n = low + 256 * high
    BY <1>2
<1>7. L!LittleEndian(n) = <<low, high, 0, 0>>
    BY <1>5
<1> HIDE DEF low, high
<1> DEFINE w == <<low, high, 0, 0>>
<1>8. w \in Seq(Octet) /\ Len(w) = 4 /\ w[1] = low /\ w[2] = high /\ w[3] = 0 /\ w[4] = 0
    BY <1>6 DEF Octet
<1> HIDE DEF w
<1>9. L!LittleEndian(n) = w
    BY <1>7 DEF w
<1> QED  BY <1>6, <1>8, <1>9

LEMMA WordIsRead ==
    ASSUME NEW n \in Nat, n < L!TooLong, NEW buf, NEW at \in Nat,
           \A k \in 1 .. 4 : buf[at + k] = L!LittleEndian(n)[k]
    PROVE  L!WordAt(buf, at) = n
<1>1. /\ L!LittleEndian(n)[1] + 256 * L!LittleEndian(n)[2] = n
      /\ L!LittleEndian(n)[3] = 0 /\ L!LittleEndian(n)[4] = 0
    BY Words
<1>2. /\ buf[at + 1] = L!LittleEndian(n)[1] /\ buf[at + 2] = L!LittleEndian(n)[2]
      /\ buf[at + 3] = L!LittleEndian(n)[3] /\ buf[at + 4] = L!LittleEndian(n)[4]
    OBVIOUS
<1> QED  BY <1>1, <1>2 DEF L!WordAt

LEMMA ReadWordIsWritten ==
    ASSUME NEW buf, NEW at \in Nat, \A k \in 1 .. 4 : buf[at + k] \in Octet,
           L!WordAt(buf, at) < L!TooLong
    PROVE  /\ L!WordAt(buf, at) \in Nat
           /\ \A k \in 1 .. 4 : buf[at + k] = L!LittleEndian(L!WordAt(buf, at))[k]
<1> DEFINE a == buf[at + 1]
           b == buf[at + 2]
           n == L!WordAt(buf, at)
<1>1. a \in 0 .. 255 /\ b \in 0 .. 255
    BY DEF Octet
<1>2. buf[at + 3] = 0 /\ buf[at + 4] = 0 /\ n = a + 256 * b
    BY DEF L!WordAt, L!TooLong
<1> HIDE DEF a, b, n
<1>3. n \in Nat /\ n < 65536
    BY <1>1, <1>2
<1>4. n % 256 = a /\ n \div 256 = b
    BY <1>1, <1>2
<1>5. (n \div 256) % 256 = b
    BY <1>1, <1>4
<1>6. n \div 65536 = 0 /\ n \div 16777216 = 0 /\ 0 % 256 = 0
    <2>1. n \in Nat /\ n < 65536 /\ n < 16777216  BY <1>3
    <2> QED  BY <2>1
<1>7. L!LittleEndian(n) = <<a, b, 0, 0>>
    BY <1>4, <1>5, <1>6 DEF L!LittleEndian
<1>8. ASSUME NEW k \in 1 .. 4 PROVE buf[at + k] = L!LittleEndian(n)[k]
    <2>1. k = 1 \/ k = 2 \/ k = 3 \/ k = 4  OBVIOUS
    <2> HIDE DEF L!LittleEndian
    <2> QED  BY <1>2, <1>7, <2>1 DEF a, b
<1> QED  BY <1>3, <1>8 DEF n

-----------------------------------------------------------------------------
\* Tables.

\* The bytes of a table: its length, the offsets of its items, the items.
LEMMA TableBytes ==
    ASSUME NEW bufs \in Seq(Seq(Octet)),
           4 * (Len(bufs) + 1) + Len(L!FlattenSeq(bufs)) < L!TooLong
    PROVE  LET n    == Len(bufs)
               all  == L!FlattenSeq(bufs)
               buf  == L!serializeTable(bufs)
               head == 4 * (n + 1)
           IN /\ buf \in Seq(Octet) /\ Len(buf) = head + Len(all)
              /\ \A k \in 1 .. 4 : buf[k] = L!LittleEndian(Len(buf))[k]
              /\ \A i \in 1 .. n : \A k \in 1 .. 4 :
                   buf[4 * i + k] = L!LittleEndian(head + End(bufs, i - 1))[k]
              /\ \A j \in 1 .. Len(all) : buf[head + j] = all[j]
<1> DEFINE n == Len(bufs)
           all == L!FlattenSeq(bufs)
           buf == L!serializeTable(bufs)
           head == 4 * (n + 1)
           off(i) == L!LittleEndian(head + End(bufs, i - 1))
           offs == [i \in 1 .. n |-> off(i)]
           size == L!LittleEndian(head + Len(all))
<1>0. n \in Nat /\ head \in Nat /\ DOMAIN bufs = 1 .. n
    BY LenProperties
<1>1. /\ all \in Seq(Octet) /\ Len(all) \in Nat /\ End(bufs, n) = Len(all)
      /\ \A i \in 0 .. n : End(bufs, i) \in 0 .. Len(all)
    BY Pieces, LenProperties
<1>2. buf = (size \o L!FlattenSeq(offs)) \o all
    <2>1. buf = (L!LittleEndian(head + End(bufs, n)) \o L!FlattenSeq([i \in DOMAIN bufs |-> off(i)])) \o all
        BY Zenon DEF L!serializeTable, End
    <2> QED  BY <1>0, <1>1, <2>1
<1> HIDE DEF buf, all
<1>3. head + Len(all) \in Nat /\ head + Len(all) < L!TooLong
    BY <1>0, <1>1 DEF all
<1>4. size \in Seq(Octet) /\ Len(size) = 4
    BY <1>3, Words
<1>5. \A i \in 1 .. n : off(i) \in Seq(Octet) /\ Len(off(i)) = 4
    <2> SUFFICES ASSUME NEW i \in 1 .. n PROVE off(i) \in Seq(Octet) /\ Len(off(i)) = 4
        OBVIOUS
    <2>1. i - 1 \in 0 .. n  BY <1>0
    <2>2. End(bufs, i - 1) \in 0 .. Len(all)  BY <1>1, <2>1
    <2>3. head + End(bufs, i - 1) \in Nat /\ head + End(bufs, i - 1) <= head + Len(all)
        BY <1>0, <1>1, <2>2
    <2>4. head + End(bufs, i - 1) < L!TooLong
        BY <1>3, <2>3 DEF L!TooLong
    <2> QED  BY <2>3, <2>4, Words
<1> HIDE DEF off, size
<1>6. offs \in Seq(Seq(Octet)) /\ Len(offs) = n /\ \A i \in 1 .. n : offs[i] = off(i) /\ Len(offs[i]) = 4
    BY <1>0, <1>5
<1> HIDE DEF offs
<1>7. \A i \in 0 .. n : End(offs, i) = i * 4
    <2>1. offs \in Seq(Seq(Octet)) /\ 4 \in Nat /\ \A i \in 1 .. Len(offs) : Len(offs[i]) = 4
        BY <1>6
    <2>2. \A i \in 0 .. Len(offs) : End(offs, i) = i * 4
        <3> HIDE DEF n, head
        <3> QED  BY <2>1, SameSize
    <2> QED  BY <1>6, <2>2
<1> DEFINE o == L!FlattenSeq(offs)
<1>8. /\ o \in Seq(Octet) /\ Len(o) = n * 4
      /\ \A i \in 1 .. n : \A k \in 1 .. 4 : o[(i - 1) * 4 + k] = off(i)[k]
    <2>1. /\ o \in Seq(Octet) /\ End(offs, n) = Len(o)
          /\ \A i \in 1 .. n : \A k \in 1 .. Len(offs[i]) : o[End(offs, i - 1) + k] = offs[i][k]
        BY <1>6, Pieces
    <2>2. n \in 0 .. n /\ \A i \in 1 .. n : i - 1 \in 0 .. n  BY <1>0
    <2> QED  BY <1>6, <1>7, <2>1, <2>2
<1> HIDE DEF o
<1> DEFINE front == size \o o
<1>9. /\ front \in Seq(Octet) /\ Len(front) = head
      /\ \A k \in 1 .. 4 : front[k] = size[k]
      /\ \A i \in 1 .. n : \A k \in 1 .. 4 : front[4 * i + k] = off(i)[k]
    <2>1. /\ front \in Seq(Octet) /\ Len(front) = 4 + n * 4
          /\ \A k \in 1 .. 4 + n * 4 : front[k] = IF k <= 4 THEN size[k] ELSE o[k - 4]
        <3>1. /\ size \o o \in Seq(Octet) /\ Len(size \o o) = Len(size) + Len(o)
              /\ \A k \in 1 .. Len(size) + Len(o) :
                   (size \o o)[k] = IF k <= Len(size) THEN size[k] ELSE o[k - Len(size)]
            BY <1>4, <1>8, ConcatProperties
        <3> QED  BY <1>4, <1>8, <3>1
    <2> HIDE DEF front
    <2>2. 4 + n * 4 = head  BY <1>0
    <2>3. \A k \in 1 .. 4 : k \in 1 .. 4 + n * 4 /\ k <= 4  BY <1>0
    <2>4. ASSUME NEW i \in 1 .. n, NEW k \in 1 .. 4 PROVE front[4 * i + k] = off(i)[k]
        <3>1. /\ 4 * i + k \in 1 .. 4 + n * 4 /\ ~(4 * i + k <= 4)
              /\ (4 * i + k) - 4 = (i - 1) * 4 + k
            BY <1>0
        <3>2. front[4 * i + k] = o[(i - 1) * 4 + k]  BY <2>1, <3>1
        <3> QED  BY <1>8, <3>2
    <2> QED  BY <2>1, <2>2, <2>3, <2>4
<1> HIDE DEF front
<1>10. /\ buf \in Seq(Octet) /\ Len(buf) = head + Len(all)
       /\ \A k \in 1 .. head + Len(all) : buf[k] = IF k <= head THEN front[k] ELSE all[k - head]
    <2>1. buf = front \o all  BY <1>2 DEF front, o
    <2>2. all \in Seq(Octet)  BY <1>1 DEF all
    <2>3. /\ front \o all \in Seq(Octet) /\ Len(front \o all) = Len(front) + Len(all)
          /\ \A k \in 1 .. Len(front) + Len(all) :
               (front \o all)[k] = IF k <= Len(front) THEN front[k] ELSE all[k - Len(front)]
        BY <1>9, <2>2, ConcatProperties
    <2> HIDE DEF head
    <2> QED  BY <1>9, <2>1, <2>3
<1>11. \A k \in 1 .. head : buf[k] = front[k]
    <2>1. \A k \in 1 .. head : k \in 1 .. head + Len(all) /\ k <= head  BY <1>0, <1>3
    <2> QED  BY <1>10, <2>1
<1>12. \A k \in 1 .. 4 : k \in 1 .. head
    BY <1>0
<1>13. \A i \in 1 .. n : \A k \in 1 .. 4 : 4 * i + k \in 1 .. head
    BY <1>0
<1>14. \A j \in 1 .. Len(all) : buf[head + j] = all[j]
    <2>1. \A j \in 1 .. Len(all) : /\ head + j \in 1 .. head + Len(all)
                                   /\ ~(head + j <= head) /\ (head + j) - head = j
        <3>1. Len(all) \in Nat  BY <1>1 DEF all
        <3> QED  BY <1>0, <3>1
    <2> QED  BY <1>10, <2>1
<1>15. \A k \in 1 .. 4 : buf[k] = L!LittleEndian(Len(buf))[k]
    BY <1>9, <1>10, <1>11, <1>12 DEF size
<1>16. \A i \in 1 .. n : \A k \in 1 .. 4 : buf[4 * i + k] = L!LittleEndian(head + End(bufs, i - 1))[k]
    BY <1>9, <1>11, <1>13 DEF off
<1> HIDE DEF n, head
<1> QED  BY <1>10, <1>14, <1>15, <1>16 DEF buf, all, n, head

\* What the check of a header of n items amounts to.
OffsetOf(buf, n, i) == IF i = n + 1 THEN Len(buf) ELSE L!WordAt(buf, 4 * i)

Offsets(buf, n) == [i \in 1 .. n + 1 |-> OffsetOf(buf, n, i)]

Header(buf, n) ==
    /\ n \in Nat
    /\ L!WordAt(buf, 0) = Len(buf)
    /\ 4 * (n + 1) <= Len(buf)
    /\ OffsetOf(buf, n, 1) = 4 * (n + 1)
    /\ \A i \in 1 .. n : OffsetOf(buf, n, i) <= OffsetOf(buf, n, i + 1)

LEMMA WordType ==
    ASSUME NEW buf \in Seq(Octet), NEW at \in Nat, at + 4 <= Len(buf)
    PROVE  L!WordAt(buf, at) \in Nat
<1>1. Len(buf) \in Nat /\ at + 1 \in 1 .. Len(buf) /\ at + 2 \in 1 .. Len(buf)
    BY LenProperties
<1>2. buf[at + 1] \in 0 .. 255 /\ buf[at + 2] \in 0 .. 255
    BY <1>1, LenProperties DEF Octet
<1>3. buf[at + 1] + 256 * buf[at + 2] \in Nat
    <2> DEFINE a == buf[at + 1]
               b == buf[at + 2]
    <2>1. a \in 0 .. 255 /\ b \in 0 .. 255  BY <1>2
    <2> HIDE DEF a, b
    <2>2. a \in Nat /\ 256 * b \in Nat  BY <2>1
    <2>3. a + 256 * b \in Nat  BY <2>2
    <2> QED  BY <2>3 DEF a, b
<1> QED  BY <1>3 DEF L!WordAt, L!TooLong

\* The offsets, with the length behind them.
LEMMA OffsetsAre ==
    ASSUME NEW buf \in Seq(Octet), NEW n \in Nat, 4 * (n + 1) <= Len(buf)
    PROVE  [i \in 1 .. n |-> L!WordAt(buf, 4 * i)] \o <<Len(buf)>> = Offsets(buf, n)
<1> DEFINE w == [i \in 1 .. n |-> L!WordAt(buf, 4 * i)]
           e == <<Len(buf)>>
<1>1. Len(buf) \in Nat  BY LenProperties
<1>2. \A i \in 1 .. n : L!WordAt(buf, 4 * i) \in Nat
    <2>1. \A i \in 1 .. n : 4 * i \in Nat /\ 4 * i + 4 <= Len(buf)  BY <1>1
    <2> QED  BY <2>1, WordType
<1>3. w \in Seq(Nat) /\ Len(w) = n /\ \A i \in 1 .. n : w[i] = L!WordAt(buf, 4 * i)
    BY <1>2
<1>4. e \in Seq(Nat) /\ Len(e) = 1 /\ e[1] = Len(buf)
    BY <1>1
<1> HIDE DEF w, e
<1>5. /\ w \o e \in Seq(Nat) /\ Len(w \o e) = n + 1
      /\ \A i \in 1 .. n + 1 : (w \o e)[i] = IF i <= n THEN w[i] ELSE e[i - n]
    <2>0. w \in Seq(Nat) /\ e \in Seq(Nat)  BY <1>3, <1>4
    <2>1. /\ w \o e \in Seq(Nat) /\ Len(w \o e) = Len(w) + Len(e)
          /\ \A i \in 1 .. Len(w) + Len(e) : (w \o e)[i] = IF i <= Len(w) THEN w[i] ELSE e[i - Len(w)]
        BY ONLY <2>0, ConcatProperties
    <2> QED  BY <1>3, <1>4, <2>1
<1>6. \A i \in 1 .. n + 1 : (w \o e)[i] = OffsetOf(buf, n, i)
    <2>1. \A i \in 1 .. n + 1 : IF i <= n THEN i \in 1 .. n /\ i # n + 1 ELSE i = n + 1 /\ i - n = 1
        OBVIOUS
    <2> QED  BY <1>3, <1>4, <1>5, <2>1 DEF OffsetOf
<1>7. w \o e = [i \in 1 .. n + 1 |-> (w \o e)[i]]
    <2>1. w \o e \in [1 .. n + 1 -> Nat]  BY <1>5, LenProperties
    <2> QED  BY <2>1
<1>8. w \o e = Offsets(buf, n)
    BY <1>6, <1>7 DEF Offsets
<1> QED  BY <1>8 DEF w, e

LEMMA HeaderSuffices ==
    ASSUME NEW buf \in Seq(Octet), NEW n, Header(buf, n)
    PROVE  /\ L!verifyAndExtractOffsets(buf, 0, TRUE) = Offsets(buf, n)
           /\ Offsets(buf, n) # L!Refused
           /\ L!ItemCount(buf) = n
<1>0. n \in Nat /\ Len(buf) \in Nat
    BY LenProperties DEF Header
<1>1. Offsets(buf, n) # L!Refused
    <2>1. 1 \in 1 .. n + 1  BY <1>0
    <2>2. 1 \in DOMAIN Offsets(buf, n)  BY <2>1 DEF Offsets
    <2>3. L!Refused = <<>> /\ DOMAIN <<>> = {}  BY DEF L!Refused
    <2> QED  BY <2>2, <2>3
<1>2. ~(~L!HasWord(buf, 0) \/ L!WordAt(buf, 0) # Len(buf))
    BY <1>0 DEF Header, L!HasWord
<1>3. CASE n = 0
    <2>1. Len(buf) = 4 /\ L!WordAt(buf, 0) = 4
        <3>1. 1 = n + 1 /\ 4 * (n + 1) = 4  BY <1>3
        <3>2. OffsetOf(buf, n, 1) = 4 /\ L!WordAt(buf, 0) = Len(buf)  BY <3>1 DEF Header
        <3>3. OffsetOf(buf, n, 1) = Len(buf)  BY <3>1 DEF OffsetOf
        <3> QED  BY <3>2, <3>3
    <2>2. L!verifyAndExtractOffsets(buf, 0, TRUE) = <<4>>
        BY <1>2, <2>1 DEF L!verifyAndExtractOffsets
    <2>3. Offsets(buf, n) = <<4>>
        <3>1. 1 .. n + 1 = {1}  BY <1>3
        <3>2. Offsets(buf, n) = [i \in {1} |-> 4]  BY <1>3, <2>1, <3>1 DEF Offsets, OffsetOf
        <3> QED  BY <3>2
    <2>4. L!ItemCount(buf) = n  BY <1>3, <2>1 DEF L!ItemCount
    <2> QED  BY <1>1, <2>2, <2>3, <2>4
<1>4. CASE n # 0
    <2> DEFINE first == L!WordAt(buf, 4)
    <2>1. 1 # n + 1 /\ 4 * 1 = 4
        BY <1>0, <1>4
    <2>2. first = 4 * (n + 1)
        BY <2>1 DEF Header, OffsetOf
    <2>3. /\ L!WordAt(buf, 0) = Len(buf) /\ first <= Len(buf)
          /\ first % 4 = 0 /\ first >= 8 /\ (first \div 4) - 1 = n
        BY <1>0, <1>4, <2>2 DEF Header
    <2>4. Len(buf) # 4 /\ ~(Len(buf) < 8) /\ ~(first < 8) /\ ~(n < 0) /\ ~(Len(buf) < first)
        BY <1>0, <2>2, <2>3
    <2>5. [i \in 1 .. n |-> L!WordAt(buf, 4 * i)] \o <<Len(buf)>> = Offsets(buf, n)
        <3>1. 4 * (n + 1) <= Len(buf)  BY DEF Header
        <3> QED  BY <1>0, <3>1, OffsetsAre
    <2>6. ~\E i \in 1 .. n : Offsets(buf, n)[i] > Offsets(buf, n)[i + 1]
        <3>1. \A i \in 1 .. n : i \in 1 .. n + 1 /\ i + 1 \in 1 .. n + 1  BY <1>0
        <3>2. ASSUME NEW i \in 1 .. n PROVE OffsetOf(buf, n, i) \in Nat /\ OffsetOf(buf, n, i + 1) \in Nat
            <4>1. /\ 4 * i \in Nat /\ 4 * i + 4 <= Len(buf)
                  /\ i + 1 # n + 1 => 4 * (i + 1) \in Nat /\ 4 * (i + 1) + 4 <= Len(buf)
                BY <1>0 DEF Header
            <4> QED  BY <1>0, <4>1, WordType DEF OffsetOf
        <3>3. ASSUME NEW i \in 1 .. n PROVE ~(Offsets(buf, n)[i] > Offsets(buf, n)[i + 1])
            <4>1. /\ Offsets(buf, n)[i] = OffsetOf(buf, n, i)
                  /\ Offsets(buf, n)[i + 1] = OffsetOf(buf, n, i + 1)
                BY <3>1 DEF Offsets
            <4>2. OffsetOf(buf, n, i) <= OffsetOf(buf, n, i + 1)  BY DEF Header
            <4> QED  BY <3>2, <4>1, <4>2
        <3> QED  BY <3>3
    <2> HIDE DEF first
    <2>7. L!verifyAndExtractOffsets(buf, 0, TRUE) = Offsets(buf, n)
        <3>1. L!verifyAndExtractOffsets(buf, 0, TRUE) =
                [i \in 1 .. (first \div 4) - 1 |-> L!WordAt(buf, 4 * i)] \o <<L!WordAt(buf, 0)>>
            BY <1>2, <2>3, <2>4, <2>5, <2>6, Zenon DEF L!verifyAndExtractOffsets, first
        <3> QED  BY <2>3, <2>5, <3>1
    <2>8. L!ItemCount(buf) = n
        BY <2>3, <2>4 DEF L!ItemCount, first
    <2> QED  BY <1>1, <2>7, <2>8
<1> QED  BY <1>3, <1>4

LEMMA HeaderNeeded ==
    ASSUME NEW buf \in Seq(Octet), L!verifyAndExtractOffsets(buf, 0, TRUE) # L!Refused
    PROVE  Header(buf, L!ItemCount(buf))
<1>0. Len(buf) \in Nat
    BY LenProperties
<1>1. L!HasWord(buf, 0) /\ L!WordAt(buf, 0) = Len(buf)
    BY Zenon DEF L!verifyAndExtractOffsets
<1>2. Len(buf) >= 4
    BY <1>0, <1>1 DEF L!HasWord
<1>3. CASE Len(buf) = 4
    <2>1. L!ItemCount(buf) = 0
        BY <1>3 DEF L!ItemCount
    <2> QED  BY <1>1, <1>3, <2>1 DEF Header, OffsetOf
<1>4. CASE Len(buf) # 4
    <2> DEFINE first == L!WordAt(buf, 4)
               count == (first \div 4) - 1
               offsets == [i \in 1 .. count |-> L!WordAt(buf, 4 * i)] \o <<L!WordAt(buf, 0)>>
    <2>1. /\ ~(Len(buf) < 8) /\ ~(first % 4 # 0) /\ ~(first < 8) /\ ~(Len(buf) < first)
          /\ ~\E i \in 1 .. count : offsets[i] > offsets[i + 1]
        BY <1>1, <1>4, Zenon DEF L!verifyAndExtractOffsets
    <2>2. first \in Nat
        <3>1. 4 \in Nat /\ 4 + 4 <= Len(buf)  BY <1>0, <2>1
        <3> QED  BY <3>1, WordType
    <2> HIDE DEF first
    <2>3. first % 4 = 0 /\ first >= 8 /\ first <= Len(buf) /\ Len(buf) >= 8
        BY <1>0, <2>1, <2>2
    <2>4. count \in Nat /\ count >= 1 /\ first = 4 * (count + 1)
        BY <2>2, <2>3
    <2>5. L!ItemCount(buf) = count
        BY <2>1 DEF L!ItemCount, first
    <2>6. offsets = Offsets(buf, count)
        <3>1. 4 * (count + 1) <= Len(buf)  BY <2>3, <2>4
        <3> HIDE DEF count
        <3> QED  BY <1>1, <2>4, <3>1, OffsetsAre
    <2>7. ~\E i \in 1 .. count : Offsets(buf, count)[i] > Offsets(buf, count)[i + 1]
        BY <2>1, <2>6
    <2> HIDE DEF count, offsets
    <2>8. ASSUME NEW i \in 1 .. count PROVE OffsetOf(buf, count, i) <= OffsetOf(buf, count, i + 1)
        <3>1. i \in 1 .. count + 1 /\ i + 1 \in 1 .. count + 1  BY <2>4
        <3>2. ~(OffsetOf(buf, count, i) > OffsetOf(buf, count, i + 1))
            BY <2>7, <3>1 DEF Offsets
        <3>3. OffsetOf(buf, count, i) \in Nat /\ OffsetOf(buf, count, i + 1) \in Nat
            <4>1. /\ 4 * i \in Nat /\ 4 * i + 4 <= Len(buf)
                  /\ i + 1 # count + 1 => 4 * (i + 1) \in Nat /\ 4 * (i + 1) + 4 <= Len(buf)
                BY <1>0, <2>3, <2>4
            <4> QED  BY <1>0, <4>1, WordType DEF OffsetOf
        <3> QED  BY <3>2, <3>3
    <2>9. OffsetOf(buf, count, 1) = 4 * (count + 1)
        <3>1. 1 # count + 1 /\ 4 * 1 = 4  BY <2>4
        <3> QED  BY <2>4, <3>1 DEF OffsetOf, first
    <2> QED  BY <1>1, <2>3, <2>4, <2>5, <2>8, <2>9 DEF Header
<1> QED  BY <1>3, <1>4

\* The offsets lie between the end of the header and that of the buffer.
LEMMA OffsetsBetween ==
    ASSUME NEW buf \in Seq(Octet), NEW n, Header(buf, n)
    PROVE  \A i \in 1 .. n + 1 : OffsetOf(buf, n, i) \in 4 * (n + 1) .. Len(buf)
<1> DEFINE o(i) == OffsetOf(buf, n, i)
           low == 4 * (n + 1)
<1>0. /\ n \in Nat /\ Len(buf) \in Nat /\ low \in Nat /\ low <= Len(buf)
      /\ o(1) = low /\ \A i \in 1 .. n : o(i) <= o(i + 1)
    BY LenProperties DEF Header
<1>1. o(n + 1) = Len(buf)
    BY DEF OffsetOf
<1>2. ASSUME NEW i \in 1 .. n + 1 PROVE o(i) \in Nat
    <2>1. i # n + 1 => 4 * i \in Nat /\ 4 * i + 4 <= Len(buf)
        BY <1>0
    <2> QED  BY <1>0, <2>1, WordType DEF OffsetOf
<1> HIDE DEF o, low
<1> DEFINE Up == {i \in Nat : i <= n => low <= o(i + 1)}
           Down == {i \in Nat : i <= n => o((n + 1) - i) <= Len(buf)}
<1>3. Up = Nat
    <2>1. 0 \in Up
        <3>1. low <= o(0 + 1)  BY <1>0
        <3> QED  BY <3>1
    <2>2. ASSUME NEW i \in Up PROVE i + 1 \in Up
        <3> SUFFICES ASSUME i + 1 <= n PROVE low <= o((i + 1) + 1)
            OBVIOUS
        <3>1. i + 1 \in 1 .. n /\ i <= n /\ i + 1 \in 1 .. n + 1 /\ (i + 1) + 1 \in 1 .. n + 1
            BY <1>0
        <3>2. low <= o(i + 1) /\ o(i + 1) <= o((i + 1) + 1)
            BY <1>0, <3>1
        <3>3. o(i + 1) \in Nat /\ o((i + 1) + 1) \in Nat
            BY <1>2, <3>1
        <3> QED  BY <1>0, <3>2, <3>3
    <2>3. Up \in SUBSET Nat  OBVIOUS
    <2> HIDE DEF Up
    <2> QED  BY <2>1, <2>2, <2>3, SetInduction
<1>4. Down = Nat
    <2>1. 0 \in Down
        <3>1. (n + 1) - 0 = n + 1  BY <1>0
        <3>2. o((n + 1) - 0) <= Len(buf)  BY <1>0, <1>1, <3>1
        <3> QED  BY <3>2
    <2>2. ASSUME NEW i \in Down PROVE i + 1 \in Down
        <3> SUFFICES ASSUME i + 1 <= n PROVE o((n + 1) - (i + 1)) <= Len(buf)
            OBVIOUS
        <3>1. /\ (n + 1) - (i + 1) \in 1 .. n /\ i <= n /\ ((n + 1) - (i + 1)) + 1 = (n + 1) - i
              /\ (n + 1) - (i + 1) \in 1 .. n + 1 /\ (n + 1) - i \in 1 .. n + 1
            BY <1>0
        <3>2. o((n + 1) - i) <= Len(buf)
            BY <3>1
        <3>3. o((n + 1) - (i + 1)) <= o((n + 1) - i)
            <4>1. o((n + 1) - (i + 1)) <= o(((n + 1) - (i + 1)) + 1)  BY <1>0, <3>1
            <4> QED  BY <3>1, <4>1
        <3>4. o((n + 1) - (i + 1)) \in Nat /\ o((n + 1) - i) \in Nat
            BY <1>2, <3>1
        <3> QED  BY <1>0, <3>2, <3>3, <3>4
    <2>3. Down \in SUBSET Nat  OBVIOUS
    <2> HIDE DEF Down
    <2> QED  BY <2>1, <2>2, <2>3, SetInduction
<1>5. ASSUME NEW i \in 1 .. n + 1 PROVE o(i) \in low .. Len(buf)
    <2>1. /\ i - 1 \in Nat /\ i - 1 <= n /\ (i - 1) + 1 = i
          /\ (n + 1) - i \in Nat /\ (n + 1) - i <= n /\ (n + 1) - ((n + 1) - i) = i
        BY <1>0
    <2>2. i - 1 \in Up /\ (n + 1) - i \in Down
        BY <1>3, <1>4, <2>1
    <2>3. low <= o((i - 1) + 1) /\ o((n + 1) - ((n + 1) - i)) <= Len(buf)
        BY <2>1, <2>2
    <2> QED  BY <1>0, <1>2, <2>1, <2>3
<1> QED  BY <1>5 DEF o, low

\* Each item is what lies between its offset and the next.
LEMMA ItemsBetween ==
    ASSUME NEW buf \in Seq(Octet), NEW n, Header(buf, n), NEW i \in 1 .. n
    PROVE  LET from == OffsetOf(buf, n, i)
               to   == OffsetOf(buf, n, i + 1)
           IN /\ L!ItemAt(buf, i, n) \in Seq(Octet)
              /\ Len(L!ItemAt(buf, i, n)) = to - from
              /\ \A k \in 1 .. to - from : L!ItemAt(buf, i, n)[k] = buf[from + k]
              /\ L!Slice(buf, Offsets(buf, n)[i], Offsets(buf, n)[i + 1]) = L!ItemAt(buf, i, n)
<1> DEFINE from == OffsetOf(buf, n, i)
           to == OffsetOf(buf, n, i + 1)
<1>0. n \in Nat /\ Len(buf) \in Nat /\ i \in 1 .. n + 1 /\ i + 1 \in 1 .. n + 1
    BY LenProperties DEF Header
<1>1. /\ from \in 4 * (n + 1) .. Len(buf) /\ to \in 4 * (n + 1) .. Len(buf)
      /\ from <= to
    BY <1>0, OffsetsBetween DEF Header
<1>2. from \in Nat /\ to \in Nat /\ ~(to > Len(buf)) /\ ~(Len(buf) > Len(buf))
    BY <1>0, <1>1
<1>3. L!WordAt(buf, 4 * i) = from /\ (IF i < n THEN L!WordAt(buf, 4 * i + 4) ELSE Len(buf)) = to
    <2>1. i # n + 1 /\ 4 * (i + 1) = 4 * i + 4 /\ (i < n <=> i + 1 # n + 1)  BY <1>0
    <2> QED  BY <2>1 DEF OffsetOf
<1>4. Offsets(buf, n)[i] = from /\ Offsets(buf, n)[i + 1] = to
    BY <1>0 DEF Offsets
<1> HIDE DEF from, to
<1>5. L!Slice(buf, from, to) = SubSeq(buf, from + 1, to)
    BY <1>2 DEF L!Slice
<1>6. L!ItemAt(buf, i, n) = SubSeq(buf, from + 1, to)
    BY <1>3, <1>5 DEF L!ItemAt
<1>7. /\ SubSeq(buf, from + 1, to) \in Seq(Octet)
      /\ Len(SubSeq(buf, from + 1, to)) = to - from
      /\ \A k \in 1 .. to - from : SubSeq(buf, from + 1, to)[k] = buf[from + k]
    <2>1. from + 1 \in Int /\ to \in Int /\ \A k \in from + 1 .. to : buf[k] \in Octet
        <3>1. \A k \in from + 1 .. to : k \in 1 .. Len(buf)  BY <1>0, <1>1, <1>2
        <3> QED  BY <1>2, <3>1, ElementOfSeq
    <2>2. /\ SubSeq(buf, from + 1, to) \in Seq(Octet)
          /\ Len(SubSeq(buf, from + 1, to)) = IF from + 1 <= to THEN to - (from + 1) + 1 ELSE 0
          /\ \A k \in 1 .. to - (from + 1) + 1 : SubSeq(buf, from + 1, to)[k] = buf[from + 1 + k - 1]
        BY ONLY <2>1, SubSeqProperties
    <2>3. /\ to - (from + 1) + 1 = to - from
          /\ (IF from + 1 <= to THEN to - (from + 1) + 1 ELSE 0) = to - from
          /\ \A k \in 1 .. to - from : from + 1 + k - 1 = from + k
        BY <1>1, <1>2
    <2> QED  BY <2>2, <2>3
<1> QED  BY <1>4, <1>5, <1>6, <1>7 DEF from, to

\* A serialised table has the header of its items.
LEMMA TableHeaded ==
    ASSUME NEW bufs \in Seq(Seq(Octet)),
           4 * (Len(bufs) + 1) + Len(L!FlattenSeq(bufs)) < L!TooLong
    PROVE  LET n   == Len(bufs)
               buf == L!serializeTable(bufs)
           IN /\ Header(buf, n)
              /\ \A i \in 1 .. n + 1 : OffsetOf(buf, n, i) = 4 * (n + 1) + End(bufs, i - 1)
<1> DEFINE n == Len(bufs)
           buf == L!serializeTable(bufs)
           all == L!FlattenSeq(bufs)
           head == 4 * (n + 1)
<1>0. n \in Nat /\ head \in Nat /\ \A i \in 1 .. n : Len(bufs[i]) \in Nat
    BY LenProperties
<1>1. /\ all \in Seq(Octet) /\ Len(all) \in Nat /\ End(bufs, 0) = 0 /\ End(bufs, n) = Len(all)
      /\ \A i \in 0 .. n : End(bufs, i) \in 0 .. Len(all)
      /\ \A i \in 1 .. n : End(bufs, i) = End(bufs, i - 1) + Len(bufs[i])
    BY Pieces, LenProperties
<1>2. /\ buf \in Seq(Octet) /\ Len(buf) = head + Len(all)
      /\ \A k \in 1 .. 4 : buf[k] = L!LittleEndian(Len(buf))[k]
      /\ \A i \in 1 .. n : \A k \in 1 .. 4 :
           buf[4 * i + k] = L!LittleEndian(head + End(bufs, i - 1))[k]
    BY TableBytes
<1>3. Len(buf) < L!TooLong
    BY <1>2
<1> HIDE DEF buf, all, head, n
<1>4. Len(buf) \in Nat /\ head <= Len(buf)
    BY <1>0, <1>1, <1>2
<1>5. L!WordAt(buf, 0) = Len(buf)
    <2>1. \A k \in 1 .. 4 : buf[0 + k] = L!LittleEndian(Len(buf))[k]
        <3>1. \A k \in 1 .. 4 : 0 + k = k  OBVIOUS
        <3> QED  BY <1>2, <3>1
    <2> QED  BY <1>3, <1>4, <2>1, WordIsRead
<1>6. ASSUME NEW i \in 1 .. n + 1 PROVE OffsetOf(buf, n, i) = head + End(bufs, i - 1)
    <2>1. CASE i = n + 1
        <3>1. i - 1 = n  BY <1>0, <2>1
        <3> QED  BY <1>1, <1>2, <2>1, <3>1 DEF OffsetOf
    <2>2. CASE i # n + 1
        <3>1. i \in 1 .. n /\ i - 1 \in 0 .. n /\ 4 * i \in Nat  BY <1>0, <2>2
        <3> DEFINE off == head + End(bufs, i - 1)
        <3>2. off \in Nat /\ off <= Len(buf)  BY <1>0, <1>1, <1>2, <3>1
        <3>3. off < L!TooLong  BY <1>3, <1>4, <3>2 DEF L!TooLong
        <3>4. \A k \in 1 .. 4 : buf[4 * i + k] = L!LittleEndian(off)[k]  BY <1>2, <3>1
        <3> HIDE DEF off
        <3>5. L!WordAt(buf, 4 * i) = off  BY <3>1, <3>2, <3>3, <3>4, WordIsRead
        <3> QED  BY <2>2, <3>5 DEF OffsetOf, off
    <2> QED  BY <2>1, <2>2
<1>7. OffsetOf(buf, n, 1) = head
    <2>1. 1 \in 1 .. n + 1 /\ 1 - 1 = 0 /\ head + 0 = head  BY <1>0
    <2> QED  BY <1>1, <1>6, <2>1
<1>8. ASSUME NEW i \in 1 .. n PROVE OffsetOf(buf, n, i) <= OffsetOf(buf, n, i + 1)
    <2>1. /\ i \in 1 .. n + 1 /\ i + 1 \in 1 .. n + 1 /\ (i + 1) - 1 = i
          /\ i - 1 \in 0 .. n /\ i \in 0 .. n
        BY <1>0
    <2>2. /\ OffsetOf(buf, n, i) = head + End(bufs, i - 1)
          /\ OffsetOf(buf, n, i + 1) = head + End(bufs, i)
        BY <1>6, <2>1
    <2>3. End(bufs, i - 1) \in Nat /\ End(bufs, i) \in Nat /\ End(bufs, i - 1) <= End(bufs, i)
        <3>1. End(bufs, i - 1) \in Nat /\ Len(bufs[i]) \in Nat  BY <1>0, <1>1, <2>1
        <3>2. End(bufs, i) = End(bufs, i - 1) + Len(bufs[i])  BY <1>1
        <3> QED  BY <3>1, <3>2
    <2> QED  BY <1>0, <2>2, <2>3
<1>9. Header(buf, n)
    BY <1>0, <1>4, <1>5, <1>7, <1>8 DEF Header, head
<1> QED  BY <1>6, <1>9 DEF buf, n, head

\* What serializeTable() writes for any number of fields or items, each of any
\* length, verifyAndExtractOffsets() takes, and each of them is read back: from
\* the offsets by validate(), and by the getters and indexAt()
\* (godwoken/schemas/index.js).
THEOREM TableReadsBack ==
    ASSUME NEW bufs \in Seq(Seq(Octet)),
           4 * (Len(bufs) + 1) + Len(L!FlattenSeq(bufs)) < L!TooLong
    PROVE  LET n       == Len(bufs)
               buf     == L!serializeTable(bufs)
               offsets == L!verifyAndExtractOffsets(buf, 0, TRUE)
           IN /\ offsets # L!Refused /\ L!ItemCount(buf) = n
              /\ \A i \in 1 .. n : /\ L!Slice(buf, offsets[i], offsets[i + 1]) = bufs[i]
                                   /\ L!ItemAt(buf, i, n) = bufs[i]
<1> DEFINE n == Len(bufs)
           buf == L!serializeTable(bufs)
           all == L!FlattenSeq(bufs)
           head == 4 * (n + 1)
<1>0. /\ n \in Nat /\ head \in Nat
      /\ \A i \in 1 .. n : bufs[i] \in Seq(Octet) /\ Len(bufs[i]) \in Nat
    BY LenProperties
<1>1. /\ Len(all) \in Nat
      /\ \A i \in 0 .. n : End(bufs, i) \in 0 .. Len(all)
      /\ \A i \in 1 .. n :
           /\ End(bufs, i) = End(bufs, i - 1) + Len(bufs[i])
           /\ \A k \in 1 .. Len(bufs[i]) : all[End(bufs, i - 1) + k] = bufs[i][k]
    BY Pieces, LenProperties
<1>2. buf \in Seq(Octet) /\ \A j \in 1 .. Len(all) : buf[head + j] = all[j]
    BY TableBytes
<1>3. /\ Header(buf, n)
      /\ \A i \in 1 .. n + 1 : OffsetOf(buf, n, i) = head + End(bufs, i - 1)
    BY TableHeaded
<1> HIDE DEF buf, n, all, head
<1>4. /\ L!verifyAndExtractOffsets(buf, 0, TRUE) = Offsets(buf, n)
      /\ Offsets(buf, n) # L!Refused /\ L!ItemCount(buf) = n
    BY <1>2, <1>3, HeaderSuffices
<1>5. ASSUME NEW i \in 1 .. n
      PROVE  /\ L!Slice(buf, Offsets(buf, n)[i], Offsets(buf, n)[i + 1]) = bufs[i]
             /\ L!ItemAt(buf, i, n) = bufs[i]
    <2> DEFINE from == OffsetOf(buf, n, i)
               to == OffsetOf(buf, n, i + 1)
               item == L!ItemAt(buf, i, n)
    <2>1. /\ item \in Seq(Octet) /\ Len(item) = to - from
          /\ \A k \in 1 .. to - from : item[k] = buf[from + k]
          /\ L!Slice(buf, Offsets(buf, n)[i], Offsets(buf, n)[i + 1]) = item
        BY <1>2, <1>3, ItemsBetween
    <2>2. /\ i \in 1 .. n + 1 /\ i + 1 \in 1 .. n + 1 /\ (i + 1) - 1 = i
          /\ i - 1 \in 0 .. n /\ i \in 0 .. n
        BY <1>0
    <2>3. from = head + End(bufs, i - 1) /\ to = head + End(bufs, i)
        BY <1>3, <2>2
    <2> HIDE DEF from, to, item
    <2>4. /\ End(bufs, i - 1) \in Nat /\ Len(bufs[i]) \in Nat /\ End(bufs, i) <= Len(all)
          /\ End(bufs, i) = End(bufs, i - 1) + Len(bufs[i])
        BY <1>0, <1>1, <2>2
    <2>5. to - from = Len(bufs[i])
        BY <1>0, <2>3, <2>4
    <2>6. ASSUME NEW k \in 1 .. Len(bufs[i]) PROVE item[k] = bufs[i][k]
        <3>1. from + k = head + (End(bufs, i - 1) + k)  BY <1>0, <2>3, <2>4
        <3>2. End(bufs, i - 1) + k \in 1 .. Len(all)  BY <1>1, <2>4
        <3>3. item[k] = buf[head + (End(bufs, i - 1) + k)]  BY <2>1, <2>5, <3>1
        <3> QED  BY <1>1, <1>2, <3>2, <3>3
    <2>7. item = bufs[i]
        BY <1>0, <2>1, <2>5, <2>6, SeqEqual
    <2> QED  BY <2>1, <2>7 DEF item
<1> QED  BY <1>4, <1>5 DEF buf, n

\* Whatever bytes somebody sends: if verifyAndExtractOffsets() takes them, they
\* are what serializeTable() writes for the items that are read from them, so
\* that there is no second encoding of the same items
\* (godwoken/schemas/index.js).
THEOREM TableIsCanonical ==
    ASSUME NEW buf \in Seq(Octet), Len(buf) < L!TooLong,
           L!verifyAndExtractOffsets(buf, 0, TRUE) # L!Refused
    PROVE  LET n == L!ItemCount(buf)
           IN L!serializeTable([i \in 1 .. n |-> L!ItemAt(buf, i, n)]) = buf
<1> DEFINE n == L!ItemCount(buf)
           items == [i \in 1 .. n |-> L!ItemAt(buf, i, n)]
           o(i) == OffsetOf(buf, n, i)
           head == 4 * (n + 1)
           all == L!FlattenSeq(items)
           ser == L!serializeTable(items)
<1>1. Header(buf, n)
    BY HeaderNeeded
<1> HIDE DEF n
<1>2. /\ n \in Nat /\ Len(buf) \in Nat /\ head \in Nat /\ head <= Len(buf) /\ o(1) = head
      /\ L!WordAt(buf, 0) = Len(buf) /\ o(n + 1) = Len(buf)
    BY <1>1, LenProperties DEF Header, OffsetOf
<1>3. \A i \in 1 .. n + 1 : o(i) \in head .. Len(buf)
    BY <1>1, OffsetsBetween
<1>4. \A i \in 1 .. n : /\ L!ItemAt(buf, i, n) \in Seq(Octet)
                         /\ Len(L!ItemAt(buf, i, n)) = o(i + 1) - o(i)
                         /\ \A k \in 1 .. o(i + 1) - o(i) : L!ItemAt(buf, i, n)[k] = buf[o(i) + k]
    BY <1>1, ItemsBetween
<1>5. \A i \in 1 .. n : o(i) = L!WordAt(buf, 4 * i)
    <2>1. \A i \in 1 .. n : i # n + 1  BY <1>2
    <2> QED  BY <2>1 DEF OffsetOf
<1>6. /\ items \in Seq(Seq(Octet)) /\ Len(items) = n
      /\ \A i \in 1 .. n : items[i] = L!ItemAt(buf, i, n)
    <2> DEFINE item(i) == L!ItemAt(buf, i, n)
    <2>1. \A i \in 1 .. n : item(i) \in Seq(Octet)  BY <1>4
    <2>2. items = [i \in 1 .. n |-> item(i)]  OBVIOUS
    <2> HIDE DEF item, items
    <2>3. /\ items \in Seq(Seq(Octet)) /\ Len(items) = n
          /\ \A i \in 1 .. n : items[i] = item(i)
        BY <1>2, <2>1, <2>2
    <2> QED  BY <2>3 DEF item
<1> HIDE DEF items, o, head
<1>7. /\ \A i \in 1 .. n + 1 : o(i) \in Nat /\ o(i) <= Len(buf) /\ o(i) < L!TooLong
      /\ Len(buf) < L!TooLong
    BY <1>2, <1>3 DEF L!TooLong
<1>8. /\ all \in Seq(Octet) /\ End(items, 0) = 0 /\ End(items, n) = Len(all)
      /\ \A i \in 1 .. n :
           /\ End(items, i) = End(items, i - 1) + Len(items[i])
           /\ \A k \in 1 .. Len(items[i]) : all[End(items, i - 1) + k] = items[i][k]
    <2>1. /\ all \in Seq(Octet) /\ End(items, 0) = 0 /\ End(items, Len(items)) = Len(all)
          /\ \A i \in 1 .. Len(items) :
               /\ End(items, i) = End(items, i - 1) + Len(items[i])
               /\ \A k \in 1 .. Len(items[i]) : all[End(items, i - 1) + k] = items[i][k]
        BY <1>6, Pieces
    <2> HIDE DEF all
    <2> QED  BY <1>6, <2>1
<1> DEFINE I == {i \in Nat : i <= n => head + End(items, i) = o(i + 1)}
<1>9. I = Nat
    <2>1. 0 \in I
        <3>1. head + End(items, 0) = o(0 + 1)  BY <1>2, <1>8
        <3> QED  BY <3>1
    <2>2. ASSUME NEW i \in I PROVE i + 1 \in I
        <3> SUFFICES ASSUME i + 1 <= n PROVE head + End(items, i + 1) = o((i + 1) + 1)
            OBVIOUS
        <3>1. /\ i + 1 \in 1 .. n /\ i <= n /\ (i + 1) - 1 = i
              /\ i + 1 \in 1 .. n + 1 /\ (i + 1) + 1 \in 1 .. n + 1
            BY <1>2
        <3>2. head + End(items, i) = o(i + 1)
            BY <3>1
        <3>3. Len(items[i + 1]) = o((i + 1) + 1) - o(i + 1)
            BY <1>4, <1>6, <3>1
        <3>4. End(items, i + 1) = End(items, i) + Len(items[i + 1])
            <4>1. End(items, i + 1) = End(items, (i + 1) - 1) + Len(items[i + 1])  BY <1>8, <3>1
            <4> QED  BY <3>1, <4>1
        <3>5. o(i + 1) \in Nat /\ o((i + 1) + 1) \in Nat  BY <1>7, <3>1
        <3>6. i \in 0 .. Len(items)  BY <1>2, <1>6, <3>1
        <3>7. End(items, i) \in 0 .. Len(all)  BY <1>6, <3>6, Pieces
        <3>8. Len(all) \in Nat  BY <1>8, LenProperties
        <3> QED  BY <1>2, <3>2, <3>3, <3>4, <3>5, <3>7, <3>8
    <2>3. I \in SUBSET Nat  OBVIOUS
    <2> HIDE DEF I
    <2> QED  BY <2>1, <2>2, <2>3, SetInduction
<1>10. \A i \in 0 .. n : head + End(items, i) = o(i + 1)
    <2>1. \A i \in 0 .. n : i \in Nat /\ i <= n  BY <1>2
    <2> QED  BY <1>9, <2>1
<1>11. Len(all) \in Nat /\ head + Len(all) = Len(buf)
    <2>1. n \in 0 .. n  BY <1>2
    <2> QED  BY <1>2, <1>8, <1>10, <2>1, LenProperties
<1>12. 4 * (Len(items) + 1) + Len(L!FlattenSeq(items)) < L!TooLong
    BY <1>6, <1>7, <1>11 DEF head
<1>13. /\ ser \in Seq(Octet) /\ Len(ser) = head + Len(all)
       /\ \A k \in 1 .. 4 : ser[k] = L!LittleEndian(Len(ser))[k]
       /\ \A i \in 1 .. n : \A k \in 1 .. 4 :
            ser[4 * i + k] = L!LittleEndian(head + End(items, i - 1))[k]
       /\ \A j \in 1 .. Len(all) : ser[head + j] = all[j]
    BY <1>6, <1>12, TableBytes DEF head
<1> HIDE DEF ser, all
<1>14. ASSUME NEW at \in Nat, at + 4 <= Len(buf), L!WordAt(buf, at) < L!TooLong
       PROVE  \A k \in 1 .. 4 : buf[at + k] = L!LittleEndian(L!WordAt(buf, at))[k]
    <2>1. \A k \in 1 .. 4 : at + k \in 1 .. Len(buf)  BY <1>2, <1>14
    <2>2. \A k \in 1 .. 4 : buf[at + k] \in Octet  BY <2>1, ElementOfSeq
    <2> QED  BY <1>14, <2>2, ReadWordIsWritten
<1>15. ASSUME NEW p \in 1 .. Len(buf) PROVE ser[p] = buf[p]
    <2>1. CASE p <= 4
        <3>1. p \in 1 .. 4 /\ 0 + p = p /\ 0 + 4 <= Len(buf)  BY <1>2, <2>1 DEF head
        <3>2. buf[0 + p] = L!LittleEndian(Len(buf))[p]  BY <1>2, <1>7, <1>14, <3>1
        <3> QED  BY <1>11, <1>13, <3>1, <3>2
    <2>2. CASE 4 < p /\ p <= head
        <3> DEFINE i == (p - 1) \div 4
                   k == p - 4 * i
        <3>1. i \in 1 .. n /\ k \in 1 .. 4 /\ p = 4 * i + k
            BY <1>2, <2>2 DEF head
        <3> HIDE DEF i, k
        <3>2. /\ 4 * i \in Nat /\ 4 * i + 4 <= Len(buf) /\ i \in 1 .. n + 1
              /\ i - 1 \in 0 .. n /\ (i - 1) + 1 = i
            BY <1>2, <3>1 DEF head
        <3>3. L!WordAt(buf, 4 * i) = o(i) /\ o(i) < L!TooLong
            BY <1>5, <1>7, <3>1, <3>2
        <3>4. buf[4 * i + k] = L!LittleEndian(o(i))[k]
            BY <1>14, <3>1, <3>2, <3>3
        <3>5. head + End(items, i - 1) = o(i)
            BY <1>10, <3>2
        <3> QED  BY <1>13, <3>1, <3>4, <3>5
    <2>3. CASE head < p
        <3>1. p - head \in 1 .. Len(all) /\ head + (p - head) = p
            BY <1>2, <1>11, <2>3
        <3>2. PICK i \in 1 .. n : \E j \in 1 .. Len(items[i]) : p - head = End(items, i - 1) + j
            <4>1. p - head \in 1 .. Len(L!FlattenSeq(items))  BY <3>1 DEF all
            <4> QED  BY <1>6, <4>1, EveryPlace
        <3>3. PICK j \in 1 .. Len(items[i]) : p - head = End(items, i - 1) + j
            BY <3>2
        <3>4. i - 1 \in 0 .. n /\ (i - 1) + 1 = i /\ i \in 1 .. n + 1  BY <1>2
        <3>5. head + End(items, i - 1) = o(i) /\ o(i) \in Nat  BY <1>7, <1>10, <3>4
        <3>6. Len(items[i]) = o(i + 1) - o(i) /\ items[i] = L!ItemAt(buf, i, n)  BY <1>4, <1>6
        <3>7. items[i][j] = buf[o(i) + j]  BY <1>4, <3>6
        <3>8. all[End(items, i - 1) + j] = items[i][j]  BY <1>8
        <3>9. ser[head + (p - head)] = all[p - head]  BY <1>13, <3>1
        <3>10. i - 1 \in 0 .. Len(items)  BY <1>6, <3>4
        <3>11. End(items, i - 1) \in 0 .. Len(all)  BY <1>6, <3>10, Pieces DEF all
        <3>12. o(i) + j = p
            <4> DEFINE e == End(items, i - 1)
            <4>1. e \in Int /\ j \in Int /\ p \in Int /\ head \in Int
                BY <1>2, <1>11, <3>11
            <4>2. p - head = e + j /\ head + e = o(i)  BY <3>3, <3>5
            <4> HIDE DEF e
            <4> QED  BY <4>1, <4>2
        <3> QED  BY <3>1, <3>3, <3>7, <3>8, <3>9, <3>12
    <2> QED  BY <1>2, <2>1, <2>2, <2>3
<1>16. ser = buf
    BY <1>11, <1>13, <1>15, SeqEqual
<1> QED  BY <1>16 DEF ser, items, n

\* No shorter piece of what verifyAndExtractOffsets() takes does it take
\* (godwoken/schemas/index.js).
THEOREM NoPieceIsATable ==
    ASSUME NEW buf \in Seq(Octet), L!verifyAndExtractOffsets(buf, 0, TRUE) # L!Refused,
           NEW m \in 0 .. Len(buf) - 1
    PROVE  L!verifyAndExtractOffsets(SubSeq(buf, 1, m), 0, TRUE) = L!Refused
<1> DEFINE piece == SubSeq(buf, 1, m)
<1>0. Len(buf) \in Nat /\ m \in Nat /\ m < Len(buf) /\ m \in Int /\ 1 \in Int
    BY LenProperties
<1>1. L!WordAt(buf, 0) = Len(buf)
    BY Zenon DEF L!verifyAndExtractOffsets
<1>2. \A i \in 1 .. m : buf[i] \in Octet
    BY <1>0, ElementOfSeq
<1>3. Len(piece) = m /\ \A i \in 1 .. m : piece[i] = buf[i]
    <2>1. /\ Len(piece) = (IF 1 <= m THEN m - 1 + 1 ELSE 0)
          /\ \A i \in 1 .. m - 1 + 1 : piece[i] = buf[1 + i - 1]
        BY ONLY <1>0, <1>2, SubSeqProperties
    <2>2. /\ (IF 1 <= m THEN m - 1 + 1 ELSE 0) = m /\ m - 1 + 1 = m
          /\ \A i \in 1 .. m : 1 + i - 1 = i
        BY <1>0
    <2> QED  BY <2>1, <2>2
<1> HIDE DEF piece
<1>4. L!HasWord(piece, 0) => L!WordAt(piece, 0) = L!WordAt(buf, 0)
    <2> SUFFICES ASSUME L!HasWord(piece, 0) PROVE L!WordAt(piece, 0) = L!WordAt(buf, 0)
        OBVIOUS
    <2>1. 4 <= m  BY <1>0, <1>3 DEF L!HasWord
    <2>2. /\ piece[0 + 1] = buf[0 + 1] /\ piece[0 + 2] = buf[0 + 2]
          /\ piece[0 + 3] = buf[0 + 3] /\ piece[0 + 4] = buf[0 + 4]
        BY <1>0, <1>3, <2>1
    <2> QED  BY <2>2 DEF L!WordAt
<1>5. ~L!HasWord(piece, 0) \/ L!WordAt(piece, 0) # Len(piece)
    BY <1>0, <1>1, <1>3, <1>4
<1>6. L!verifyAndExtractOffsets(piece, 0, TRUE) = L!Refused
    BY <1>5, Zenon DEF L!verifyAndExtractOffsets
<1> QED  BY <1>6 DEF piece

\* serializeTable() writes different bytes for different lists of items, whatever
\* their number and their sizes are: what a message is hashed or signed by
\* determines its fields (godwoken/schemas/index.js).
THEOREM TableIsUnambiguous ==
    ASSUME NEW a \in Seq(Seq(Octet)), NEW b \in Seq(Seq(Octet)),
           4 * (Len(a) + 1) + Len(L!FlattenSeq(a)) < L!TooLong,
           4 * (Len(b) + 1) + Len(L!FlattenSeq(b)) < L!TooLong,
           L!serializeTable(a) = L!serializeTable(b)
    PROVE  a = b
<1>1. /\ L!ItemCount(L!serializeTable(a)) = Len(a)
      /\ \A i \in 1 .. Len(a) : L!ItemAt(L!serializeTable(a), i, Len(a)) = a[i]
    BY TableReadsBack
<1>2. /\ L!ItemCount(L!serializeTable(b)) = Len(b)
      /\ \A i \in 1 .. Len(b) : L!ItemAt(L!serializeTable(b), i, Len(b)) = b[i]
    BY TableReadsBack
<1>3. Len(a) = Len(b)
    BY <1>1, <1>2
<1>4. \A i \in 1 .. Len(a) : a[i] = b[i]
    BY <1>1, <1>2, <1>3
<1> QED  BY <1>3, <1>4, SeqEqual

-----------------------------------------------------------------------------
\* Vectors of items of one size.

\* Multiples of a size.
LEMMA Multiples ==
    ASSUME NEW size \in Nat, NEW n \in Nat
    PROVE  /\ n * size \in Nat
           /\ size # 0 => n <= n * size
           /\ \A i \in 1 .. n : /\ (i - 1) * size \in Nat /\ i * size \in Nat
                                 /\ i * size = (i - 1) * size + size /\ i * size <= n * size
<1>1. \A a \in Nat : a * size \in Nat
    OBVIOUS
<1>2. ASSUME size # 0 PROVE n <= n * size
    <2>1. size - 1 \in Nat /\ n * size = n * (size - 1) + n  BY <1>2
    <2>2. \A a \in Nat, b \in Nat : a * b \in Nat  OBVIOUS
    <2>3. n * (size - 1) \in Nat  BY <2>1, <2>2
    <2> QED  BY <1>1, <2>1, <2>3
<1>3. ASSUME NEW i \in 1 .. n
      PROVE  /\ (i - 1) * size \in Nat /\ i * size \in Nat
             /\ i * size = (i - 1) * size + size /\ i * size <= n * size
    <2>1. i \in Nat /\ i - 1 \in Nat /\ n - i \in Nat  OBVIOUS
    <2>2. n * size = i * size + (n - i) * size  BY <2>1
    <2>3. i * size = (i - 1) * size + size  BY <2>1
    <2>4. (i - 1) * size \in Nat /\ i * size \in Nat /\ (n - i) * size \in Nat /\ n * size \in Nat
        BY <1>1, <2>1
    <2> QED  BY <2>2, <2>3, <2>4
<1> QED  BY <1>1, <1>2, <1>3

\* Its bytes: how many items there are, and the items.
LEMMA FixVecBytes ==
    ASSUME NEW items \in Seq(Seq(Octet)), NEW size \in Nat,
           \A i \in 1 .. Len(items) : Len(items[i]) = size,
           Len(items) < L!TooLong
    PROVE  LET n   == Len(items)
               buf == L!serializeFixVec(items)
           IN /\ buf \in Seq(Octet) /\ Len(buf) = n * size + 4
              /\ \A k \in 1 .. 4 : buf[k] = L!LittleEndian(n)[k]
              /\ \A i \in 1 .. n : \A k \in 1 .. size : buf[4 + (i - 1) * size + k] = items[i][k]
<1> DEFINE n == Len(items)
           buf == L!serializeFixVec(items)
           all == L!FlattenSeq(items)
           word == L!LittleEndian(n)
<1>0. n \in Nat  BY LenProperties
<1>1. word \in Seq(Octet) /\ Len(word) = 4
    BY <1>0, Words
<1>2. \A i \in 0 .. n : End(items, i) = i * size
    BY SameSize
<1>3. /\ all \in Seq(Octet) /\ End(items, n) = Len(all)
      /\ \A i \in 1 .. n : \A k \in 1 .. Len(items[i]) : all[End(items, i - 1) + k] = items[i][k]
    BY Pieces
<1>4. buf = word \o all
    BY DEF L!serializeFixVec
<1> HIDE DEF buf, all, word, n
<1>5. Len(all) = n * size /\ n * size \in Nat
    <2>1. n \in 0 .. n  BY <1>0
    <2> QED  BY <1>0, <1>2, <1>3, <2>1, Multiples
<1>6. /\ buf \in Seq(Octet) /\ Len(buf) = 4 + n * size
      /\ \A k \in 1 .. 4 + n * size : buf[k] = IF k <= 4 THEN word[k] ELSE all[k - 4]
    <2>1. /\ word \o all \in Seq(Octet) /\ Len(word \o all) = Len(word) + Len(all)
          /\ \A k \in 1 .. Len(word) + Len(all) :
               (word \o all)[k] = IF k <= Len(word) THEN word[k] ELSE all[k - Len(word)]
        BY ONLY <1>1, <1>3, ConcatProperties
    <2> QED  BY <1>1, <1>4, <1>5, <2>1
<1>7. \A k \in 1 .. 4 : buf[k] = word[k]
    <2>1. \A k \in 1 .. 4 : k \in 1 .. 4 + n * size /\ k <= 4  BY <1>5
    <2> QED  BY <1>6, <2>1
<1>8. ASSUME NEW i \in 1 .. n, NEW k \in 1 .. size
      PROVE  buf[4 + (i - 1) * size + k] = items[i][k]
    <2> DEFINE at == (i - 1) * size
    <2>1. at \in Nat /\ i * size = at + size /\ i * size <= n * size /\ i * size \in Nat
        BY <1>0, Multiples
    <2>2. i - 1 \in 0 .. n /\ Len(items[i]) = size  BY <1>0 DEF n
    <2>3. all[at + k] = items[i][k]  BY <1>2, <1>3, <2>2
    <2> HIDE DEF at
    <2>4. at + k <= n * size  BY <1>5, <2>1
    <2>5. 4 + at + k \in 1 .. 4 + n * size /\ ~(4 + at + k <= 4) /\ (4 + at + k) - 4 = at + k
        BY <1>5, <2>1, <2>4
    <2>6. buf[4 + at + k] = all[at + k]  BY <1>6, <2>5
    <2> QED  BY <2>3, <2>6 DEF at
<1>9. Len(buf) = n * size + 4
    BY <1>5, <1>6
<1> QED  BY <1>6, <1>7, <1>8, <1>9 DEF buf, n, word

\* An item of what validate() takes is what lies at its place.
LEMMA FixedItemsBetween ==
    ASSUME NEW buf \in Seq(Octet), NEW size \in Nat, NEW n \in Nat, Len(buf) = n * size + 4,
           NEW i \in 1 .. n
    PROVE  /\ L!FixedItemAt(buf, i, size) \in Seq(Octet)
           /\ Len(L!FixedItemAt(buf, i, size)) = size
           /\ \A k \in 1 .. size : L!FixedItemAt(buf, i, size)[k] = buf[4 + (i - 1) * size + k]
<1> DEFINE from == 4 + (i - 1) * size
           to == 4 + i * size
<1>1. from \in Nat /\ to = from + size /\ to <= Len(buf) /\ Len(buf) \in Nat
    BY Multiples
<1> HIDE DEF from, to
<1>2. L!FixedItemAt(buf, i, size) = SubSeq(buf, from + 1, to)
    BY <1>1 DEF L!FixedItemAt, L!Slice, from, to
<1>3. from + 1 \in Int /\ to \in Int /\ \A k \in from + 1 .. to : buf[k] \in Octet
    <2>1. \A k \in from + 1 .. to : k \in 1 .. Len(buf)  BY <1>1
    <2> QED  BY <1>1, <2>1, ElementOfSeq
<1>4. /\ SubSeq(buf, from + 1, to) \in Seq(Octet)
      /\ Len(SubSeq(buf, from + 1, to)) = IF from + 1 <= to THEN to - (from + 1) + 1 ELSE 0
      /\ \A k \in 1 .. to - (from + 1) + 1 : SubSeq(buf, from + 1, to)[k] = buf[from + 1 + k - 1]
    BY ONLY <1>3, SubSeqProperties
<1>5. /\ to - (from + 1) + 1 = size
      /\ (IF from + 1 <= to THEN to - (from + 1) + 1 ELSE 0) = size
      /\ \A k \in 1 .. size : from + 1 + k - 1 = from + k
    BY <1>1
<1>6. /\ L!FixedItemAt(buf, i, size) \in Seq(Octet)
      /\ Len(L!FixedItemAt(buf, i, size)) = size
      /\ \A k \in 1 .. size : L!FixedItemAt(buf, i, size)[k] = buf[from + k]
    BY <1>2, <1>4, <1>5
<1> QED  BY <1>6 DEF from

\* A vector of any number of items of one size, as its class writes it, its
\* validate() takes, and length() and indexAt() read it back
\* (godwoken/schemas/index.js, Uint32Vec).
THEOREM FixVecReadsBack ==
    ASSUME NEW items \in Seq(Seq(Octet)), NEW size \in Nat,
           \A i \in 1 .. Len(items) : Len(items[i]) = size,
           Len(items) < L!TooLong
    PROVE  LET buf == L!serializeFixVec(items)
           IN /\ L!FixVecOk(buf, size) /\ L!WordAt(buf, 0) = Len(items)
              /\ \A i \in 1 .. Len(items) : L!FixedItemAt(buf, i, size) = items[i]
<1> DEFINE n == Len(items)
           buf == L!serializeFixVec(items)
<1>0. n \in Nat /\ n * size \in Nat /\ \A i \in 1 .. n : items[i] \in Seq(Octet)
    BY LenProperties, Multiples
<1>1. /\ buf \in Seq(Octet) /\ Len(buf) = n * size + 4
      /\ \A k \in 1 .. 4 : buf[k] = L!LittleEndian(n)[k]
      /\ \A i \in 1 .. n : \A k \in 1 .. size : buf[4 + (i - 1) * size + k] = items[i][k]
    BY FixVecBytes
<1>2. \A i \in 1 .. n : Len(items[i]) = size
    OBVIOUS
<1>3. n < L!TooLong
    OBVIOUS
<1> HIDE DEF buf, n
<1>4. L!WordAt(buf, 0) = n
    <2>1. \A k \in 1 .. 4 : buf[0 + k] = L!LittleEndian(n)[k]
        <3>1. \A k \in 1 .. 4 : 0 + k = k  OBVIOUS
        <3> QED  BY <1>1, <3>1
    <2> QED  BY <1>0, <1>3, <2>1, WordIsRead
<1>5. L!FixVecOk(buf, size)
    BY <1>0, <1>1, <1>4 DEF L!FixVecOk, L!HasWord
<1>6. ASSUME NEW i \in 1 .. n PROVE L!FixedItemAt(buf, i, size) = items[i]
    <2> DEFINE item == L!FixedItemAt(buf, i, size)
    <2>1. /\ item \in Seq(Octet) /\ Len(item) = size
          /\ \A k \in 1 .. size : item[k] = buf[4 + (i - 1) * size + k]
        <3>1. buf \in Seq(Octet) /\ size \in Nat /\ n \in Nat /\ Len(buf) = n * size + 4
            BY <1>0, <1>1
        <3> QED  BY ONLY <3>1, i \in 1 .. n, FixedItemsBetween
    <2> HIDE DEF item
    <2>2. \A k \in 1 .. size : item[k] = items[i][k]
        BY <1>1, <2>1
    <2>3. item = items[i]
        BY <1>0, <1>2, <2>1, <2>2, SeqEqual
    <2> QED  BY <2>3 DEF item
<1> QED  BY <1>4, <1>5, <1>6 DEF buf, n

\* Whatever bytes somebody sends: if validate() of a vector of items of one size
\* takes them, they are what its class writes for the items that are read from
\* them (godwoken/schemas/index.js, Uint32Vec).
THEOREM FixVecIsCanonical ==
    ASSUME NEW buf \in Seq(Octet), NEW size \in Nat \ {0}, Len(buf) < L!TooLong,
           L!FixVecOk(buf, size)
    PROVE  L!serializeFixVec([i \in 1 .. L!WordAt(buf, 0) |-> L!FixedItemAt(buf, i, size)]) = buf
<1> DEFINE n == L!WordAt(buf, 0)
           item(i) == L!FixedItemAt(buf, i, size)
           items == [i \in 1 .. n |-> item(i)]
           ser == L!serializeFixVec(items)
<1>0. Len(buf) \in Nat /\ 0 + 4 <= Len(buf) /\ Len(buf) = n * size + 4
    BY LenProperties DEF L!FixVecOk, L!HasWord
<1>1. n \in Nat
    BY <1>0, WordType
<1>2. n * size \in Nat /\ n <= n * size
    BY <1>1, Multiples
<1>3. n < L!TooLong
    <2>1. n < Len(buf)  BY <1>0, <1>1, <1>2
    <2> QED  BY <1>0, <1>1, <2>1 DEF L!TooLong
<1>4. \A k \in 1 .. 4 : buf[k] = L!LittleEndian(n)[k]
    <2>1. \A k \in 1 .. 4 : 0 + k = k /\ k \in 1 .. Len(buf)  BY <1>0
    <2>2. \A k \in 1 .. 4 : buf[0 + k] \in Octet  BY <2>1, ElementOfSeq
    <2>3. \A k \in 1 .. 4 : buf[0 + k] = L!LittleEndian(n)[k]  BY <1>3, <2>2, ReadWordIsWritten
    <2> QED  BY <2>1, <2>3
<1> HIDE DEF n
<1>5. \A i \in 1 .. n : /\ item(i) \in Seq(Octet) /\ Len(item(i)) = size
                         /\ \A k \in 1 .. size : item(i)[k] = buf[4 + (i - 1) * size + k]
    BY <1>0, <1>1, FixedItemsBetween
<1> HIDE DEF item
<1>6. /\ items \in Seq(Seq(Octet)) /\ Len(items) = n
      /\ \A i \in 1 .. n : items[i] = item(i)
    BY <1>1, <1>5
<1> HIDE DEF items
<1>7. \A i \in 1 .. Len(items) : Len(items[i]) = size
    BY <1>5, <1>6
<1>8. /\ ser \in Seq(Octet) /\ Len(ser) = n * size + 4
      /\ \A k \in 1 .. 4 : ser[k] = L!LittleEndian(n)[k]
      /\ \A i \in 1 .. n : \A k \in 1 .. size : ser[4 + (i - 1) * size + k] = items[i][k]
    <2>1. Len(items) < L!TooLong /\ size \in Nat  BY <1>3, <1>6
    <2>2. /\ ser \in Seq(Octet) /\ Len(ser) = Len(items) * size + 4
          /\ \A k \in 1 .. 4 : ser[k] = L!LittleEndian(Len(items))[k]
          /\ \A i \in 1 .. Len(items) : \A k \in 1 .. size : ser[4 + (i - 1) * size + k] = items[i][k]
        BY <1>6, <1>7, <2>1, FixVecBytes
    <2> HIDE DEF ser
    <2> QED  BY <1>6, <2>2
<1> HIDE DEF ser
<1>9. ASSUME NEW p \in 1 .. Len(buf) PROVE ser[p] = buf[p]
    <2>1. CASE p <= 4
        <3>1. p \in 1 .. 4  BY <2>1
        <3> QED  BY <1>4, <1>8, <3>1
    <2>2. CASE 4 < p
        <3> DEFINE q == p - 5
                   i == (q \div size) + 1
                   k == (q % size) + 1
        <3>1. q \in Nat /\ p = 4 + (q + 1) /\ q < n * size /\ p \in Nat
            BY <1>0, <1>2, <2>2
        <3> HIDE DEF q
        <3>2. /\ q \div size \in Nat /\ q % size \in Nat /\ q % size < size
              /\ q = (q \div size) * size + (q % size)
            BY <3>1
        <3> DEFINE d == q \div size
                   r == q % size
        <3> HIDE DEF d, r
        <3>3. d \in Nat /\ r \in Nat /\ r < size /\ q = d * size + r /\ i = d + 1 /\ k = r + 1
            BY <3>2 DEF d, r
        <3> HIDE DEF i, k
        <3>4. d < n
            <4> SUFFICES ASSUME ~(d < n) PROVE FALSE
                OBVIOUS
            <4>1. d - n \in Nat /\ d * size = n * size + (d - n) * size  BY <1>1, <3>3
            <4>2. \A a \in Nat : a * size \in Nat  OBVIOUS
            <4>3. (d - n) * size \in Nat /\ d * size \in Nat  BY <3>3, <4>1, <4>2
            <4> QED  BY <1>2, <3>1, <3>3, <4>1, <4>3
        <3>5. i \in 1 .. n /\ k \in 1 .. size /\ i - 1 = d
            BY <1>1, <3>3, <3>4
        <3>6. p = 4 + (i - 1) * size + k
            <4>1. d * size \in Nat  BY <3>3
            <4>2. p = 4 + d * size + k  BY <3>1, <3>3, <4>1
            <4> QED  BY <3>5, <4>2
        <3>7. ser[4 + (i - 1) * size + k] = buf[4 + (i - 1) * size + k]
            <4>1. ser[4 + (i - 1) * size + k] = items[i][k]  BY <1>8, <3>5, Zenon
            <4>2. item(i)[k] = buf[4 + (i - 1) * size + k]  BY <1>5, <3>5, Zenon
            <4>3. items[i] = item(i)  BY <1>6, <3>5, Zenon
            <4> QED  BY <4>1, <4>2, <4>3, Zenon
        <3> QED  BY <3>6, <3>7
    <2> QED  BY <1>0, <2>1, <2>2
<1>10. ser = buf
    BY <1>0, <1>8, <1>9, SeqEqual
<1> QED  BY <1>10 DEF ser, items, item, n

=============================================================================
