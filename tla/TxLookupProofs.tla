---------------------------- MODULE TxLookupProofs ----------------------------
(***************************************************************************)
(* Proof that an accepted transaction is found, for any number of lookups  *)
(* and of attempts to send, whether or not instant finality is on.  The    *)
(* invariant says where the keys in Redis agree with the transaction at    *)
(* the node, what excuses the deletion of the auto-create-account key, and *)
(* how far a lookup that is watched can be from a wrong answer.            *)
(***************************************************************************)
EXTENDS TxLookup, TLAPS

\* What excuses that an auto-create-account transaction is not found: it has its
\* row, or a contract was deployed to its recipient.
Excused(n) == row # {} \/ n.native = contract

NodeOK ==
    /\ \A n, m \in node : n = m
    /\ \A n \in node :
         /\ n.in # "queue" => account
         /\ n.in = "queue" => n.receipt = "none"
         /\ ~n.native => contract
         /\ n.auto => mapping = {}
    /\ mapping # {} => account
    /\ \A r \in row : r.live => \E n \in node : n.in = "block" /\ n.native = r.native

SenderOK ==
    /\ sender.auto => mapping = {}
    /\ sender.at \in {"balance", "recipient", "submit", "raw", "eth", "gw"} => sender.auto \/ account
    /\ sender.at \in {"submit", "raw", "eth", "gw"} => sender.native \/ contract
    /\ sender.at \in {"raw", "eth", "gw"} =>
         \A n \in node : n.auto = sender.auto /\ n.native = sender.native
    /\ sender.at = "raw" => sender.auto
    /\ sender.at \in {"eth", "gw"} => ~sender.auto
    /\ sender.at = "gw" => mapping \subseteq {sender.native}

\* Lookups that look at the transaction once more, of whoever they are: none
\* deletes its key without an excuse.
DecidesOK(n, seen) ==
    /\ seen.at \in Deciding \ {"signature"} => n.in # "queue"
    /\ seen.at = "again" => seen.hash = n.native \/ Excused(n)

KeptOK ==
    /\ node # {}
    /\ \A r \in row : r.live
    /\ cached => row # {}
    /\ sender.at \notin {"raw", "eth", "gw"}
    /\ \A n \in node :
         /\ ~n.auto => mapping = {n.native}
         /\ n.auto => /\ raw \/ Excused(n)
                      /\ deleting # {} => Excused(n)
                      /\ \A l \in Lookup : DecidesOK(n, lookup[l])

\* A lookup that is watched.
TxOK(n, seen) ==
    /\ n.auto => seen.at \in {"db", "mapping", "raw", "done"} \cup Deciding
    /\ ~n.auto => /\ seen.at \in {"db", "mapping", "node", "receipt", "done"}
                  /\ seen.at \in {"node", "receipt"} => seen.hash = n.native
    /\ seen.at = "done" =>
         /\ seen.answer = "null" => n.auto /\ Excused(n)
         /\ seen.answer = "error" => n.auto \/ n.receipt = "bare"

ReceiptOK(n, seen) ==
    /\ seen.at \in {"hash", "hashdb", "data", "node", "receipt", "done"}
    /\ seen.at \in {"data", "node", "receipt"} => seen.hash = n.native
    /\ seen.stored => row # {} /\ seen.at \notin {"node", "receipt"}
    /\ seen.at = "done" =>
         /\ seen.answer = "null" => ~seen.stored
         /\ seen.answer = "error" => n.receipt = "bare"

WatchedOK ==
    /\ watched # {} => kept
    /\ \A l \in watched, n \in node :
         IF lookup[l].method = "tx" THEN TxOK(n, lookup[l]) ELSE ReceiptOK(n, lookup[l])

LookupInv == TypeOK /\ NodeOK /\ SenderOK /\ (kept => KeptOK) /\ WatchedOK

-----------------------------------------------------------------------------

LEMMA InitInvariant == Init => LookupInv
<1> SUFFICES ASSUME Init PROVE LookupInv
    OBVIOUS
<1>1. /\ account \in BOOLEAN /\ contract = FALSE /\ node = {} /\ row = {} /\ mapping = {}
      /\ raw = FALSE /\ deleting = {} /\ cached = FALSE /\ kept = FALSE /\ watched = {}
      /\ sender.at = "idle" /\ sender.auto = FALSE
    BY DEF Init, NotSending
<1>2. sender \in [at : SendSteps, auto : BOOLEAN, native : BOOLEAN] /\ sends \in 0 .. MaxSends
    BY LookupAssumption DEF Init, NotSending, SendSteps
<1>3. lookup \in [Lookup -> [at : LookupSteps, method : {"tx", "receipt"}, stored : BOOLEAN,
                            hash : BOOLEAN, answer : Answers]]
    BY DEF Init, Idle, LookupSteps, Answers
<1>4. TypeOK
    BY <1>1, <1>2, <1>3 DEF TypeOK
<1>5. NodeOK /\ SenderOK /\ WatchedOK
    BY <1>1 DEF NodeOK, SenderOK, WatchedOK
<1> QED  BY <1>1, <1>4, <1>5 DEF LookupInv

\* Once something was lost, nothing is watched.
LEMMA Lost ==
    ASSUME Lose
    PROVE  (kept' => KeptOK') /\ WatchedOK'
BY DEF Lose, WatchedOK

\* What holds of a lookup stays so while the transaction stays: its row may
\* come, and a contract be deployed.
Onward(n, m) ==
    /\ m.auto = n.auto /\ m.native = n.native
    /\ n.in # "queue" => m.in # "queue"
    /\ n.receipt = "bare" => m.receipt = "bare"
    /\ ~n.native => contract
    /\ row # {} => row' # {}
    /\ contract => contract'

LEMMA ExcusedStays ==
    ASSUME TypeOK, TypeOK', NEW n \in node, NEW m \in node', Onward(n, m), Excused(n)
    PROVE  Excused(m)'
<1>1. CASE row # {}
    BY <1>1 DEF Onward, Excused
<1>2. CASE n.native = contract
    BY <1>2 DEF Onward, Excused, TypeOK
<1> QED  BY <1>1, <1>2 DEF Excused

LEMMA SeenStays ==
    ASSUME TypeOK, TypeOK', NEW n \in node, NEW m \in node', Onward(n, m), NEW seen
    PROVE  /\ DecidesOK(n, seen) => DecidesOK(m, seen)'
           /\ TxOK(n, seen) => TxOK(m, seen)'
           /\ ReceiptOK(n, seen) => ReceiptOK(m, seen)'
BY ExcusedStays DEF DecidesOK, TxOK, ReceiptOK, Onward

-----------------------------------------------------------------------------
\* The world.

\* What the world does that loses nothing, or loses all.
LEMMA WorldStep ==
    ASSUME LookupInv, TypeOK', NodeOK', SenderOK', UNCHANGED <<redis, sender, lookup, kept, watched>>,
           kept => /\ node' # {} /\ \A r \in row' : r.live
                   /\ row # {} => row' # {}
                   /\ \A m \in node' : \E n \in node : Onward(n, m)
    PROVE  LookupInv'
<1>1. UNCHANGED <<mapping, raw, deleting, cached, sender, lookup, kept, watched>> /\ TypeOK
    BY DEF redis, LookupInv
<1>2. ASSUME kept PROVE KeptOK'
    <2>1. KeptOK
        BY <1>2 DEF LookupInv
    <2>2. ASSUME NEW m \in node'
          PROVE  /\ ~m.auto => mapping' = {m.native}
                 /\ m.auto => /\ raw' \/ Excused(m)'
                              /\ deleting' # {} => Excused(m)'
                              /\ \A l \in Lookup : DecidesOK(m, lookup[l])'
        <3>1. PICK n \in node : Onward(n, m)
            BY <1>2
        <3>2. Excused(n) => Excused(m)'
            BY <1>1, <3>1, ExcusedStays
        <3>3. ASSUME NEW l \in Lookup, DecidesOK(n, lookup[l]) PROVE DecidesOK(m, lookup[l])'
            BY <1>1, <3>1, <3>2, <3>3 DEF DecidesOK, Onward
        <3> QED  BY <1>1, <2>1, <3>1, <3>2, <3>3 DEF KeptOK, Onward
    <2> QED  BY <1>1, <1>2, <2>1, <2>2 DEF KeptOK
<1>3. WatchedOK'
    <2> SUFFICES ASSUME NEW l \in watched, NEW m \in node'
                 PROVE  IF lookup[l].method = "tx" THEN TxOK(m, lookup[l])' ELSE ReceiptOK(m, lookup[l])'
        BY <1>1 DEF WatchedOK, LookupInv
    <2>1. PICK n \in node : Onward(n, m)
        BY DEF LookupInv, WatchedOK
    <2>2. Excused(n) => Excused(m)'
        BY <1>1, <2>1, ExcusedStays
    <2>3. IF lookup[l].method = "tx" THEN TxOK(n, lookup[l]) ELSE ReceiptOK(n, lookup[l])
        BY DEF LookupInv, WatchedOK
    <2> QED  BY <1>1, <2>1, <2>2, <2>3 DEF TxOK, ReceiptOK, Onward
<1> QED  BY <1>1, <1>2, <1>3 DEF LookupInv

LEMMA LossStep ==
    ASSUME LookupInv, TypeOK', NodeOK', SenderOK', Lose
    PROVE  LookupInv'
BY Lost DEF LookupInv

LEMMA StepWorldGrows ==
    ASSUME LookupInv, AccountCreated \/ ContractDeployed
    PROVE  LookupInv'
<1>1. /\ UNCHANGED <<node, row, redis, mapping, sender, sends, lookup, kept, watched>>
      /\ account' \in BOOLEAN /\ contract' \in BOOLEAN
      /\ account' = account \/ account' = TRUE
      /\ contract' = contract \/ contract' = TRUE
    BY DEF AccountCreated, ContractDeployed, redis, LookupInv, TypeOK
<1>2. TypeOK'
    BY <1>1 DEF TypeOK, LookupInv, redis
<1>3. NodeOK'
    BY <1>1 DEF NodeOK, LookupInv
<1>4. SenderOK'
    BY <1>1 DEF SenderOK, LookupInv
<1>5. ASSUME kept PROVE /\ node' # {} /\ (\A r \in row' : r.live) /\ (row # {} => row' # {})
                        /\ \A m \in node' : \E n \in node : Onward(n, m)
    <2>1. \A n \in node : Onward(n, n)
        BY <1>1 DEF LookupInv, NodeOK, Onward
    <2> QED  BY <1>1, <1>5, <2>1 DEF LookupInv, KeptOK
<1> QED  BY <1>1, <1>2, <1>3, <1>4, <1>5, WorldStep

\* The transaction moves on at the node.
AtNodes == [auto : BOOLEAN, native : BOOLEAN, in : {"queue", "pool", "block"},
            receipt : {"none", "whole", "bare"}]

LEMMA NodeMoves ==
    ASSUME LookupInv, NEW n \in node, NEW m \in AtNodes, node' = {m}, n.in # "block",
           m.auto = n.auto, m.native = n.native, m.in # "queue", n.receipt = "bare" => m.receipt = "bare",
           account' = TRUE, UNCHANGED <<contract, row, redis, sender, sends, lookup, kept, watched>>
    PROVE  LookupInv'
<1>1. n \in AtNodes /\ \A q \in node : q = n
    BY DEF LookupInv, TypeOK, AtNodes, NodeOK
<1>2. TypeOK'
    BY DEF TypeOK, LookupInv, redis, AtNodes
<1>3. \A r \in row : ~r.live
    BY <1>1 DEF LookupInv, NodeOK
<1>4. NodeOK'
    BY <1>1, <1>3 DEF NodeOK, LookupInv, redis
<1>5. SenderOK'
    BY <1>1 DEF SenderOK, LookupInv, redis
<1>6. Onward(n, m)
    BY DEF Onward, LookupInv, NodeOK
<1>7. ASSUME kept PROVE /\ node' # {} /\ (\A r \in row' : r.live) /\ (row # {} => row' # {})
                        /\ \A q \in node' : \E p \in node : Onward(p, q)
    BY <1>6, <1>7 DEF LookupInv, KeptOK
<1> QED  BY <1>2, <1>4, <1>5, <1>7, WorldStep

LEMMA StepExecute == ASSUME LookupInv, Execute PROVE LookupInv'
<1>1. PICK n \in node, receipt \in {"whole", "bare"} :
        /\ n.in = "queue"
        /\ node' = {[n EXCEPT !.in = "pool", !.receipt = receipt]}
        /\ account' = TRUE /\ UNCHANGED <<contract, row, redis, sender, sends, lookup, kept, watched>>
    BY DEF Execute
<1> DEFINE m == [n EXCEPT !.in = "pool", !.receipt = receipt]
<1>2. n \in AtNodes /\ n.receipt = "none"
    BY <1>1 DEF LookupInv, TypeOK, AtNodes, NodeOK
<1>3. m \in AtNodes /\ m.auto = n.auto /\ m.native = n.native /\ m.in = "pool"
    BY <1>2 DEF AtNodes
<1> QED  BY <1>1, <1>2, <1>3, NodeMoves

LEMMA StepIncludeInBlock == ASSUME LookupInv, IncludeInBlock PROVE LookupInv'
<1>1. PICK n \in node :
        /\ n.in = "pool" /\ node' = {[n EXCEPT !.in = "block"]}
        /\ UNCHANGED <<account, contract, row, redis, sender, sends, lookup, kept, watched>>
    BY DEF IncludeInBlock
<1> DEFINE m == [n EXCEPT !.in = "block"]
<1>2. n \in AtNodes /\ account = TRUE
    BY <1>1 DEF LookupInv, TypeOK, AtNodes, NodeOK
<1>3. m \in AtNodes /\ m.auto = n.auto /\ m.native = n.native /\ m.in = "block" /\ m.receipt = n.receipt
    BY <1>2 DEF AtNodes
<1> QED  BY <1>1, <1>2, <1>3, NodeMoves

LEMMA StepDropTransaction == ASSUME LookupInv, DropTransaction PROVE LookupInv'
<1>1. PICK n \in node : n.in # "block"
    BY DEF DropTransaction
<1>2. node' = {} /\ Lose /\ UNCHANGED <<account, contract, row, redis, sender, sends, lookup>>
    BY DEF DropTransaction
<1>3. \A r \in row : ~r.live
    BY <1>1 DEF LookupInv, NodeOK
<1>4. TypeOK'
    BY <1>2 DEF TypeOK, LookupInv, redis, Lose
<1>5. NodeOK' /\ SenderOK'
    BY <1>2, <1>3 DEF NodeOK, SenderOK, LookupInv, redis
<1> QED  BY <1>2, <1>4, <1>5, LossStep

LEMMA StepRevertBlock == ASSUME LookupInv, RevertBlock PROVE LookupInv'
<1>1. PICK n \in node :
        /\ n.in = "block" /\ node' = {[n EXCEPT !.in = "pool"]} /\ Lose
        /\ row' = {[r EXCEPT !.live = FALSE] : r \in row}
        /\ UNCHANGED <<account, contract, redis, sender, sends, lookup>>
    BY DEF RevertBlock
<1> DEFINE m == [n EXCEPT !.in = "pool"]
<1>2. n \in AtNodes /\ account /\ \A q \in node : q = n
    BY <1>1 DEF LookupInv, TypeOK, AtNodes, NodeOK
<1>3. m \in AtNodes /\ m.auto = n.auto /\ m.native = n.native /\ m.in = "pool"
    BY <1>2 DEF AtNodes
<1>4. \A r \in row' : r \in [native : BOOLEAN, live : BOOLEAN] /\ r.live = FALSE
    <2>1. ASSUME NEW r \in row
          PROVE  LET q == [r EXCEPT !.live = FALSE]
                 IN q \in [native : BOOLEAN, live : BOOLEAN] /\ q.live = FALSE
        <3>1. r \in [native : BOOLEAN, live : BOOLEAN]
            BY DEF LookupInv, TypeOK
        <3> QED  BY <3>1
    <2> QED  BY <1>1, <2>1, Zenon
<1> HIDE DEF m
<1>5. node' = {m} /\ Lose /\ UNCHANGED <<account, contract, redis, sender, sends, lookup>>
    BY <1>1 DEF m
<1>6. TypeOK'
    BY <1>3, <1>4, <1>5 DEF TypeOK, LookupInv, redis, Lose, AtNodes
<1>7. NodeOK'
    BY <1>2, <1>3, <1>4, <1>5 DEF NodeOK, LookupInv, redis
<1>8. SenderOK'
    BY <1>2, <1>3, <1>5 DEF SenderOK, LookupInv, redis
<1> QED  BY <1>5, <1>6, <1>7, <1>8, LossStep

LEMMA StepIndexBlock == ASSUME LookupInv, IndexBlock PROVE LookupInv'
<1>1. PICK n \in node :
        /\ n.in = "block" /\ row = {} /\ row' = {[native |-> n.native, live |-> TRUE]}
        /\ UNCHANGED <<account, contract, node, redis, sender, sends, lookup, kept, watched>>
    BY DEF IndexBlock
<1>2. n \in AtNodes
    BY DEF LookupInv, TypeOK, AtNodes
<1>3. row' \subseteq [native : BOOLEAN, live : BOOLEAN] /\ \A r \in row' : r.live /\ r.native = n.native
    BY <1>1, <1>2 DEF AtNodes
<1>4. TypeOK'
    BY <1>1, <1>3 DEF TypeOK, LookupInv, redis
<1>5. NodeOK' /\ SenderOK'
    BY <1>1, <1>3 DEF NodeOK, SenderOK, LookupInv, redis
<1>6. ASSUME kept PROVE \A q \in node' : \E p \in node : Onward(p, q)
    BY <1>1 DEF LookupInv, KeptOK, NodeOK, Onward
<1> QED  BY <1>1, <1>3, <1>4, <1>5, <1>6, WorldStep

LEMMA StepDeleteBlock == ASSUME LookupInv, DeleteBlock PROVE LookupInv'
<1>1. row' = {} /\ Lose /\ UNCHANGED <<account, contract, node, redis, sender, sends, lookup>>
    BY DEF DeleteBlock
<1>2. TypeOK'
    BY <1>1 DEF TypeOK, LookupInv, redis, Lose
<1>3. NodeOK' /\ SenderOK'
    BY <1>1 DEF NodeOK, SenderOK, LookupInv, redis
<1> QED  BY <1>1, <1>2, <1>3, LossStep

LEMMA StepExpire == ASSUME LookupInv, Expire PROVE LookupInv'
<1>1. /\ UNCHANGED <<outside, deleting, sender, sends, lookup>> /\ raw' \in {raw, FALSE}
      /\ mapping' \in {mapping, {}}
      /\ \/ Lose /\ cached' = cached
         \/ cached' = FALSE /\ UNCHANGED <<mapping, raw, kept, watched>>
    BY DEF Expire
<1>2. TypeOK'
    BY <1>1 DEF TypeOK, LookupInv, outside, Lose
<1>3. NodeOK'
    BY <1>1 DEF NodeOK, LookupInv, outside
<1>4. SenderOK'
    BY <1>1 DEF SenderOK, LookupInv, outside
<1>5. CASE Lose
    BY <1>2, <1>3, <1>4, <1>5, LossStep
<1>6. CASE cached' = FALSE /\ UNCHANGED <<mapping, raw, kept, watched>>
    <2>1. ASSUME kept PROVE KeptOK'
        BY <1>1, <1>6, <2>1 DEF KeptOK, LookupInv, outside, Excused, DecidesOK
    <2>2. WatchedOK'
        BY <1>1, <1>6 DEF WatchedOK, LookupInv, outside, TxOK, ReceiptOK, Excused
    <2> QED  BY <1>2, <1>3, <1>4, <1>6, <2>1, <2>2 DEF LookupInv
<1> QED  BY <1>1, <1>5, <1>6

LEMMA StepDeleteArrives == ASSUME LookupInv, DeleteArrives PROVE LookupInv'
<1>1. /\ deleting # {} /\ deleting' \subseteq deleting /\ raw' = FALSE
      /\ UNCHANGED <<outside, mapping, cached, sender, sends, lookup, kept, watched>>
    BY DEF DeleteArrives
<1>2. TypeOK'
    BY <1>1 DEF TypeOK, LookupInv, outside
<1>3. NodeOK' /\ SenderOK'
    BY <1>1 DEF NodeOK, SenderOK, LookupInv, outside
<1>4. ASSUME kept PROVE KeptOK'
    BY <1>1, <1>4 DEF KeptOK, LookupInv, outside, Excused, DecidesOK
<1>5. WatchedOK'
    BY <1>1 DEF WatchedOK, LookupInv, outside, TxOK, ReceiptOK, Excused
<1> QED  BY <1>1, <1>2, <1>3, <1>4, <1>5 DEF LookupInv

-----------------------------------------------------------------------------
\* eth_sendRawTransaction. Until it is answered, an attempt that has passed the
\* node has nothing kept.

Attempt == [at : SendSteps, auto : BOOLEAN, native : BOOLEAN]

\* A step that changes the attempt alone.
LEMMA SenderStep ==
    ASSUME LookupInv, sender' \in Attempt, sends' \in 0 .. MaxSends, SenderOK',
           UNCHANGED <<outside, redis, lookup, kept, watched>>,
           kept => sender'.at \notin {"raw", "eth", "gw"}
    PROVE  LookupInv'
<1>1. TypeOK' /\ NodeOK'
    BY DEF TypeOK, NodeOK, LookupInv, outside, redis, Attempt
<1>2. ASSUME kept PROVE KeptOK'
    BY <1>2 DEF KeptOK, LookupInv, outside, redis, Excused, DecidesOK
<1>3. WatchedOK'
    BY DEF WatchedOK, LookupInv, outside, redis, TxOK, ReceiptOK, Excused
<1> QED  BY <1>1, <1>2, <1>3 DEF LookupInv

LEMMA SenderTypes ==
    ASSUME LookupInv
    PROVE  sender \in Attempt /\ sends \in 0 .. MaxSends
BY DEF LookupInv, TypeOK, Attempt

\* The attempt goes on or ends.
LEMMA SenderMoves ==
    ASSUME LookupInv, NEW from, NEW to \in SendSteps, Sends(from, to) \/ SendEnds(from)
    PROVE  /\ sender.at = from /\ sender' \in Attempt /\ sends' \in 0 .. MaxSends /\ UNCHANGED lookup
           /\ \/ sender'.at = to /\ sender'.auto = sender.auto /\ sender'.native = sender.native
              \/ sender'.at = "idle" /\ sender'.auto = FALSE /\ sender'.native = FALSE
<1>1. CASE Sends(from, to)
    BY <1>1, SenderTypes DEF Sends, Attempt
<1>2. CASE SendEnds(from)
    BY <1>2, SenderTypes DEF SendEnds, NotSending, Attempt, SendSteps
<1> QED  BY <1>1, <1>2

LEMMA StepSend == ASSUME LookupInv, Send PROVE LookupInv'
<1>1. /\ sender.at = "idle" /\ sends < MaxSends /\ sends' = sends + 1
      /\ sender' = [sender EXCEPT !.at = "price"]
      /\ UNCHANGED <<outside, redis, lookup, kept, watched>>
    BY DEF Send
<1>2. sender' \in Attempt /\ sender'.at = "price" /\ sender'.auto = sender.auto
    BY <1>1, SenderTypes DEF Attempt, SendSteps
<1>3. sends' \in 0 .. MaxSends
    BY <1>1, SenderTypes, LookupAssumption
<1>4. SenderOK'
    BY <1>1, <1>2 DEF SenderOK, LookupInv, redis
<1> QED  BY <1>1, <1>2, <1>3, <1>4, SenderStep

LEMMA StepSendReadsPrice == ASSUME LookupInv, SendReadsPrice PROVE LookupInv'
<1>1. /\ UNCHANGED <<outside, redis, kept, watched>>
      /\ Sends("price", "account") \/ SendEnds("price")
    BY DEF SendReadsPrice
<1>2. /\ sender' \in Attempt /\ sends' \in 0 .. MaxSends /\ UNCHANGED lookup
      /\ sender'.at \in {"account", "idle"} /\ (sender'.auto => sender.auto)
    BY <1>1, SenderMoves DEF SendSteps, Attempt
<1>3. SenderOK'
    BY <1>1, <1>2 DEF SenderOK, LookupInv, redis
<1> QED  BY <1>1, <1>2, <1>3, SenderStep

LEMMA StepSendFindsAccount == ASSUME LookupInv, SendFindsAccount PROVE LookupInv'
<1>1. /\ sender' = [sender EXCEPT !.at = "balance", !.auto = ~account]
      /\ UNCHANGED <<outside, redis, sends, lookup, kept, watched>>
    BY DEF SendFindsAccount
<1>2. account \in BOOLEAN
    BY DEF LookupInv, TypeOK
<1>3. sender' \in Attempt /\ sender'.at = "balance" /\ sender'.auto = ~account
    BY <1>1, <1>2, SenderTypes DEF Attempt, SendSteps
<1>4. SenderOK'
    <2>1. sender'.auto => mapping = {}
        BY <1>3 DEF LookupInv, NodeOK
    <2> QED  BY <1>1, <1>2, <1>3, <2>1 DEF SenderOK, redis, outside
<1> QED  BY <1>1, <1>3, <1>4, SenderTypes, SenderStep

LEMMA StepSendChecksBalance == ASSUME LookupInv, SendChecksBalance PROVE LookupInv'
<1>1. /\ UNCHANGED <<outside, redis, kept, watched>>
      /\ Sends("balance", "recipient") \/ SendEnds("balance")
    BY DEF SendChecksBalance
<1>2. /\ sender' \in Attempt /\ sends' \in 0 .. MaxSends /\ UNCHANGED lookup /\ sender.at = "balance"
      /\ \/ sender'.at = "recipient" /\ sender'.auto = sender.auto
         \/ sender'.at = "idle" /\ sender'.auto = FALSE
    BY <1>1, SenderMoves DEF SendSteps
<1>3. SenderOK'
    BY <1>1, <1>2 DEF SenderOK, LookupInv, redis, outside
<1> QED  BY <1>1, <1>2, <1>3, SenderStep

LEMMA StepSendFindsRecipient == ASSUME LookupInv, SendFindsRecipient PROVE LookupInv'
<1>1. /\ sender.at = "recipient" /\ sender' = [sender EXCEPT !.at = "submit", !.native = ~contract]
      /\ UNCHANGED <<outside, redis, sends, lookup, kept, watched>>
    BY DEF SendFindsRecipient
<1>2. contract \in BOOLEAN
    BY DEF LookupInv, TypeOK
<1>3. /\ sender' \in Attempt /\ sender'.at = "submit" /\ sender'.auto = sender.auto
      /\ sender'.native = ~contract
    BY <1>1, <1>2, SenderTypes DEF Attempt, SendSteps
<1>4. SenderOK'
    <2>1. sender'.native \/ contract
        BY <1>3
    <2> QED  BY <1>1, <1>3, <2>1 DEF SenderOK, LookupInv, redis, outside
<1> QED  BY <1>1, <1>3, <1>4, SenderTypes, SenderStep

\* The node is empty when it takes the transaction, so nothing was kept; and
\* what it takes has no row.
LEMMA StepSubmitL2Transaction == ASSUME LookupInv, SubmitL2Transaction PROVE LookupInv'
<1>1. sender.at = "submit" /\ UNCHANGED <<account, contract, row, redis, kept, watched>>
    BY DEF SubmitL2Transaction, Sends, SendEnds
<1>2. CASE SendEnds("submit") /\ UNCHANGED node
    <2>1. /\ sender' \in Attempt /\ sends' \in 0 .. MaxSends /\ UNCHANGED lookup
          /\ sender'.at = "idle" /\ sender'.auto = FALSE
        BY <1>2, SenderTypes DEF SendEnds, NotSending, Attempt, SendSteps
    <2>2. SenderOK'
        BY <2>1 DEF SenderOK
    <2> QED  BY <1>1, <1>2, <2>1, <2>2, SenderStep DEF outside
<1> DEFINE n == [auto |-> sender.auto, native |-> sender.native, in |-> "queue", receipt |-> "none"]
           to == IF sender.auto THEN "raw" ELSE "eth"
<1>3. CASE node = {} /\ node' = {n} /\ (Sends("submit", to) \/ SendEnds("submit"))
    <2>1. ~kept /\ watched = {}
        BY <1>3 DEF LookupInv, KeptOK, WatchedOK
    <2>2. n \in AtNodes /\ n.auto = sender.auto /\ n.native = sender.native /\ n.in = "queue" /\ n.receipt = "none"
        BY SenderTypes DEF Attempt, AtNodes
    <2>3. to \in {"raw", "eth"} /\ to \in SendSteps /\ (to = "raw" <=> sender.auto)
        BY DEF SendSteps
    <2> HIDE DEF n, to
    <2>4. /\ sender' \in Attempt /\ sends' \in 0 .. MaxSends /\ UNCHANGED lookup
          /\ \/ sender'.at = to /\ sender'.auto = sender.auto /\ sender'.native = sender.native
             \/ sender'.at = "idle" /\ sender'.auto = FALSE /\ sender'.native = FALSE
        BY <1>3, <2>3, SenderMoves
    <2>5. TypeOK'
        BY <1>1, <1>3, <2>2, <2>4 DEF TypeOK, LookupInv, redis, Attempt, AtNodes
    <2>6. NodeOK'
        BY <1>1, <1>3, <2>2 DEF NodeOK, SenderOK, LookupInv, redis
    <2>7. SenderOK'
        BY <1>1, <1>3, <2>2, <2>3, <2>4 DEF SenderOK, LookupInv, redis
    <2>8. WatchedOK' /\ ~kept'
        BY <1>1, <2>1 DEF WatchedOK
    <2> QED  BY <2>5, <2>6, <2>7, <2>8 DEF LookupInv
<1> QED  BY <1>2, <1>3 DEF SubmitL2Transaction

\* After the node nothing was kept, so nothing is watched.
LEMMA NothingKept ==
    ASSUME LookupInv, sender.at \in {"raw", "eth", "gw"}
    PROVE  ~kept /\ watched = {}
BY DEF LookupInv, KeptOK, WatchedOK

LEMMA AnsweredIs ==
    ASSUME LookupInv, SendEnds(sender.at)
    PROVE  /\ sender' \in Attempt /\ sends' \in 0 .. MaxSends /\ UNCHANGED lookup
           /\ sender'.at = "idle" /\ sender'.auto = FALSE /\ SenderOK'
<1>1. /\ sender' \in Attempt /\ sends' \in 0 .. MaxSends /\ UNCHANGED lookup
      /\ sender'.at = "idle" /\ sender'.auto = FALSE
    BY SenderTypes DEF SendEnds, NotSending, Attempt, SendSteps
<1> QED  BY <1>1 DEF SenderOK

LEMMA StepSendCachesRaw == ASSUME LookupInv, SendCachesRaw PROVE LookupInv'
<1>1. /\ sender.at = "raw" /\ SendEnds(sender.at) /\ UNCHANGED <<outside, mapping, deleting, cached, watched>>
      /\ \/ raw' = TRUE /\ Accepted
         \/ UNCHANGED <<raw, kept>>
    BY DEF SendCachesRaw, SendEnds, Accepted
<1>2. ~kept /\ watched = {} /\ sender.auto
    BY <1>1, NothingKept DEF LookupInv, SenderOK
<1>3. /\ sender' \in Attempt /\ sends' \in 0 .. MaxSends /\ UNCHANGED lookup
      /\ sender'.at = "idle" /\ sender'.auto = FALSE /\ SenderOK'
    BY <1>1, AnsweredIs
<1>4. kept' \in BOOLEAN /\ raw' \in BOOLEAN
    BY <1>1 DEF LookupInv, TypeOK, Accepted
<1>5. TypeOK'
    BY <1>1, <1>3, <1>4 DEF TypeOK, LookupInv, outside, Attempt
<1>6. NodeOK'
    BY <1>1 DEF NodeOK, LookupInv, outside
<1>7. WatchedOK'
    BY <1>1, <1>2 DEF WatchedOK
<1>8. ASSUME kept' PROVE KeptOK'
    <2>1. raw' = TRUE /\ Accepted
        BY <1>1, <1>2, <1>8
    <2>2. /\ node # {} /\ (\A r \in row : r.live) /\ (cached => row # {}) /\ deleting = {}
          /\ \A l \in Lookup : lookup[l].at \notin Deciding
        BY <1>2, <1>8, <2>1 DEF Accepted
    <2>3. \A n \in node : n.auto
        BY <1>1, <1>2 DEF LookupInv, SenderOK
    <2>4. \A l \in Lookup : lookup'[l].at \notin Deciding
        BY <1>3, <2>2
    <2>5. \A l \in Lookup, n \in node' : DecidesOK(n, lookup[l])'
        BY <2>4 DEF DecidesOK, Deciding
    <2> QED  BY <1>1, <1>3, <2>1, <2>2, <2>3, <2>5 DEF KeptOK, outside
<1> QED  BY <1>3, <1>5, <1>6, <1>7, <1>8 DEF LookupInv

LEMMA StepSendCachesEthHash == ASSUME LookupInv, SendCachesEthHash PROVE LookupInv'
<1>1. /\ sender.at = "eth" /\ UNCHANGED <<outside, raw, deleting, cached, kept, watched>>
      /\ \/ Sends("eth", "gw") /\ mapping' = {sender.native}
         \/ SendEnds("eth") /\ UNCHANGED mapping
    BY DEF SendCachesEthHash, Sends, SendEnds
<1>2. ~kept /\ watched = {} /\ ~sender.auto /\ account
    BY <1>1, NothingKept DEF LookupInv, SenderOK
<1>3. /\ sender' \in Attempt /\ sends' \in 0 .. MaxSends /\ UNCHANGED lookup
      /\ \/ /\ sender'.at = "gw" /\ sender'.auto = sender.auto /\ sender'.native = sender.native
            /\ mapping' = {sender.native}
         \/ sender'.at = "idle" /\ sender'.auto = FALSE /\ mapping' = mapping
    <2>1. CASE Sends("eth", "gw") /\ mapping' = {sender.native}
        BY <2>1, SenderTypes DEF Sends, Attempt, SendSteps
    <2>2. CASE SendEnds("eth") /\ UNCHANGED mapping
        BY <1>1, <2>2, AnsweredIs
    <2> QED  BY <1>1, <2>1, <2>2
<1>4. TypeOK'
    BY <1>1, <1>3, SenderTypes DEF TypeOK, LookupInv, outside, Attempt
<1>5. NodeOK'
    <2>1. \A n \in node : ~n.auto
        BY <1>1, <1>2 DEF LookupInv, SenderOK
    <2> QED  BY <1>1, <1>2, <2>1 DEF NodeOK, LookupInv, outside
<1>6. SenderOK'
    BY <1>1, <1>2, <1>3 DEF SenderOK, LookupInv, outside
<1>7. WatchedOK' /\ ~kept'
    BY <1>1, <1>2 DEF WatchedOK
<1> QED  BY <1>4, <1>5, <1>6, <1>7 DEF LookupInv

LEMMA StepSendCachesGwHash == ASSUME LookupInv, SendCachesGwHash PROVE LookupInv'
<1>1. /\ sender.at = "gw" /\ SendEnds(sender.at) /\ UNCHANGED <<outside, redis, watched>>
      /\ Accepted \/ UNCHANGED kept
    BY DEF SendCachesGwHash, SendEnds, Accepted
<1>2. ~kept /\ watched = {} /\ ~sender.auto
    BY <1>1, NothingKept DEF LookupInv, SenderOK
<1>3. /\ sender' \in Attempt /\ sends' \in 0 .. MaxSends /\ UNCHANGED lookup
      /\ sender'.at = "idle" /\ sender'.auto = FALSE /\ SenderOK'
    BY <1>1, AnsweredIs
<1>4. kept' \in BOOLEAN
    BY <1>1 DEF LookupInv, TypeOK, Accepted
<1>5. TypeOK'
    BY <1>1, <1>3, <1>4 DEF TypeOK, LookupInv, outside, redis, Attempt
<1>6. NodeOK'
    BY <1>1 DEF NodeOK, LookupInv, outside, redis
<1>7. WatchedOK'
    BY <1>1, <1>2 DEF WatchedOK
<1>8. ASSUME kept' PROVE KeptOK'
    <2>1. Accepted
        BY <1>1, <1>2, <1>8
    <2>2. /\ node # {} /\ (\A r \in row : r.live) /\ (cached => row # {}) /\ mapping # {}
        BY <1>2, <1>8, <2>1 DEF Accepted
    <2>3. mapping = {sender.native} /\ \A n \in node : ~n.auto /\ n.native = sender.native
        BY <1>1, <1>2, <2>2 DEF LookupInv, SenderOK
    <2> QED  BY <1>1, <1>3, <2>2, <2>3 DEF KeptOK, outside, redis
<1> QED  BY <1>3, <1>5, <1>6, <1>7, <1>8 DEF LookupInv

-----------------------------------------------------------------------------
\* The lookups.

Seen == [at : LookupSteps, method : {"tx", "receipt"}, stored : BOOLEAN, hash : BOOLEAN, answer : Answers]

SeenOK(n, seen) == IF seen.method = "tx" THEN TxOK(n, seen) ELSE ReceiptOK(n, seen)

\* A lookup leaves all but itself, the deletions and the cache as it is.
LEMMA LooksStep ==
    ASSUME LookupInv, NEW l \in Lookup, lookup' \in [Lookup -> Seen],
           \A t \in Lookup \ {l} : lookup'[t] = lookup[t],
           UNCHANGED <<outside, mapping, raw, sender, sends, kept>>,
           deleting' \in {deleting, deleting \cup {l}}, cached' \in BOOLEAN,
           watched' \in {watched, watched \cup {l}}, l \in watched' => kept,
           kept => /\ cached' => row # {}
                   /\ \A n \in node :
                        n.auto => /\ DecidesOK(n, lookup'[l])
                                  /\ deleting' = deleting \/ Excused(n),
           l \in watched' => \A n \in node : SeenOK(n, lookup'[l])
    PROVE  LookupInv'
<1>1. TypeOK'
    BY DEF TypeOK, LookupInv, outside, Seen
<1>2. NodeOK' /\ SenderOK'
    BY DEF NodeOK, SenderOK, LookupInv, outside
<1>3. ASSUME kept' PROVE KeptOK'
    <2>1. kept /\ KeptOK /\ node' = node /\ row' = row /\ contract' = contract
        BY <1>3 DEF LookupInv, outside
    <2>2. ASSUME NEW n \in node, n.auto
          PROVE  /\ raw' \/ Excused(n)'
                 /\ deleting' # {} => Excused(n)'
                 /\ \A t \in Lookup : DecidesOK(n, lookup[t])'
        <3>1. Excused(n)' <=> Excused(n)
            BY <2>1 DEF Excused
        <3>2. \A t \in Lookup : DecidesOK(n, lookup'[t])
            BY <2>1, <2>2 DEF KeptOK
        <3>3. \A t \in Lookup : DecidesOK(n, lookup[t])'
            BY <3>1, <3>2 DEF DecidesOK
        <3>4. (raw \/ Excused(n)) /\ (deleting # {} => Excused(n)) /\ (deleting' = deleting \/ Excused(n))
            BY <2>1, <2>2 DEF KeptOK
        <3> QED  BY <3>1, <3>3, <3>4
    <2> QED  BY <2>1, <2>2 DEF KeptOK
<1>4. WatchedOK'
    <2> SUFFICES ASSUME NEW t \in watched', NEW n \in node' PROVE SeenOK(n, lookup[t])'
        BY DEF WatchedOK, LookupInv, SeenOK
    <2>1. n \in node /\ row' = row /\ contract' = contract
        BY DEF outside
    <2>2. SeenOK(n, lookup'[t])
        <3>1. CASE t = l
            BY <2>1, <3>1
        <3>2. CASE t # l
            BY <2>1, <3>2 DEF LookupInv, WatchedOK, SeenOK, TypeOK
        <3> QED  BY <3>1, <3>2
    <2> QED  BY <2>1, <2>2 DEF SeenOK, TxOK, ReceiptOK, Excused
<1> QED  BY <1>1, <1>2, <1>3, <1>4 DEF LookupInv

LEMMA SeenTypes ==
    ASSUME LookupInv
    PROVE  lookup \in [Lookup -> Seen] /\ node \subseteq AtNodes /\ deleting \subseteq Lookup
           /\ {account, contract, raw, cached, kept} \subseteq BOOLEAN /\ mapping \subseteq BOOLEAN
           /\ row \subseteq [native : BOOLEAN, live : BOOLEAN]
BY DEF LookupInv, TypeOK, Seen, AtNodes

\* A lookup goes on, or is answered.
Others(l) ==
    /\ lookup' \in [Lookup -> Seen] /\ \A t \in Lookup \ {l} : lookup'[t] = lookup[t]
    /\ lookup'[l].method = lookup[l].method /\ lookup'[l].stored = lookup[l].stored

LEMMA GoesIs ==
    ASSUME LookupInv, NEW l \in Lookup, NEW from, NEW to \in LookupSteps, Goes(l, from, to)
    PROVE  /\ Others(l) /\ UNCHANGED <<sender, sends, kept, watched>>
           /\ lookup[l].at = from /\ lookup'[l].at = to /\ lookup'[l].hash = lookup[l].hash
BY SeenTypes DEF Goes, Seen, Others

LEMMA GoesToHash ==
    ASSUME LookupInv, NEW l \in Lookup, NEW to \in LookupSteps, NEW hash \in BOOLEAN,
           lookup' = [lookup EXCEPT ![l].at = to, ![l].hash = hash]
    PROVE  Others(l) /\ lookup'[l].at = to /\ lookup'[l].hash = hash
<1>1. lookup[l] \in Seen /\ lookup \in [Lookup -> Seen]
    BY SeenTypes
<1>2. lookup' = [lookup EXCEPT ![l] = [lookup[l] EXCEPT !.at = to, !.hash = hash]]
    BY <1>1
<1> DEFINE seen == [lookup[l] EXCEPT !.at = to, !.hash = hash]
<1>3. /\ seen \in Seen /\ seen.at = to /\ seen.hash = hash
      /\ seen.method = lookup[l].method /\ seen.stored = lookup[l].stored
    BY <1>1 DEF Seen
<1> HIDE DEF seen
<1>4. lookup'[l] = seen /\ lookup' \in [Lookup -> Seen] /\ \A t \in Lookup \ {l} : lookup'[t] = lookup[t]
    BY <1>1, <1>2, <1>3 DEF seen
<1> QED  BY <1>3, <1>4 DEF Others

LEMMA AnswersIs ==
    ASSUME LookupInv, NEW l \in Lookup, NEW from, NEW answer \in Answers, AnswersWith(l, from, answer)
    PROVE  /\ Others(l) /\ UNCHANGED <<sender, sends, kept, watched>>
           /\ lookup[l].at = from /\ lookup'[l].at = "done" /\ lookup'[l].answer = answer
<1>1. /\ lookup' = [lookup EXCEPT ![l].at = "done", ![l].hash = FALSE, ![l].answer = answer]
      /\ UNCHANGED <<sender, sends, kept, watched>> /\ lookup[l].at = from
    BY DEF AnswersWith
<1>2. lookup[l] \in Seen /\ lookup \in [Lookup -> Seen]
    BY SeenTypes
<1>3. lookup' = [lookup EXCEPT ![l] = [lookup[l] EXCEPT !.at = "done", !.hash = FALSE, !.answer = answer]]
    BY <1>1, <1>2
<1> DEFINE seen == [lookup[l] EXCEPT !.at = "done", !.hash = FALSE, !.answer = answer]
<1>4. /\ seen \in Seen /\ seen.at = "done" /\ seen.answer = answer
      /\ seen.method = lookup[l].method /\ seen.stored = lookup[l].stored
    BY <1>2 DEF Seen, LookupSteps
<1> HIDE DEF seen
<1>5. lookup'[l] = seen /\ lookup' \in [Lookup -> Seen] /\ \A t \in Lookup \ {l} : lookup'[t] = lookup[t]
    BY <1>2, <1>3, <1>4 DEF seen
<1> QED  BY <1>1, <1>4, <1>5 DEF Others

\* What is known of a lookup that is watched.
LEMMA WatchedIs ==
    ASSUME LookupInv, NEW l \in watched, NEW n \in node
    PROVE  /\ kept /\ KeptOK /\ \A m \in node : m = n
           /\ lookup[l].method = "tx" => TxOK(n, lookup[l])
           /\ lookup[l].method = "receipt" => ReceiptOK(n, lookup[l])
BY DEF LookupInv, WatchedOK, NodeOK

LEMMA DecidesElsewhere ==
    ASSUME NEW n, NEW seen, seen.at \notin Deciding \ {"signature"}
    PROVE  DecidesOK(n, seen)
BY DEF DecidesOK, Deciding

\* A step of a lookup that changes the lookup alone.
Plain(l) == Others(l) /\ UNCHANGED <<outside, redis, sender, sends, kept, watched>>

LEMMA PlainStep ==
    ASSUME LookupInv, NEW l \in Lookup, Plain(l),
           \A n \in node :
              /\ kept /\ n.auto => DecidesOK(n, lookup'[l])
              /\ l \in watched /\ lookup[l].method = "tx" => TxOK(n, lookup'[l])
              /\ l \in watched /\ lookup[l].method = "receipt" => ReceiptOK(n, lookup'[l])
    PROVE  LookupInv'
<1>1. /\ UNCHANGED <<outside, mapping, raw, deleting, cached, sender, sends, kept, watched>>
      /\ cached \in BOOLEAN /\ Others(l)
    BY SeenTypes DEF Plain, redis
<1>2. lookup[l] \in Seen /\ lookup'[l].method = lookup[l].method
    BY <1>1, SeenTypes DEF Others
<1>3. l \in watched => \A n \in node : SeenOK(n, lookup'[l])
    BY <1>2 DEF SeenOK, Seen
<1>4. kept => (cached => row # {})
    BY DEF LookupInv, KeptOK
<1>5. l \in watched => kept
    BY DEF LookupInv, WatchedOK
<1> QED  BY <1>1, <1>3, <1>4, <1>5, LooksStep DEF Others

\* A step that may also delete the key, or cache the row.
LEMMA DeletingStep ==
    ASSUME LookupInv, NEW l \in Lookup, NEW answer \in Answers, NEW from, AnswersWith(l, from, answer),
           UNCHANGED <<outside, mapping, raw>>, deleting' = deleting \cup {l}, cached' \in BOOLEAN,
           kept => /\ cached' => row # {}
                   /\ \A n \in node : n.auto => Excused(n),
           \A n \in node : l \in watched =>
              /\ lookup[l].method = "tx"
              /\ answer # "error" /\ (answer = "null" => n.auto /\ Excused(n))
    PROVE  LookupInv'
<1>1. /\ Others(l) /\ UNCHANGED <<sender, sends, kept, watched>>
      /\ lookup'[l].at = "done" /\ lookup'[l].answer = answer
    BY AnswersIs
<1>2. \A n \in node : DecidesOK(n, lookup'[l])
    BY <1>1, DecidesElsewhere DEF Deciding
<1>3. ASSUME l \in watched, NEW n \in node PROVE SeenOK(n, lookup'[l])
    <2>1. TxOK(n, lookup'[l])
        BY <1>1, <1>3 DEF TxOK
    <2> QED  BY <1>1, <1>3, <2>1 DEF SeenOK, Others
<1>4. l \in watched => kept
    BY DEF LookupInv, WatchedOK
<1> QED  BY <1>1, <1>2, <1>3, <1>4, LooksStep DEF Others

LEMMA StepBegins ==
    ASSUME LookupInv, NEW l \in Lookup, GetTransactionByHash(l) \/ GetTransactionReceipt(l)
    PROVE  LookupInv'
<1>1. PICK method \in {"tx", "receipt"}, at \in {"db", "hash"} :
        Begins(l, method, at) /\ (method = "tx" <=> at = "db")
    BY DEF GetTransactionByHash, GetTransactionReceipt
<1> DEFINE stored == method = "receipt" /\ row # {}
           seen == [lookup[l] EXCEPT !.at = at, !.method = method, !.stored = stored]
<1>2. lookup[l] \in Seen /\ lookup \in [Lookup -> Seen]
    BY SeenTypes
<1>3. /\ lookup[l].at = "idle" /\ UNCHANGED <<outside, redis, sender, sends, kept>>
      /\ lookup' = [lookup EXCEPT ![l] = seen]
      /\ watched' = IF kept THEN watched \cup {l} ELSE watched
    BY <1>1, <1>2 DEF Begins
<1>4. stored \in BOOLEAN
    OBVIOUS
<1>5. seen \in Seen /\ seen.at = at /\ seen.method = method /\ seen.stored = stored
    <2> HIDE DEF stored
    <2> QED  BY <1>2, <1>4 DEF Seen, LookupSteps
<1> HIDE DEF seen
<1>6. lookup'[l] = seen /\ lookup' \in [Lookup -> Seen] /\ \A t \in Lookup \ {l} : lookup'[t] = lookup[t]
    BY <1>2, <1>3, <1>5
<1>7. \A n \in node : DecidesOK(n, lookup'[l])
    BY <1>5, <1>6, DecidesElsewhere DEF Deciding
<1>8. ASSUME NEW n \in node PROVE SeenOK(n, lookup'[l])
    <2>1. CASE method = "tx"
        BY <1>1, <1>5, <1>6, <2>1 DEF SeenOK, TxOK
    <2>2. CASE method = "receipt"
        BY <1>1, <1>5, <1>6, <2>2 DEF SeenOK, ReceiptOK
    <2> QED  BY <2>1, <2>2
<1>9. l \in watched' => kept
    BY <1>3 DEF LookupInv, WatchedOK
<1>10. /\ cached' \in BOOLEAN /\ (kept => (cached' => row # {})) /\ watched' \in {watched, watched \cup {l}}
       /\ UNCHANGED <<mapping, raw, deleting>>
    BY <1>3, SeenTypes DEF redis, LookupInv, KeptOK
<1> QED  BY <1>3, <1>6, <1>7, <1>8, <1>9, <1>10, LooksStep

LEMMA StepQueryDatabase == ASSUME LookupInv, NEW l \in Lookup, QueryDatabase(l) PROVE LookupInv'
<1>1. UNCHANGED <<outside, mapping, raw>>
    BY DEF QueryDatabase
<1>2. CASE /\ row # {} \/ cached
           /\ AnswersWith(l, "db", "row") /\ deleting' = deleting \cup {l} /\ cached' = TRUE
    <2>1. lookup[l].at = "db"
        BY <1>2 DEF AnswersWith
    <2>2. kept => row # {}
        BY <1>2 DEF LookupInv, KeptOK
    <2>3. \A n \in node : l \in watched => lookup[l].method = "tx"
        BY <2>1, SeenTypes, WatchedIs DEF ReceiptOK, Seen
    <2>4. \A n \in node : kept /\ n.auto => Excused(n)
        BY <2>2 DEF Excused
    <2> QED  BY <1>1, <1>2, <2>2, <2>3, <2>4, DeletingStep DEF Answers
<1>3. CASE Goes(l, "db", "mapping") /\ UNCHANGED <<deleting, cached>>
    <2>1. /\ Plain(l) /\ lookup[l].at = "db" /\ lookup'[l].at = "mapping"
        BY <1>1, <1>3, GoesIs DEF Plain, redis, LookupSteps
    <2>2. ASSUME NEW n \in node, l \in watched
          PROVE  /\ lookup[l].method = "tx" => TxOK(n, lookup'[l])
                 /\ lookup[l].method # "receipt"
        BY <2>1, <2>2, WatchedIs DEF TxOK, ReceiptOK
    <2> QED  BY <2>1, <2>2, PlainStep, DecidesElsewhere DEF Deciding
<1> QED  BY <1>2, <1>3 DEF QueryDatabase

LEMMA StepReadMapping == ASSUME LookupInv, NEW l \in Lookup, ReadMapping(l) PROVE LookupInv'
<1>1. UNCHANGED <<outside, redis>> /\ lookup[l].at = "mapping"
    BY DEF ReadMapping, Goes
<1>2. CASE mapping = {} /\ Goes(l, "mapping", "raw")
    <2>1. Plain(l) /\ lookup'[l].at = "raw"
        BY <1>1, <1>2, GoesIs DEF Plain, LookupSteps
    <2>2. ASSUME NEW n \in node, l \in watched
          PROVE  /\ lookup[l].method = "tx" => TxOK(n, lookup'[l])
                 /\ lookup[l].method # "receipt"
        <3>1. n.auto
            BY <1>2, <2>2, WatchedIs DEF KeptOK
        <3> QED  BY <1>1, <2>1, <2>2, <3>1, WatchedIs DEF TxOK, ReceiptOK
    <2> QED  BY <2>1, <2>2, PlainStep, DecidesElsewhere DEF Deciding
<1>3. ASSUME NEW hash \in mapping, lookup' = [lookup EXCEPT ![l].at = "node", ![l].hash = hash],
             UNCHANGED <<sender, sends, kept, watched>>
      PROVE  LookupInv'
    <2>1. Plain(l) /\ lookup'[l].at = "node" /\ lookup'[l].hash = hash
        BY <1>1, <1>3, GoesToHash, SeenTypes DEF Plain, LookupSteps
    <2>2. ASSUME NEW n \in node, l \in watched
          PROVE  /\ lookup[l].method = "tx" => TxOK(n, lookup'[l])
                 /\ lookup[l].method # "receipt"
        <3>1. ~n.auto
            BY <1>3 DEF LookupInv, NodeOK
        <3>2. hash = n.native
            BY <1>3, <2>2, <3>1, WatchedIs DEF KeptOK
        <3> QED  BY <1>1, <2>1, <2>2, <3>1, <3>2, WatchedIs DEF TxOK, ReceiptOK
    <2> QED  BY <2>1, <2>2, PlainStep, DecidesElsewhere DEF Deciding
<1> QED  BY <1>2, <1>3 DEF ReadMapping

LEMMA StepAskNode == ASSUME LookupInv, NEW l \in Lookup, AskNode(l) PROVE LookupInv'
<1>1. UNCHANGED <<outside, redis>> /\ lookup[l].at = "node"
    BY DEF AskNode, Goes, AnswersWith
<1>2. CASE AtNode(lookup[l].hash) /\ Goes(l, "node", "receipt")
    <2>1. Plain(l) /\ lookup'[l].at = "receipt" /\ lookup'[l].hash = lookup[l].hash
        BY <1>1, <1>2, GoesIs DEF Plain, LookupSteps
    <2>2. ASSUME NEW n \in node, l \in watched
          PROVE  /\ lookup[l].method = "tx" => TxOK(n, lookup'[l])
                 /\ lookup[l].method = "receipt" => ReceiptOK(n, lookup'[l])
        BY <1>1, <2>1, <2>2, WatchedIs DEF TxOK, ReceiptOK, Deciding, Others, Plain
    <2> QED  BY <2>1, <2>2, PlainStep, DecidesElsewhere DEF Deciding
<1>3. CASE ~AtNode(lookup[l].hash) /\ AnswersWith(l, "node", "null")
    <2>1. Plain(l) /\ lookup'[l].at = "done" /\ lookup'[l].answer = "null"
        BY <1>1, <1>3, AnswersIs DEF Plain, Answers
    <2>2. ASSUME NEW n \in node, l \in watched
          PROVE  /\ lookup[l].method # "tx"
                 /\ lookup[l].method = "receipt" => ReceiptOK(n, lookup'[l])
        <3>1. lookup[l].method = "tx" => ~n.auto /\ lookup[l].hash = n.native
            BY <1>1, <2>2, WatchedIs DEF TxOK, Deciding
        <3>2. ~(lookup[l].hash = n.native /\ ~n.auto)
            BY <1>3 DEF AtNode
        <3>3. lookup[l].method = "receipt" => ~lookup[l].stored
            BY <1>1, <2>2, WatchedIs DEF ReceiptOK
        <3> QED  BY <2>1, <3>1, <3>2, <3>3 DEF ReceiptOK, Others, Plain
    <2> QED  BY <2>1, <2>2, PlainStep, DecidesElsewhere DEF Deciding
<1> QED  BY <1>2, <1>3 DEF AskNode

LEMMA StepAskReceipt == ASSUME LookupInv, NEW l \in Lookup, AskReceipt(l) PROVE LookupInv'
<1> DEFINE receipts == {n.receipt : n \in {n \in node : AtNode(lookup[l].hash)}}
           answer == IF "bare" \in receipts THEN "error"
                     ELSE IF lookup[l].method = "receipt" /\ "whole" \notin receipts THEN "null"
                     ELSE "pending"
<1>1. UNCHANGED <<outside, redis>> /\ AnswersWith(l, "receipt", answer)
    BY DEF AskReceipt
<1>2. answer = "error" => \E n \in node : n.receipt = "bare"
    OBVIOUS
<1>3. answer = "null" => lookup[l].method = "receipt"
    OBVIOUS
<1>4. answer \in {"error", "null", "pending"}
    OBVIOUS
<1> HIDE DEF answer
<1>5. Plain(l) /\ lookup[l].at = "receipt" /\ lookup'[l].at = "done" /\ lookup'[l].answer = answer
    BY <1>1, <1>4, AnswersIs DEF Plain, Answers
<1>6. ASSUME NEW n \in node, l \in watched
      PROVE  /\ lookup[l].method = "tx" => TxOK(n, lookup'[l])
             /\ lookup[l].method = "receipt" => ReceiptOK(n, lookup'[l])
    <2>1. answer = "error" => n.receipt = "bare"
        BY <1>2, <1>6, WatchedIs
    <2>2. lookup[l].method = "receipt" => ~lookup[l].stored
        BY <1>5, <1>6, WatchedIs DEF ReceiptOK
    <2> QED  BY <1>3, <1>5, <2>1, <2>2 DEF TxOK, ReceiptOK, Others, Plain
<1> QED  BY <1>5, <1>6, PlainStep, DecidesElsewhere DEF Deciding

LEMMA StepReadRaw == ASSUME LookupInv, NEW l \in Lookup, ReadRaw(l) PROVE LookupInv'
<1>1. UNCHANGED <<outside, redis>> /\ lookup[l].at = "raw"
    BY DEF ReadRaw, Goes, AnswersWith
<1>2. \A n \in node : l \in watched => n.auto /\ lookup[l].method # "receipt"
    BY <1>1, WatchedIs, SeenTypes DEF TxOK, ReceiptOK, Seen
<1>3. CASE raw /\ Goes(l, "raw", "signature")
    <2>1. Plain(l) /\ lookup'[l].at = "signature"
        BY <1>1, <1>3, GoesIs DEF Plain, LookupSteps
    <2>2. \A n \in node : l \in watched => TxOK(n, lookup'[l])
        BY <1>2, <2>1 DEF TxOK, Deciding
    <2> QED  BY <1>2, <2>1, <2>2, PlainStep, DecidesElsewhere DEF Deciding
<1>4. CASE ~raw /\ AnswersWith(l, "raw", "null")
    <2>1. Plain(l) /\ lookup'[l].at = "done" /\ lookup'[l].answer = "null"
        BY <1>1, <1>4, AnswersIs DEF Plain, Answers
    <2>2. \A n \in node : l \in watched => n.auto /\ Excused(n)
        BY <1>2, <1>4, WatchedIs DEF KeptOK
    <2>3. \A n \in node : l \in watched => TxOK(n, lookup'[l])
        BY <2>1, <2>2 DEF TxOK
    <2> QED  BY <1>2, <2>1, <2>3, PlainStep, DecidesElsewhere DEF Deciding
<1> QED  BY <1>3, <1>4 DEF ReadRaw

\* Of the steps that decide: a lookup that is watched looks at a transaction from
\* account 0.
LEMMA DecidingIs ==
    ASSUME LookupInv, NEW l \in Lookup, lookup[l].at \in Deciding
    PROVE  \A n \in node : l \in watched => n.auto /\ lookup[l].method = "tx"
BY WatchedIs, SeenTypes DEF TxOK, ReceiptOK, Deciding, Seen

LEMMA DecidingGoes ==
    ASSUME LookupInv, NEW l \in Lookup, lookup[l].at \in Deciding, Plain(l), lookup'[l].at \in Deciding,
           \A n \in node : kept /\ n.auto => DecidesOK(n, lookup'[l])
    PROVE  LookupInv'
<1>1. \A n \in node : l \in watched => TxOK(n, lookup'[l]) /\ lookup[l].method # "receipt"
    BY DecidingIs DEF TxOK, Deciding
<1> QED  BY <1>1, PlainStep

LEMMA DecidingAnswers ==
    ASSUME LookupInv, NEW l \in Lookup, lookup[l].at \in Deciding, UNCHANGED <<outside, redis>>,
           NEW from, NEW answer \in {"pending", "error"}, AnswersWith(l, from, answer)
    PROVE  LookupInv'
<1>1. Plain(l) /\ lookup'[l].at = "done" /\ lookup'[l].answer = answer
    BY AnswersIs DEF Plain, Answers
<1>2. \A n \in node : l \in watched => TxOK(n, lookup'[l]) /\ lookup[l].method # "receipt"
    BY <1>1, DecidingIs DEF TxOK
<1> QED  BY <1>1, <1>2, PlainStep, DecidesElsewhere DEF Deciding

\* The key is deleted: there is an excuse.
LEMMA DecidingDeletes ==
    ASSUME LookupInv, NEW l \in Lookup, lookup[l].at \in Deciding, UNCHANGED <<outside, mapping, raw, cached>>,
           NEW from, NotFound(l, from), \A n \in node : kept /\ n.auto => Excused(n)
    PROVE  LookupInv'
<1>1. AnswersWith(l, from, "null") /\ deleting' = deleting \cup {l} /\ cached' \in BOOLEAN
    BY SeenTypes DEF NotFound
<1>2. kept => (cached' => row # {})
    BY DEF LookupInv, KeptOK
<1>3. \A n \in node : l \in watched => lookup[l].method = "tx" /\ n.auto /\ Excused(n)
    BY DecidingIs, WatchedIs
<1> QED  BY <1>1, <1>2, <1>3, DeletingStep DEF Answers

LEMMA StepAskBySignature == ASSUME LookupInv, NEW l \in Lookup, AskBySignature(l) PROVE LookupInv'
<1>1. UNCHANGED <<outside, redis>> /\ lookup[l].at = "signature" /\ lookup[l].at \in Deciding
    BY DEF AskBySignature, Goes, AnswersWith, Deciding
<1>2. CASE AnswersWith(l, "signature", "pending")
    BY <1>1, <1>2, DecidingAnswers
<1>3. CASE (\A n \in node : n.auto => n.in # "queue") /\ Goes(l, "signature", "from")
    <2>1. Plain(l) /\ lookup'[l].at = "from"
        BY <1>1, <1>3, GoesIs DEF Plain, LookupSteps
    <2>2. \A n \in node : n.auto => DecidesOK(n, lookup'[l])
        BY <1>3, <2>1 DEF DecidesOK
    <2> QED  BY <1>1, <2>1, <2>2, DecidingGoes DEF Deciding
<1> QED  BY <1>2, <1>3 DEF AskBySignature

\* While it is kept, what a lookup decides about has left the queue.
LEMMA Executed ==
    ASSUME LookupInv, NEW l \in Lookup, lookup[l].at \in Deciding \ {"signature"}, kept
    PROVE  \A n \in node : n.auto => n.in # "queue" /\ account
BY DEF LookupInv, KeptOK, DecidesOK, NodeOK

LEMMA StepFindFromId == ASSUME LookupInv, NEW l \in Lookup, FindFromId(l) PROVE LookupInv'
<1>1. /\ UNCHANGED <<outside, mapping, raw, cached>> /\ lookup[l].at = "from"
      /\ lookup[l].at \in Deciding \ {"signature"}
    BY DEF FindFromId, Goes, NotFound, AnswersWith, Deciding
<1>2. CASE Goes(l, "from", "price") /\ UNCHANGED deleting
    <2>1. Plain(l) /\ lookup'[l].at = "price"
        BY <1>1, <1>2, GoesIs DEF Plain, redis, LookupSteps
    <2>2. \A n \in node : kept /\ n.auto => DecidesOK(n, lookup'[l])
        BY <1>1, <2>1, Executed DEF DecidesOK
    <2> QED  BY <1>1, <2>1, <2>2, DecidingGoes DEF Deciding
<1>3. CASE ~account /\ NotFound(l, "from")
    <2>1. \A n \in node : ~(kept /\ n.auto)
        BY <1>1, <1>3, Executed
    <2> QED  BY <1>1, <1>3, <2>1, DecidingDeletes
<1> QED  BY <1>2, <1>3 DEF FindFromId

LEMMA StepChecks == ASSUME LookupInv, NEW l \in Lookup, ReadPrice(l) \/ CheckBalance(l) PROVE LookupInv'
<1>1. PICK from \in {"price", "balance"}, to \in {"balance", "recipient"} :
        /\ UNCHANGED <<outside, redis>>
        /\ Goes(l, from, to) \/ AnswersWith(l, from, "error")
    BY DEF ReadPrice, CheckBalance
<1>2. lookup[l].at \in Deciding \ {"signature"}
    BY <1>1 DEF Goes, AnswersWith, Deciding
<1>3. CASE AnswersWith(l, from, "error")
    BY <1>1, <1>2, <1>3, DecidingAnswers
<1>4. CASE Goes(l, from, to)
    <2>1. Plain(l) /\ lookup'[l].at = to
        BY <1>1, <1>4, GoesIs DEF Plain, LookupSteps
    <2>2. \A n \in node : kept /\ n.auto => DecidesOK(n, lookup'[l])
        BY <1>2, <2>1, Executed DEF DecidesOK
    <2> QED  BY <1>2, <2>1, <2>2, DecidingGoes DEF Deciding
<1> QED  BY <1>1, <1>3, <1>4

\* A contract that was deployed since makes another transaction of it.
LEMMA StepFindRecipient == ASSUME LookupInv, NEW l \in Lookup, FindRecipient(l) PROVE LookupInv'
<1>1. /\ UNCHANGED <<outside, redis, sender, sends, kept, watched>>
      /\ lookup[l].at = "recipient" /\ lookup[l].at \in Deciding \ {"signature"}
      /\ lookup' = [lookup EXCEPT ![l].at = "again", ![l].hash = ~contract]
    BY DEF FindRecipient, Deciding
<1>2. (~contract) \in BOOLEAN
    OBVIOUS
<1>3. Plain(l) /\ lookup'[l].at = "again" /\ lookup'[l].hash = ~contract
    BY <1>1, <1>2, GoesToHash DEF Plain, LookupSteps
<1>4. ASSUME NEW n \in node, kept, n.auto PROVE DecidesOK(n, lookup'[l])
    <2>1. n.in # "queue"
        BY <1>1, <1>4, Executed
    <2>2. n.native \in BOOLEAN /\ contract \in BOOLEAN /\ (n.native \/ contract)
        BY SeenTypes DEF AtNodes, LookupInv, NodeOK
    <2>3. CASE contract
        <3>1. n.native = contract \/ n.native = ~contract
            BY <2>2
        <3> QED  BY <1>3, <2>1, <3>1 DEF DecidesOK, Excused
    <2>4. CASE ~contract
        <3>1. n.native = ~contract
            BY <2>2, <2>4
        <3> QED  BY <1>3, <2>1, <3>1 DEF DecidesOK
    <2> QED  BY <2>3, <2>4
<1> QED  BY <1>1, <1>3, <1>4, DecidingGoes DEF Deciding

LEMMA StepAskNodeAgain == ASSUME LookupInv, NEW l \in Lookup, AskNodeAgain(l) PROVE LookupInv'
<1>1. /\ UNCHANGED <<outside, mapping, raw, cached>> /\ lookup[l].at = "again"
      /\ lookup[l].at \in Deciding \ {"signature"}
    BY DEF AskNodeAgain, NotFound, AnswersWith, Deciding
<1>2. CASE AnswersWith(l, "again", "pending") /\ UNCHANGED deleting
    BY <1>1, <1>2, DecidingAnswers DEF redis
<1>3. CASE ~AtNode(lookup[l].hash) /\ NotFound(l, "again")
    <2>1. ASSUME NEW n \in node, kept, n.auto PROVE Excused(n)
        <3>1. n.in # "queue"
            BY <1>1, <2>1, Executed
        <3>2. lookup[l].hash # n.native
            BY <1>3, <3>1 DEF AtNode
        <3> QED  BY <1>1, <2>1, <3>2 DEF LookupInv, KeptOK, DecidesOK
    <2> QED  BY <1>1, <1>3, <2>1, DecidingDeletes
<1> QED  BY <1>2, <1>3 DEF AskNodeAgain

-----------------------------------------------------------------------------
\* eth_getTransactionReceipt, up to the node.

LEMMA StepReadGwHash == ASSUME LookupInv, NEW l \in Lookup, ReadGwHash(l) PROVE LookupInv'
<1>1. UNCHANGED <<outside, redis>> /\ lookup[l].at = "hash"
    BY DEF ReadGwHash, Goes
<1>2. \A n \in node : l \in watched => lookup[l].method # "tx"
    BY <1>1, WatchedIs DEF TxOK, Deciding
<1>3. CASE Goes(l, "hash", "hashdb")
    <2>1. Plain(l) /\ lookup'[l].at = "hashdb"
        BY <1>1, <1>3, GoesIs DEF Plain, LookupSteps
    <2>2. ASSUME NEW n \in node, l \in watched, lookup[l].method = "receipt" PROVE ReceiptOK(n, lookup'[l])
        BY <2>1, <2>2, WatchedIs DEF ReceiptOK, Others, Plain
    <2> QED  BY <1>2, <2>1, <2>2, PlainStep, DecidesElsewhere DEF Deciding
<1>4. ASSUME NEW hash \in mapping, lookup' = [lookup EXCEPT ![l].at = "data", ![l].hash = hash],
             UNCHANGED <<sender, sends, kept, watched>>
      PROVE  LookupInv'
    <2>1. Plain(l) /\ lookup'[l].at = "data" /\ lookup'[l].hash = hash
        BY <1>1, <1>4, GoesToHash, SeenTypes DEF Plain, LookupSteps
    <2>2. ASSUME NEW n \in node, l \in watched, lookup[l].method = "receipt" PROVE ReceiptOK(n, lookup'[l])
        <3>1. ~n.auto
            BY <1>4 DEF LookupInv, NodeOK
        <3>2. hash = n.native
            BY <1>4, <2>2, <3>1, WatchedIs DEF KeptOK
        <3> QED  BY <2>1, <2>2, <3>2, WatchedIs DEF ReceiptOK, Others, Plain
    <2> QED  BY <1>2, <2>1, <2>2, PlainStep, DecidesElsewhere DEF Deciding
<1> QED  BY <1>3, <1>4 DEF ReadGwHash

\* The row, if there is one, is that of the transaction.
LEMMA LiveRow ==
    ASSUME LookupInv, NEW l \in watched, NEW n \in node, NEW r \in row
    PROVE  r.native = n.native
BY WatchedIs DEF LookupInv, NodeOK, KeptOK

LEMMA StepQueryGwHash == ASSUME LookupInv, NEW l \in Lookup, QueryGwHash(l) PROVE LookupInv'
<1>1. UNCHANGED <<outside, redis>> /\ lookup[l].at = "hashdb"
    BY DEF QueryGwHash, AnswersWith
<1>2. \A n \in node : l \in watched => lookup[l].method # "tx"
    BY <1>1, WatchedIs DEF TxOK, Deciding
<1>3. CASE row = {} /\ AnswersWith(l, "hashdb", "null")
    <2>1. Plain(l) /\ lookup'[l].at = "done" /\ lookup'[l].answer = "null"
        BY <1>1, <1>3, AnswersIs DEF Plain, Answers
    <2>2. ASSUME NEW n \in node, l \in watched, lookup[l].method = "receipt" PROVE ReceiptOK(n, lookup'[l])
        <3>1. ~lookup[l].stored
            BY <1>3, <2>2, WatchedIs DEF ReceiptOK
        <3> QED  BY <2>1, <3>1 DEF ReceiptOK, Others, Plain
    <2> QED  BY <1>2, <2>1, <2>2, PlainStep, DecidesElsewhere DEF Deciding
<1>4. ASSUME NEW r \in row, lookup' = [lookup EXCEPT ![l].at = "data", ![l].hash = r.native],
             UNCHANGED <<sender, sends, kept, watched>>
      PROVE  LookupInv'
    <2>1. Plain(l) /\ lookup'[l].at = "data" /\ lookup'[l].hash = r.native
        BY <1>1, <1>4, GoesToHash, SeenTypes DEF Plain, LookupSteps
    <2>2. ASSUME NEW n \in node, l \in watched, lookup[l].method = "receipt" PROVE ReceiptOK(n, lookup'[l])
        <3>1. r.native = n.native
            BY <2>2, LiveRow
        <3> QED  BY <2>1, <2>2, <3>1, WatchedIs DEF ReceiptOK, Others, Plain
    <2> QED  BY <1>2, <2>1, <2>2, PlainStep, DecidesElsewhere DEF Deciding
<1> QED  BY <1>3, <1>4 DEF QueryGwHash

LEMMA StepQueryReceipt == ASSUME LookupInv, NEW l \in Lookup, QueryReceipt(l) PROVE LookupInv'
<1>1. UNCHANGED <<outside, redis>> /\ lookup[l].at = "data"
    BY DEF QueryReceipt, Goes, AnswersWith
<1>2. \A n \in node : l \in watched => lookup[l].method # "tx"
    BY <1>1, WatchedIs DEF TxOK, Deciding
<1>3. CASE AnswersWith(l, "data", "row")
    <2>1. Plain(l) /\ lookup'[l].at = "done" /\ lookup'[l].answer = "row"
        BY <1>1, <1>3, AnswersIs DEF Plain, Answers
    <2>2. ASSUME NEW n \in node, l \in watched, lookup[l].method = "receipt" PROVE ReceiptOK(n, lookup'[l])
        BY <2>1, <2>2, WatchedIs DEF ReceiptOK, Others, Plain
    <2> QED  BY <1>2, <2>1, <2>2, PlainStep, DecidesElsewhere DEF Deciding
<1>4. CASE ~(\E r \in row : r.native = lookup[l].hash)
    <2>1. ASSUME NEW n \in node, l \in watched, lookup[l].method = "receipt"
          PROVE  ~lookup[l].stored /\ lookup[l].hash = n.native
        <3>1. lookup[l].hash = n.native /\ (lookup[l].stored => row # {})
            BY <1>1, <2>1, WatchedIs DEF ReceiptOK
        <3>2. row = {}
            BY <1>4, <2>1, <3>1, LiveRow
        <3> QED  BY <3>1, <3>2
    <2>2. CASE Goes(l, "data", "node")
        <3>1. Plain(l) /\ lookup'[l].at = "node" /\ lookup'[l].hash = lookup[l].hash
            BY <1>1, <2>2, GoesIs DEF Plain, LookupSteps
        <3>2. ASSUME NEW n \in node, l \in watched, lookup[l].method = "receipt" PROVE ReceiptOK(n, lookup'[l])
            BY <2>1, <3>1, <3>2, WatchedIs DEF ReceiptOK, Others, Plain
        <3> QED  BY <1>2, <3>1, <3>2, PlainStep, DecidesElsewhere DEF Deciding
    <2>3. CASE AnswersWith(l, "data", "null")
        <3>1. Plain(l) /\ lookup'[l].at = "done" /\ lookup'[l].answer = "null"
            BY <1>1, <2>3, AnswersIs DEF Plain, Answers
        <3>2. ASSUME NEW n \in node, l \in watched, lookup[l].method = "receipt" PROVE ReceiptOK(n, lookup'[l])
            BY <2>1, <3>1, <3>2, WatchedIs DEF ReceiptOK, Others, Plain
        <3> QED  BY <1>2, <3>1, <3>2, PlainStep, DecidesElsewhere DEF Deciding
    <2> QED  BY <1>4, <2>2, <2>3 DEF QueryReceipt
<1> QED  BY <1>3, <1>4 DEF QueryReceipt

-----------------------------------------------------------------------------

LEMMA StepEnvironment == ASSUME LookupInv, Environment PROVE LookupInv'
BY StepWorldGrows, StepExecute, StepIncludeInBlock, StepDropTransaction, StepRevertBlock,
   StepIndexBlock, StepDeleteBlock, StepExpire, StepDeleteArrives DEF Environment

LEMMA StepSendRawTransaction == ASSUME LookupInv, SendRawTransaction PROVE LookupInv'
BY StepSend, StepSendReadsPrice, StepSendFindsAccount, StepSendChecksBalance, StepSendFindsRecipient,
   StepSubmitL2Transaction, StepSendCachesRaw, StepSendCachesEthHash, StepSendCachesGwHash
   DEF SendRawTransaction

LEMMA StepLooks == ASSUME LookupInv, NEW l \in Lookup, Looks(l) PROVE LookupInv'
BY StepBegins, StepQueryDatabase, StepReadMapping, StepAskNode, StepAskReceipt, StepReadRaw,
   StepAskBySignature, StepFindFromId, StepChecks, StepFindRecipient, StepAskNodeAgain,
   StepReadGwHash, StepQueryGwHash, StepQueryReceipt DEF Looks

LEMMA NextInvariant == LookupInv /\ [Next]_vars => LookupInv'
<1> SUFFICES ASSUME LookupInv, [Next]_vars PROVE LookupInv'
    OBVIOUS
<1>1. CASE Next
    BY <1>1, StepEnvironment, StepSendRawTransaction, StepLooks DEF Next
<1>2. CASE UNCHANGED vars
    <2>1. UNCHANGED <<outside, redis, sender, sends, lookup, kept, watched>>
        BY <1>2 DEF vars
    <2>2. TypeOK' /\ NodeOK' /\ SenderOK'
        BY <2>1 DEF LookupInv, TypeOK, NodeOK, SenderOK, outside, redis
    <2>3. (kept' => KeptOK') /\ WatchedOK'
        BY <2>1 DEF LookupInv, KeptOK, WatchedOK, TxOK, ReceiptOK, DecidesOK, Excused, outside, redis
    <2> QED  BY <2>2, <2>3 DEF LookupInv
<1> QED  BY <1>1, <1>2

LEMMA LookupInvHolds == Spec => []LookupInv
BY InitInvariant, NextInvariant, PTL DEF Spec

\* The transaction, the keys in Redis, the sender and the lookups keep their types.
THEOREM TypeCorrect == Spec => []TypeOK
<1>1. LookupInv => TypeOK  BY DEF LookupInv
<1> QED  BY <1>1, LookupInvHolds, PTL

\* Whatever the node, the indexer, another attempt to send and other lookups do
\* in between, an accepted transaction of which nothing was lost is found, but
\* for the exceptions that AcceptedIsFound names.
THEOREM AcceptedIsFoundHolds == Spec => []AcceptedIsFound
<1>1. LookupInv => AcceptedIsFound
    <2> SUFFICES ASSUME LookupInv, NEW l \in watched, lookup[l].at = "done"
                 PROVE  \E n \in node :
                          IF lookup[l].method = "tx"
                          THEN /\ lookup[l].answer = "null" => n.auto /\ (row # {} \/ n.native = contract)
                               /\ lookup[l].answer = "error" => n.auto \/ n.receipt = "bare"
                          ELSE /\ lookup[l].answer = "null" => ~lookup[l].stored
                               /\ lookup[l].answer = "error" => n.receipt = "bare"
        BY DEF AcceptedIsFound
    <2>1. PICK n \in node : TRUE
        BY DEF LookupInv, WatchedOK, KeptOK
    <2>2. IF lookup[l].method = "tx" THEN TxOK(n, lookup[l]) ELSE ReceiptOK(n, lookup[l])
        BY <2>1 DEF LookupInv, WatchedOK
    <2> QED  BY <2>1, <2>2 DEF TxOK, ReceiptOK, Excused
<1> QED  BY <1>1, LookupInvHolds, PTL
=============================================================================
