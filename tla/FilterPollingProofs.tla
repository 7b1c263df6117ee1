-------------------------- MODULE FilterPollingProofs --------------------------
(***************************************************************************)
(* Proofs about FilterPolling, for any blocks, any requests that overlap   *)
(* and any cached answers: what lastPoll has passed was reported.  The     *)
(* invariant says of each answer, in the cache or in the hands of a        *)
(* request, that up to its last row it lists every log that is there now;  *)
(* this stays so because ids of logs are never used again, and ids and     *)
(* block numbers ascend together.                                          *)
(***************************************************************************)
EXTENDS FilterPolling, SequenceTheorems, WellFoundedInduction, TLAPS

-----------------------------------------------------------------------------
\* The last row of an answer.

Less == {pair \in Nat \X Nat : pair[1] < pair[2]}

LEMMA NatWell == IsWellFoundedOn(Less, Nat)
<1>1. Less = OpToRel(<, Nat)
    BY DEF Less, OpToRel
<1> QED  BY <1>1, NatLessThanWellFounded

LEMMA Greatest ==
    ASSUME NEW S \in SUBSET Nat, S # {}, NEW bound \in Nat, \A n \in S : n <= bound
    PROVE  \E m \in S : \A n \in S : n <= m
<1> DEFINE T == {bound - n : n \in S}
<1>1. T \subseteq Nat /\ T # {}
    <2>1. \A n \in S : bound - n \in Nat
        OBVIOUS
    <2>2. PICK n \in S : TRUE
        OBVIOUS
    <2>3. bound - n \in T
        OBVIOUS
    <2> QED  BY <2>1, <2>3
<1>2. PICK x \in T : \A y \in T : <<y, x>> \notin Less
    BY <1>1, NatWell, WFMin
<1>3. PICK m \in S : x = bound - m
    BY <1>2
<1>4. ASSUME NEW n \in S PROVE n <= m
    <2>1. bound - n \in T /\ bound - n \in Nat /\ x \in Nat
        BY <1>1, <1>2
    <2>2. ~(bound - n < bound - m)
        BY <1>2, <1>3, <2>1 DEF Less
    <2> QED  BY <2>2
<1> QED  BY <1>4

LEMMA LastIs ==
    ASSUME NEW rows \in SUBSET Row, rows # {}, NEW bound \in Nat, \A q \in rows : q.at <= bound
    PROVE  \E q \in rows : Last(rows) = q.at /\ \A r \in rows : r.at <= q.at
<1> DEFINE S == {q.at : q \in rows}
           last == CHOOSE r \in rows : \A q \in rows : q.at <= r.at
<1>1. \A q \in rows : q.at \in Nat
    BY DEF Row
<1>2. S \in SUBSET Nat /\ S # {} /\ \A n \in S : n <= bound
    BY <1>1
<1>3. PICK m \in S : \A n \in S : n <= m
    BY <1>2, Greatest
<1>4. PICK q \in rows : q.at = m
    BY <1>3
<1>5. \A r \in rows : r.at <= q.at
    BY <1>3, <1>4
<1>6. last \in rows /\ \A r \in rows : r.at <= last.at
    BY <1>5
<1> QED  BY <1>6 DEF Last

-----------------------------------------------------------------------------
\* What is passed and what an answer holds, for logs and for blocks.

\* rows: the logs in the database; next: the id of the next one.
Past(k, from, n, rows, next, replies) ==
    /\ k = "log" => /\ n < next
                    /\ \A r \in rows : from < r.at /\ r.at <= n => r \in replies
    /\ k = "block" => \A m \in from + 1 .. n : \E r \in replies : r.number = m

Covers(k, after, answer, rows, next) ==
    /\ answer \subseteq Row
    /\ \E bound \in Nat : \A q \in answer : q.at <= bound
    /\ k = "log" =>
         \A q \in answer : q.at < next /\ \A r \in rows : after < r.at /\ r.at <= q.at => r \in answer
    /\ k = "block" =>
         \A q \in answer : \A m \in after + 1 .. q.at : \E r \in answer : r.number = m

\* Logs come with new ids, and go.
Moves(rows, next, rows2, next2) ==
    /\ next \in Nat /\ next2 \in Nat /\ next <= next2
    /\ \A r \in rows2 : r.at \in Nat /\ (r \in rows \/ next <= r.at)

LEMMA PastStays ==
    ASSUME NEW k, NEW from, NEW n \in Nat, NEW rows, NEW next, NEW replies,
           NEW rows2, NEW next2, NEW replies2,
           Moves(rows, next, rows2, next2), replies \subseteq replies2,
           Past(k, from, n, rows, next, replies)
    PROVE  Past(k, from, n, rows2, next2, replies2)
<1>1. k = "block" => \A m \in from + 1 .. n : \E r \in replies2 : r.number = m
    BY DEF Past
<1>2. ASSUME k = "log" PROVE n < next2 /\ \A r \in rows2 : from < r.at /\ r.at <= n => r \in replies2
    <2>1. n < next /\ next <= next2 /\ next \in Nat /\ next2 \in Nat
        BY <1>2 DEF Past, Moves
    <2>2. ASSUME NEW r \in rows2, from < r.at, r.at <= n PROVE r \in replies2
        <3>1. r.at \in Nat /\ r.at < next
            BY <2>1, <2>2 DEF Moves
        <3>2. r \in rows
            BY <2>1, <3>1 DEF Moves
        <3> QED  BY <1>2, <2>2, <3>2 DEF Past
    <2> QED  BY <2>1, <2>2
<1> QED  BY <1>1, <1>2 DEF Past

LEMMA CoversStays ==
    ASSUME NEW k, NEW after, NEW answer, NEW rows, NEW next, NEW rows2, NEW next2,
           Moves(rows, next, rows2, next2), Covers(k, after, answer, rows, next)
    PROVE  Covers(k, after, answer, rows2, next2)
<1>1. ASSUME k = "log", NEW q \in answer
      PROVE  q.at < next2 /\ \A r \in rows2 : after < r.at /\ r.at <= q.at => r \in answer
    <2>1. q.at \in Nat /\ q.at < next /\ next <= next2 /\ next \in Nat /\ next2 \in Nat
        BY <1>1 DEF Covers, Moves, Row
    <2>2. ASSUME NEW r \in rows2, after < r.at, r.at <= q.at PROVE r \in answer
        <3>1. r.at \in Nat /\ r.at < next
            BY <2>1, <2>2 DEF Moves
        <3>2. r \in rows
            BY <2>1, <3>1 DEF Moves
        <3> QED  BY <1>1, <2>2, <3>2 DEF Covers
    <2> QED  BY <2>1, <2>2
<1> QED  BY <1>1 DEF Covers

\* Reporting an answer and moving to its last row passes over nothing.
LEMMA PastLast ==
    ASSUME NEW k, NEW from \in Int, NEW n \in Nat, NEW rows, NEW next, NEW replies, NEW answer,
           Past(k, from, n, rows, next, replies), Covers(k, n, answer, rows, next),
           answer # {}, answer \subseteq replies, \A r \in rows : r.at \in Nat
    PROVE  Last(answer) \in Nat /\ Past(k, from, Last(answer), rows, next, replies)
<1>1. PICK q \in answer : Last(answer) = q.at /\ \A r \in answer : r.at <= q.at
    BY LastIs DEF Covers
<1>2. q.at \in Nat
    BY DEF Covers, Row
<1>3. ASSUME k = "log"
      PROVE  q.at < next /\ \A r \in rows : from < r.at /\ r.at <= q.at => r \in replies
    <2>1. q.at < next
        BY <1>3 DEF Covers
    <2>2. ASSUME NEW r \in rows, from < r.at, r.at <= q.at PROVE r \in replies
        <3>1. CASE r.at <= n  BY <1>3, <2>2, <3>1 DEF Past
        <3>2. CASE n < r.at  BY <1>3, <2>2, <3>2 DEF Covers
        <3> QED  BY <3>1, <3>2
    <2> QED  BY <2>1, <2>2
<1>4. ASSUME k = "block", NEW m \in from + 1 .. q.at PROVE \E r \in replies : r.number = m
    <2>1. CASE m <= n
        <3>1. m \in from + 1 .. n  BY <2>1
        <3> QED  BY <1>4, <3>1 DEF Past
    <2>2. CASE n < m
        <3>1. m \in n + 1 .. q.at  BY <1>2, <2>2
        <3>2. \E r \in answer : r.number = m  BY <1>4, <3>1 DEF Covers
        <3> QED  BY <3>2
    <2> QED  BY <2>1, <2>2
<1> QED  BY <1>1, <1>2, <1>3, <1>4 DEF Past

-----------------------------------------------------------------------------
\* The invariant.

LogsOK ==
    /\ \A r \in logs : r.at \in 1 .. nextId - 1 /\ r.number <= Tip
    /\ \A r, q \in logs : r.at <= q.at => r.number <= q.number

RequestOK(s) ==
    /\ pc[s] \in {"toBlock", "query", "updateLastPoll", "insert"} =>
         Past(kind, since, lastPoll[s], logs, nextId, reported)
    /\ pc[s] \in {"updateLastPoll", "insert"} =>
         found[s] # {} /\ Covers(kind, lastPoll[s], found[s], logs, nextId)
    /\ pc[s] = "insert" => found[s] \subseteq reported

AnswersOK == \A a \in answers : Covers(kind, a.key[1], a.rows, logs, nextId)

FilterOK == filter # NoFilter => Past(kind, since, filter, logs, nextId, reported)

SinceOK ==
    /\ kind \in {"block", "log"}
    /\ since = NotYet => filter = NoFilter /\ \A s \in Slot : pc[s] = "idle"

PollInv ==
    /\ TypeOK /\ LogsOK /\ AnswersOK /\ FilterOK /\ SinceOK
    /\ \A s \in Slot : RequestOK(s)

LEMMA Types ==
    ASSUME TypeOK
    PROVE  /\ Len(chain) \in Nat /\ Tip = Len(chain) - 1 /\ nextId \in Nat \ {0} /\ since \in Int
           /\ \A r \in logs : r.at \in Nat /\ r.number \in Nat
           /\ \A s \in Slot : lastPoll[s] \in Nat /\ toBlock[s] \in Nat
           /\ NotYet = -1
BY FilterAssumption DEF TypeOK, Tip, NotYet, Row

LEMMA PollInit == Init => PollInv
<1> SUFFICES ASSUME Init PROVE PollInv
    OBVIOUS
<1>1. /\ chain = << >> /\ logs = {} /\ nextId = 1 /\ answers = {} /\ filter = NoFilter
      /\ kind \in {"block", "log"} /\ since = NotYet /\ reported = {}
      /\ \A s \in Slot : pc[s] = "idle"
    BY DEF Init, Chain!Init
<1>2. TypeOK
    <2>1. nextId \in 1 .. (MaxId + 1)
        BY <1>1, FilterAssumption
    <2>2. /\ pc \in [Slot -> Step] /\ lastPoll \in [Slot -> Nat] /\ toBlock \in [Slot -> Nat]
          /\ found \in [Slot -> SUBSET Row]
        BY DEF Init, Step
    <2> QED  BY <1>1, <2>1, <2>2 DEF TypeOK
<1>3. LogsOK /\ AnswersOK /\ FilterOK /\ SinceOK
    BY <1>1 DEF LogsOK, AnswersOK, FilterOK, SinceOK
<1>4. \A s \in Slot : RequestOK(s)
    BY <1>1 DEF RequestOK
<1> QED  BY <1>2, <1>3, <1>4 DEF PollInv

-----------------------------------------------------------------------------
\* What a step leaves alone stays right.

Frame ==
    /\ Moves(logs, nextId, logs', nextId') /\ reported \subseteq reported'
    /\ UNCHANGED <<kind, since>>

LEMMA NothingMoves ==
    ASSUME TypeOK, UNCHANGED dbVars
    PROVE  Moves(logs, nextId, logs', nextId')
BY Types DEF Moves, dbVars

LEMMA RequestStays ==
    ASSUME PollInv, Frame, NEW s \in Slot, NEW lp, NEW fd, NEW step,
           pc[s] = step, pc'[s] = step, lastPoll[s] = lp, lastPoll'[s] = lp,
           found[s] = fd, found'[s] = fd
    PROVE  RequestOK(s)'
<1>1. lp \in Nat
    BY Types DEF PollInv
<1>2. step \in {"toBlock", "query", "updateLastPoll", "insert"} =>
        Past(kind, since, lp, logs', nextId', reported')
    BY <1>1, PastStays DEF PollInv, RequestOK, Frame
<1>3. step \in {"updateLastPoll", "insert"} =>
        fd # {} /\ Covers(kind, lp, fd, logs', nextId')
    BY CoversStays DEF PollInv, RequestOK, Frame
<1>4. step = "insert" => fd \subseteq reported'
    BY DEF PollInv, RequestOK, Frame
<1>5. kind' = kind /\ since' = since
    BY DEF Frame
<1> QED  BY <1>2, <1>3, <1>4, <1>5 DEF RequestOK

\* The other requests, when one of them moves.
LEMMA OthersStay ==
    ASSUME PollInv, Frame, NEW s \in Slot, NEW t \in Slot, s # t,
           pc'[t] = pc[t], lastPoll'[t] = lastPoll[t], found'[t] = found[t]
    PROVE  RequestOK(t)'
BY RequestStays

LEMMA AnswersStay ==
    ASSUME PollInv, Frame, answers' \subseteq answers
    PROVE  AnswersOK'
<1> SUFFICES ASSUME NEW a \in answers' PROVE Covers(kind', a.key[1], a.rows, logs', nextId')
    BY DEF AnswersOK
<1>1. a \in answers /\ Covers(kind, a.key[1], a.rows, logs, nextId)
    BY DEF PollInv, AnswersOK
<1>2. Covers(kind, a.key[1], a.rows, logs', nextId')
    BY <1>1, CoversStays DEF Frame
<1> QED  BY <1>2 DEF Frame

LEMMA FilterStays ==
    ASSUME PollInv, Frame, filter' \in {filter, NoFilter}
    PROVE  FilterOK'
<1> SUFFICES ASSUME filter' # NoFilter PROVE Past(kind', since', filter', logs', nextId', reported')
    BY DEF FilterOK
<1>1. filter' = filter /\ filter \in Nat /\ Past(kind, since, filter, logs, nextId, reported)
    BY DEF PollInv, FilterOK, TypeOK
<1>2. Past(kind, since, filter, logs', nextId', reported')
    BY <1>1, PastStays DEF Frame
<1> QED  BY <1>1, <1>2 DEF Frame

-----------------------------------------------------------------------------
\* The indexer, the filter's installation and removal, expiry.

LEMMA StepIndex == PollInv /\ (\E b \in Block : Index(b)) => PollInv'
<1> SUFFICES ASSUME PollInv, NEW b \in Block, Index(b) PROVE PollInv'
    OBVIOUS
<1>1. /\ chain' = Append(chain, b)
      /\ UNCHANGED <<answers, filter, kind, since, pc, lastPoll, toBlock, found, reported>>
    BY DEF Index, Chain!Push, requestVars
<1> DEFINE new == [at |-> nextId, number |-> Len(chain), hash |-> b]
<1>2. \/ logs' = logs \cup {new} /\ nextId' = nextId + 1 /\ nextId <= MaxId
      \/ UNCHANGED <<logs, nextId>>
    BY DEF Index
<1>3. /\ Len(chain) \in Nat /\ Tip = Len(chain) - 1 /\ nextId \in Nat \ {0} /\ nextId \in 1 .. MaxId + 1
      /\ \A r \in logs : r.at \in 1 .. nextId - 1 /\ r.number \in Nat /\ r.number <= Tip
    BY Types DEF PollInv, LogsOK, TypeOK
<1>4. chain' \in Seq(Block) /\ Tip' = Tip + 1
    BY <1>1, <1>3 DEF PollInv, TypeOK, Tip
<1>5. new \in Row /\ new.at = nextId /\ new.number = Tip + 1
    BY <1>3 DEF Row
<1> HIDE DEF new
<1>6. logs' \subseteq Row /\ nextId' \in 1 .. MaxId + 1
    BY <1>2, <1>3, <1>5, FilterAssumption DEF PollInv, TypeOK
<1>7. TypeOK'
    BY <1>1, <1>4, <1>6 DEF PollInv, TypeOK
<1>8. LogsOK'
    <2>1. ASSUME NEW r \in logs' PROVE r.at \in 1 .. nextId' - 1 /\ r.number <= Tip'
        BY <1>2, <1>3, <1>4, <1>5
    <2>2. ASSUME NEW r \in logs', NEW q \in logs', r.at <= q.at PROVE r.number <= q.number
        <3>1. CASE r \in logs /\ q \in logs
            BY <2>2, <3>1 DEF PollInv, LogsOK
        <3>2. CASE q \notin logs
            <4>1. q.number = Tip + 1  BY <1>2, <1>5, <3>2
            <4>2. r.number <= Tip + 1  BY <1>4, <2>1
            <4> QED  BY <4>1, <4>2
        <3>3. CASE r \notin logs /\ q \in logs
            <4>1. r.at = nextId /\ q.at < nextId  BY <1>2, <1>3, <1>5, <3>3
            <4> QED  BY <1>3, <2>2, <3>3, <4>1
        <3> QED  BY <3>1, <3>2, <3>3
    <2> QED  BY <2>1, <2>2 DEF LogsOK
<1>9. Frame
    <2>1. Moves(logs, nextId, logs', nextId')
        BY <1>2, <1>3, <1>5 DEF Moves
    <2> QED  BY <1>1, <2>1 DEF Frame
<1>10. AnswersOK' /\ FilterOK'
    BY <1>1, <1>9, AnswersStay, FilterStays
<1>11. \A s \in Slot : RequestOK(s)'
    BY <1>1, <1>9, RequestStays
<1>12. SinceOK'
    BY <1>1 DEF PollInv, SinceOK
<1> QED  BY <1>7, <1>8, <1>10, <1>11, <1>12 DEF PollInv

LEMMA StepRollBack == PollInv /\ RollBack => PollInv'
<1> SUFFICES ASSUME PollInv, RollBack PROVE PollInv'
    OBVIOUS
<1>1. /\ chain # << >> /\ chain' = SubSeq(chain, 1, Len(chain) - 1)
      /\ logs' = {r \in logs : r.number # Tip}
      /\ UNCHANGED <<nextId, answers, filter, kind, since, pc, lastPoll, toBlock, found, reported>>
    BY DEF RollBack, Chain!Pop, requestVars
<1>2. chain' \in Seq(Block) /\ Tip' = Tip - 1 /\ Tip \in Int
    <2> DEFINE n == Len(chain) - 1
    <2>1. n \in Nat /\ \A i \in 1 .. n : chain[i] \in Block
        <3>1. chain \in Seq(Block) /\ Len(chain) \in Nat \ {0}
            BY <1>1 DEF PollInv, TypeOK
        <3> QED  BY <3>1
    <2>2. chain' = SubSeq(chain, 1, n) /\ Tip = n /\ Tip' = Len(chain') - 1
        BY <1>1 DEF Tip
    <2> HIDE DEF n
    <2>3. chain' \in Seq(Block) /\ Len(chain') = IF 1 <= n THEN n - 1 + 1 ELSE 0
        BY <2>1, <2>2, SubSeqProperties
    <2> QED  BY <2>1, <2>2, <2>3
<1>3. TypeOK'
    BY <1>1, <1>2 DEF PollInv, TypeOK
<1>4. LogsOK'
    <2>1. \A r \in logs' : r \in logs /\ r.number \in Nat /\ r.number # Tip
        BY <1>1, Types DEF PollInv
    <2> QED  BY <1>1, <1>2, <2>1 DEF PollInv, LogsOK
<1>5. Frame
    BY <1>1, Types DEF Frame, Moves, PollInv
<1>6. AnswersOK' /\ FilterOK'
    BY <1>1, <1>5, AnswersStay, FilterStays
<1>7. \A s \in Slot : RequestOK(s)'
    BY <1>1, <1>5, RequestStays
<1>8. SinceOK'
    BY <1>1 DEF PollInv, SinceOK
<1> QED  BY <1>3, <1>4, <1>6, <1>7, <1>8 DEF PollInv

LEMMA StepInstall == PollInv /\ Install => PollInv'
<1> SUFFICES ASSUME PollInv, Install PROVE PollInv'
    OBVIOUS
<1>1. /\ since = NotYet /\ filter' = since'
      /\ UNCHANGED <<chain, logs, nextId, answers, kind, pc, lastPoll, toBlock, found, reported>>
      /\ \A s \in Slot : pc[s] = "idle"
    BY DEF Install, dbVars, requestVars, PollInv, SinceOK
<1>2. /\ since' \in Nat
      /\ kind = "log" => since' < nextId
    BY Types DEF Install, PollInv
<1>3. TypeOK'
    BY <1>1, <1>2 DEF PollInv, TypeOK
<1>4. LogsOK' /\ AnswersOK'
    BY <1>1 DEF PollInv, LogsOK, AnswersOK, Tip
<1>5. FilterOK'
    <2>1. \A r \in logs : ~(since' < r.at /\ r.at <= since')
        <3>1. \A r \in logs : r.at \in Nat  BY Types DEF PollInv
        <3>2. \A m, n \in Nat : ~(n < m /\ m <= n)  OBVIOUS
        <3> QED  BY <1>2, <3>1, <3>2, Zenon
    <2>2. \A m \in since' + 1 .. since' : FALSE
        <3>1. \A n \in Nat : \A m \in n + 1 .. n : FALSE  OBVIOUS
        <3> QED  BY <1>2, <3>1, Zenon
    <2>3. Past(kind, since', since', logs, nextId, reported)
        <3>1. kind = "log" => since' < nextId  BY <1>2
        <3> QED  BY <2>1, <2>2, <3>1, Zenon DEF Past
    <2> QED  BY <1>1, <2>3 DEF FilterOK
<1>6. \A s \in Slot : RequestOK(s)'
    BY <1>1 DEF RequestOK
<1>7. SinceOK'
    BY <1>1, <1>2, Types DEF PollInv, SinceOK, NotYet
<1> QED  BY <1>3, <1>4, <1>5, <1>6, <1>7 DEF PollInv

LEMMA StepGone == PollInv /\ (Remove \/ AnswerExpires) => PollInv'
<1> SUFFICES ASSUME PollInv, Remove \/ AnswerExpires PROVE PollInv'
    OBVIOUS
<1>1. /\ UNCHANGED <<chain, logs, nextId, kind, since, pc, lastPoll, toBlock, found, reported>>
      /\ answers' \subseteq answers /\ filter' \in {filter, NoFilter}
    BY DEF Remove, AnswerExpires, dbVars, requestVars
<1>2. TypeOK'
    BY <1>1 DEF PollInv, TypeOK
<1>3. Frame
    BY <1>1, NothingMoves DEF Frame, PollInv, dbVars
<1>4. AnswersOK' /\ FilterOK'
    BY <1>1, <1>3, AnswersStay, FilterStays
<1>5. \A s \in Slot : RequestOK(s)'
    BY <1>1, <1>3, RequestStays
<1>6. LogsOK' /\ SinceOK'
    BY <1>1 DEF PollInv, LogsOK, SinceOK, Tip
<1> QED  BY <1>2, <1>4, <1>5, <1>6 DEF PollInv

-----------------------------------------------------------------------------
\* The steps of a request.

\* A request that only reads.
Reads(s) ==
    /\ UNCHANGED <<chain, logs, nextId, filter, kind, since, reported>>
    /\ \A t \in Slot \ {s} : pc'[t] = pc[t] /\ lastPoll'[t] = lastPoll[t] /\ found'[t] = found[t]

LEMMA ReadStep ==
    ASSUME PollInv, NEW s \in Slot, Reads(s), TypeOK', AnswersOK', RequestOK(s)', filter # NoFilter \/ pc[s] # "idle"
    PROVE  PollInv'
<1>1. Frame
    BY NothingMoves DEF Frame, PollInv, dbVars, Reads
<1>2. FilterOK'
    BY <1>1, FilterStays DEF Reads
<1>3. \A t \in Slot : RequestOK(t)'
    <2>1. \A t \in Slot \ {s} : RequestOK(t)'
        BY <1>1, OthersStay DEF Reads
    <2> QED  BY <2>1
<1>4. LogsOK'
    BY DEF PollInv, LogsOK, Tip, Reads
<1>5. SinceOK'
    BY DEF PollInv, SinceOK, Reads
<1> QED  BY <1>2, <1>3, <1>4, <1>5 DEF PollInv

\* The request is over.
LEMMA EndedIs ==
    ASSUME TypeOK, NEW s \in Slot, NEW step \in {"idle", "failed"}, EndAs(s, step)
    PROVE  /\ pc' \in [Slot -> Step] /\ lastPoll' \in [Slot -> Nat] /\ toBlock' \in [Slot -> Nat]
           /\ found' \in [Slot -> SUBSET Row]
           /\ RequestOK(s)'
           /\ \A t \in Slot \ {s} : pc'[t] = pc[t] /\ lastPoll'[t] = lastPoll[t] /\ found'[t] = found[t]
<1>1. /\ pc' = [pc EXCEPT ![s] = step] /\ lastPoll' = [lastPoll EXCEPT ![s] = 0]
      /\ toBlock' = [toBlock EXCEPT ![s] = 0] /\ found' = [found EXCEPT ![s] = {}]
    BY DEF EndAs
<1>2. pc'[s] = step
    BY <1>1 DEF TypeOK
<1>3. RequestOK(s)'
    BY <1>2 DEF RequestOK
<1> QED  BY <1>1, <1>3 DEF TypeOK, Step

LEMMA StepEnd ==
    ASSUME PollInv, NEW s \in Slot, NEW step \in {"idle", "failed"}, EndAs(s, step),
           UNCHANGED <<dbVars, filter, kind, since, reported>>, AnswersOK',
           \A a \in answers' : a.rows \subseteq Row, pc[s] # "idle"
    PROVE  PollInv'
<1>1. Reads(s) /\ RequestOK(s)'
    BY EndedIs DEF Reads, dbVars, PollInv
<1>2. TypeOK'
    BY EndedIs DEF TypeOK, dbVars, PollInv
<1> QED  BY <1>1, <1>2, ReadStep

LEMMA SameAnswers ==
    ASSUME PollInv, UNCHANGED <<dbVars, kind, since, reported>>, answers' = answers
    PROVE  AnswersOK' /\ \A a \in answers' : a.rows \subseteq Row
<1>1. Frame
    BY NothingMoves DEF Frame, PollInv
<1> QED  BY <1>1, AnswersStay DEF PollInv, TypeOK

LEMMA StepGetFilterChanges == ASSUME PollInv, NEW s \in Slot, GetFilterChanges(s) PROVE PollInv'
<1>1. /\ filter # NoFilter /\ pc' = [pc EXCEPT ![s] = "getLastPoll"]
      /\ UNCHANGED <<dbVars, answers, filter, kind, since, lastPoll, toBlock, found, reported>>
    BY DEF GetFilterChanges
<1>2. TypeOK'
    BY <1>1 DEF PollInv, TypeOK, Step, dbVars
<1>3. pc'[s] = "getLastPoll" /\ \A t \in Slot \ {s} : pc'[t] = pc[t]
    BY <1>1 DEF PollInv, TypeOK
<1>4. RequestOK(s)'
    BY <1>3 DEF RequestOK
<1>5. Reads(s)
    BY <1>1, <1>3 DEF Reads, dbVars
<1>6. AnswersOK'
    BY <1>1, SameAnswers
<1> QED  BY <1>1, <1>2, <1>4, <1>5, <1>6, ReadStep

LEMMA StepGetLastPoll == ASSUME PollInv, NEW s \in Slot, GetLastPoll(s) PROVE PollInv'
<1>1. pc[s] = "getLastPoll" /\ UNCHANGED <<dbVars, answers, filter, kind, since, reported>>
    BY DEF GetLastPoll
<1>2. AnswersOK' /\ \A a \in answers' : a.rows \subseteq Row
    BY <1>1, SameAnswers
<1>3. CASE filter = NoFilter
    BY <1>1, <1>2, <1>3, StepEnd DEF GetLastPoll, End
<1>4. CASE filter # NoFilter
    <2> DEFINE step == IF kind = "log" THEN "toBlock" ELSE "query"
    <2>1. /\ lastPoll' = [lastPoll EXCEPT ![s] = filter] /\ pc' = [pc EXCEPT ![s] = step]
          /\ UNCHANGED <<toBlock, found>> /\ step \in {"toBlock", "query"} /\ filter \in Nat
        BY <1>4 DEF GetLastPoll, PollInv, TypeOK
    <2> HIDE DEF step
    <2>2. TypeOK'
        BY <1>1, <2>1 DEF PollInv, TypeOK, Step, dbVars
    <2>3. /\ pc'[s] = step /\ lastPoll'[s] = filter
          /\ \A t \in Slot \ {s} : pc'[t] = pc[t] /\ lastPoll'[t] = lastPoll[t]
        BY <2>1 DEF PollInv, TypeOK
    <2>4. Past(kind, since, filter, logs, nextId, reported)
        BY <1>4 DEF PollInv, FilterOK
    <2>5. RequestOK(s)'
        BY <1>1, <2>1, <2>3, <2>4 DEF RequestOK, dbVars
    <2>6. Reads(s)
        BY <1>1, <2>1, <2>3 DEF Reads, dbVars
    <2> QED  BY <1>2, <1>4, <2>2, <2>5, <2>6, ReadStep
<1> QED  BY <1>3, <1>4

LEMMA StepToBlock == ASSUME PollInv, NEW s \in Slot, ToBlock(s) PROVE PollInv'
<1>1. pc[s] = "toBlock" /\ UNCHANGED <<dbVars, answers, filter, kind, since, reported>>
    BY DEF ToBlock
<1>2. AnswersOK' /\ \A a \in answers' : a.rows \subseteq Row
    BY <1>1, SameAnswers
<1>3. CASE Tip < 0
    BY <1>1, <1>2, <1>3, StepEnd DEF ToBlock, End
<1>4. CASE ~(Tip < 0)
    <2>1. /\ toBlock' = [toBlock EXCEPT ![s] = Tip] /\ pc' = [pc EXCEPT ![s] = "query"]
          /\ UNCHANGED <<lastPoll, found>> /\ Tip \in Nat
        BY <1>4, Types DEF ToBlock, PollInv
    <2>2. TypeOK'
        BY <1>1, <2>1 DEF PollInv, TypeOK, Step, dbVars
    <2>3. pc'[s] = "query" /\ \A t \in Slot \ {s} : pc'[t] = pc[t]
        BY <2>1 DEF PollInv, TypeOK
    <2>4. Past(kind, since, lastPoll[s], logs, nextId, reported)
        BY <1>1 DEF PollInv, RequestOK
    <2>5. RequestOK(s)'
        BY <1>1, <2>1, <2>3, <2>4 DEF RequestOK, dbVars
    <2>6. Reads(s)
        BY <1>1, <2>1, <2>3 DEF Reads, dbVars
    <2> QED  BY <1>1, <1>2, <2>2, <2>5, <2>6, ReadStep
<1> QED  BY <1>3, <1>4

\* What the database answers.
LEMMA NewerCovers ==
    ASSUME PollInv, NEW s \in Slot
    PROVE  Newer(s) \subseteq Row /\ Covers(kind, lastPoll[s], Newer(s), logs, nextId)
<1>1. /\ lastPoll[s] \in Nat /\ toBlock[s] \in Nat /\ Tip \in Int /\ Tip >= -1 /\ nextId \in Nat \ {0}
      /\ chain \in Seq(Block) /\ Len(chain) \in Nat /\ Tip = Len(chain) - 1
    BY Types DEF PollInv, TypeOK
<1> DEFINE lp == lastPoll[s]
           last == toBlock[s]
<1>2. CASE kind = "log"
    <2>1. Newer(s) = {r \in logs : r.at > lp /\ r.number <= last}
        BY <1>2 DEF Newer, Rows
    <2>2. /\ \A r \in logs : r.at \in 1 .. nextId - 1 /\ r.number \in Nat
          /\ \A r, q \in logs : r.at <= q.at => r.number <= q.number
        BY Types DEF PollInv, LogsOK
    <2> HIDE DEF lp, last
    <2>3. Newer(s) \subseteq Row
        BY <2>1 DEF PollInv, TypeOK
    <2>4. nextId \in Nat /\ \A q \in Newer(s) : q.at <= nextId
        BY <1>1, <2>1, <2>2
    <2>5. ASSUME NEW q \in Newer(s), NEW r \in logs, lp < r.at, r.at <= q.at
          PROVE  r \in Newer(s)
        <3>1. q \in logs /\ q.number <= last /\ r.number <= q.number /\ r.number \in Nat /\ q.number \in Nat
            BY <2>1, <2>2, <2>5
        <3>2. r.number <= last
            BY <1>1, <3>1 DEF last
        <3> QED  BY <1>1, <2>1, <2>2, <2>5, <3>2 DEF lp
    <2>6. \A q \in Newer(s) : q.at < nextId
        BY <1>1, <2>1, <2>2
    <2> QED  BY <1>2, <2>3, <2>4, <2>5, <2>6 DEF Covers, lp
<1>3. CASE kind = "block"
    <2> DEFINE row(n) == [at |-> n, number |-> n, hash |-> chain[n + 1]]
    <2>1. Newer(s) = {r \in {row(n) : n \in 0 .. Tip} : r.at > lp}
        BY <1>3 DEF Newer, Rows
    <2>2. \A n \in 0 .. Tip : row(n) \in Row /\ row(n).at = n /\ row(n).number = n
        <3> SUFFICES ASSUME NEW n \in 0 .. Tip PROVE row(n) \in Row
            OBVIOUS
        <3>1. n \in Nat /\ n + 1 \in 1 .. Len(chain)
            BY <1>1
        <3>2. chain[n + 1] \in Block
            BY <1>1, <3>1
        <3> QED  BY <3>1, <3>2 DEF Row
    <2> HIDE DEF row
    <2>3. Newer(s) \subseteq Row
        BY <2>1, <2>2
    <2>4. Tip + 1 \in Nat /\ \A q \in Newer(s) : q.at <= Tip + 1
        BY <1>1, <2>1, <2>2
    <2>5. ASSUME NEW q \in Newer(s), NEW m \in lp + 1 .. q.at
          PROVE  \E r \in Newer(s) : r.number = m
        <3>1. PICK n \in 0 .. Tip : q = row(n)
            BY <2>1
        <3>2. m \in 0 .. Tip /\ m > lp
            BY <1>1, <2>2, <2>5, <3>1
        <3>3. row(m) \in Newer(s) /\ row(m).number = m
            BY <2>1, <2>2, <3>2
        <3> QED  BY <3>3
    <2> QED  BY <1>3, <2>3, <2>4, <2>5 DEF Covers
<1> QED  BY <1>2, <1>3 DEF PollInv, SinceOK

\* A request takes rows that cover what is after its lastPoll, or ends.
LEMMA StepAnswered ==
    ASSUME PollInv, NEW s \in Slot, NEW rows, pc[s] = "query",
           Covers(kind, lastPoll[s], rows, logs, nextId), Answered(s, rows),
           UNCHANGED <<dbVars, filter, kind, since, reported>>, AnswersOK',
           \A a \in answers' : a.rows \subseteq Row
    PROVE  PollInv'
<1>1. rows \subseteq Row
    BY DEF Covers
<1>2. CASE End(s)
    BY <1>2, StepEnd DEF End
<1>3. CASE /\ rows # {} /\ found' = [found EXCEPT ![s] = rows]
           /\ pc' = [pc EXCEPT ![s] = "updateLastPoll"] /\ UNCHANGED <<lastPoll, toBlock>>
    <2>1. TypeOK'
        BY <1>1, <1>3 DEF PollInv, TypeOK, Step, dbVars
    <2>2. /\ pc'[s] = "updateLastPoll" /\ found'[s] = rows
          /\ \A t \in Slot \ {s} : pc'[t] = pc[t] /\ found'[t] = found[t]
        BY <1>3 DEF PollInv, TypeOK
    <2>3. Past(kind, since, lastPoll[s], logs, nextId, reported)
        BY DEF PollInv, RequestOK
    <2>4. RequestOK(s)'
        BY <1>3, <2>2, <2>3 DEF RequestOK, dbVars
    <2>5. Reads(s)
        BY <1>3, <2>2 DEF Reads, dbVars
    <2> QED  BY <2>1, <2>4, <2>5, ReadStep
<1> QED  BY <1>2, <1>3 DEF Answered

LEMMA StepQueryDatabase == ASSUME PollInv, NEW s \in Slot, QueryDatabase(s) PROVE PollInv'
<1>1. /\ pc[s] = "query" /\ Answered(s, Newer(s))
      /\ UNCHANGED <<dbVars, filter, kind, since, reported>>
      /\ answers' \subseteq answers \cup {[key |-> Key(s), rows |-> Newer(s)]}
    BY DEF QueryDatabase
<1>2. Newer(s) \subseteq Row /\ Covers(kind, lastPoll[s], Newer(s), logs, nextId)
    BY NewerCovers
<1>3. ASSUME NEW a \in answers' PROVE a.rows \subseteq Row /\ Covers(kind, a.key[1], a.rows, logs, nextId)
    <2>1. CASE a \in answers
        BY <2>1 DEF PollInv, TypeOK, AnswersOK
    <2>2. CASE a = [key |-> Key(s), rows |-> Newer(s)]
        <3>1. a.rows = Newer(s) /\ a.key[1] = lastPoll[s]
            BY <2>2 DEF Key
        <3> QED  BY <1>2, <3>1
    <2> QED  BY <1>1, <2>1, <2>2
<1>4. AnswersOK'
    BY <1>1, <1>3 DEF AnswersOK, dbVars
<1> QED  BY <1>1, <1>2, <1>3, <1>4, StepAnswered

LEMMA StepQueryCache == ASSUME PollInv, NEW s \in Slot, QueryCache(s) PROVE PollInv'
<1>1. pc[s] = "query" /\ UNCHANGED <<dbVars, answers, filter, kind, since, reported>>
    BY DEF QueryCache
<1>2. PICK a \in answers : a.key = Key(s) /\ Answered(s, a.rows)
    BY DEF QueryCache
<1>3. Covers(kind, lastPoll[s], a.rows, logs, nextId)
    <2>1. a.key[1] = lastPoll[s]
        BY <1>2 DEF Key
    <2> QED  BY <2>1 DEF PollInv, AnswersOK
<1>4. AnswersOK' /\ \A b \in answers' : b.rows \subseteq Row
    BY <1>1, SameAnswers
<1> QED  BY <1>1, <1>2, <1>3, <1>4, StepAnswered

LEMMA StepUpdateLastPoll == ASSUME PollInv, NEW s \in Slot, UpdateLastPoll(s) PROVE PollInv'
<1>1. pc[s] = "updateLastPoll" /\ UNCHANGED <<dbVars, answers, filter, kind, since>>
    BY DEF UpdateLastPoll
<1>2. CASE End(s) /\ UNCHANGED reported
    <2>1. AnswersOK' /\ \A a \in answers' : a.rows \subseteq Row
        BY <1>1, <1>2, SameAnswers
    <2> QED  BY <1>1, <1>2, <2>1, StepEnd DEF End
<1>3. CASE /\ reported' = reported \cup found[s] /\ pc' = [pc EXCEPT ![s] = "insert"]
           /\ UNCHANGED <<lastPoll, toBlock, found>>
    <2>1. TypeOK'
        <3>1. found[s] \subseteq Row
            BY DEF PollInv, TypeOK
        <3> QED  BY <1>1, <1>3, <3>1 DEF PollInv, TypeOK, Step, dbVars
    <2>2. pc'[s] = "insert" /\ \A t \in Slot \ {s} : pc'[t] = pc[t]
        BY <1>3 DEF PollInv, TypeOK
    <2>3. Frame
        BY <1>1, <1>3, NothingMoves DEF Frame, PollInv
    <2>4. AnswersOK' /\ FilterOK'
        BY <1>1, <2>3, AnswersStay, FilterStays
    <2>5. RequestOK(s)'
        <3>1. /\ Past(kind, since, lastPoll[s], logs, nextId, reported)
              /\ found[s] # {} /\ Covers(kind, lastPoll[s], found[s], logs, nextId)
            BY <1>1 DEF PollInv, RequestOK
        <3>2. Past(kind, since, lastPoll[s], logs', nextId', reported')
            BY <3>1, <2>3, Types, PastStays DEF Frame, PollInv
        <3> QED  BY <1>1, <1>3, <2>2, <3>1, <3>2 DEF RequestOK, dbVars
    <2>6. \A t \in Slot \ {s} : RequestOK(t)'
        BY <1>3, <2>2, <2>3, OthersStay
    <2>7. LogsOK' /\ SinceOK'
        BY <1>1, <1>3, <2>2 DEF PollInv, LogsOK, SinceOK, Tip, dbVars
    <2> QED  BY <2>1, <2>4, <2>5, <2>6, <2>7 DEF PollInv
<1> QED  BY <1>2, <1>3 DEF UpdateLastPoll

LEMMA StepInsert == ASSUME PollInv, NEW s \in Slot, Insert(s) PROVE PollInv'
<1>1. /\ pc[s] = "insert" /\ filter' = Last(found[s]) /\ EndAs(s, "idle")
      /\ UNCHANGED <<dbVars, answers, kind, since, reported>>
    BY DEF Insert, End
<1>2. /\ Past(kind, since, lastPoll[s], logs, nextId, reported)
      /\ found[s] # {} /\ found[s] \subseteq reported
      /\ Covers(kind, lastPoll[s], found[s], logs, nextId)
    BY <1>1 DEF PollInv, RequestOK
<1>3. filter' \in Nat /\ Past(kind, since, filter', logs, nextId, reported)
    <2>1. since \in Int /\ lastPoll[s] \in Nat /\ \A r \in logs : r.at \in Nat
        BY Types DEF PollInv
    <2> QED  BY <1>1, <1>2, <2>1, PastLast
<1>4. /\ pc' \in [Slot -> Step] /\ lastPoll' \in [Slot -> Nat] /\ toBlock' \in [Slot -> Nat]
      /\ found' \in [Slot -> SUBSET Row] /\ RequestOK(s)'
      /\ \A t \in Slot \ {s} : pc'[t] = pc[t] /\ lastPoll'[t] = lastPoll[t] /\ found'[t] = found[t]
    BY <1>1, EndedIs DEF PollInv
<1>5. TypeOK'
    BY <1>1, <1>3, <1>4 DEF PollInv, TypeOK, dbVars
<1>6. Frame
    BY <1>1, NothingMoves DEF Frame, PollInv
<1>7. AnswersOK'
    BY <1>1, <1>6, AnswersStay
<1>8. FilterOK'
    BY <1>1, <1>3 DEF FilterOK, dbVars
<1>9. \A t \in Slot \ {s} : RequestOK(t)'
    BY <1>4, <1>6, OthersStay
<1>10. LogsOK' /\ SinceOK'
    BY <1>1 DEF PollInv, LogsOK, SinceOK, Tip, dbVars
<1> QED  BY <1>4, <1>5, <1>7, <1>8, <1>9, <1>10 DEF PollInv

LEMMA StepFail == ASSUME PollInv, NEW s \in Slot, Fail(s) PROVE PollInv'
<1>1. /\ pc[s] # "idle" /\ EndAs(s, "failed")
      /\ UNCHANGED <<dbVars, answers, filter, kind, since, reported>>
    BY DEF Fail
<1>2. AnswersOK' /\ \A a \in answers' : a.rows \subseteq Row
    BY <1>1, SameAnswers
<1> QED  BY <1>1, <1>2, StepEnd

LEMMA PollNext == PollInv /\ [Next]_vars => PollInv'
<1> SUFFICES ASSUME PollInv, [Next]_vars PROVE PollInv'
    OBVIOUS
<1>1. CASE \E b \in Block : Index(b)  BY <1>1, StepIndex
<1>2. CASE RollBack  BY <1>2, StepRollBack
<1>3. CASE Install  BY <1>3, StepInstall
<1>4. CASE Remove \/ AnswerExpires  BY <1>4, StepGone
<1>5. ASSUME NEW s \in Slot, GetFilterChanges(s) \/ Serve(s) \/ Fail(s) PROVE PollInv'
    BY <1>5, StepGetFilterChanges, StepGetLastPoll, StepToBlock, StepQueryDatabase,
       StepQueryCache, StepUpdateLastPoll, StepInsert, StepFail DEF Serve
<1>6. CASE UNCHANGED vars
    BY <1>6 DEF vars, dbVars, requestVars, PollInv, TypeOK, LogsOK, AnswersOK, FilterOK, SinceOK,
                RequestOK, Tip
<1> QED  BY <1>1, <1>2, <1>3, <1>4, <1>5, <1>6 DEF Next

LEMMA PollInvHolds == Spec => []PollInv
BY PollInit, PollNext, PTL DEF Spec

\* The variables of a filter, of its requests and of the cache keep their types.
THEOREM TypeCorrect == Spec => []TypeOK
<1>1. PollInv => TypeOK  BY DEF PollInv
<1> QED  BY <1>1, PollInvHolds, PTL

\* Whatever rolls back, is answered from the cache or is polled twice at once, a
\* stored log that the lastPoll of a log filter has passed is in some reply.
THEOREM NoLogSkippedHolds == Spec => []NoLogSkipped
<1>1. PollInv => NoLogSkipped
    <2> SUFFICES ASSUME PollInv, kind = "log", NEW r \in logs, since < r.at, filter # NoFilter, r.at <= filter
                 PROVE  r \in reported
        BY DEF NoLogSkipped, Passed
    <2> QED  BY DEF PollInv, FilterOK, Past
<1> QED  BY <1>1, PollInvHolds, PTL

\* A block filter passes over no block number, however blocks roll back and
\* requests overlap.
THEOREM NoNumberSkippedHolds == Spec => []NoNumberSkipped
<1>1. PollInv => NoNumberSkipped
    BY DEF PollInv, FilterOK, Past, NoNumberSkipped
<1> QED  BY <1>1, PollInvHolds, PTL

-----------------------------------------------------------------------------
\* How long a log that stays is not reported.

\* An answer that a poll for the log may get and that does not report it: it
\* leaves the log out, or is an error.
Useless(a, r) ==
    /\ a.key[1] < r.at
    /\ r.number <= a.key[2]
    /\ r \notin a.rows \/ Cardinality(a.rows) > MAX_QUERY_NUMBER

NoneUseless(r) == \A a \in answers : ~Useless(a, r)

\* No more logs are new to the request than a query may return.
Few(s) == ~(Cardinality(Newer(s)) > MAX_QUERY_NUMBER)

\* The request has read nothing yet that keeps the log out of its reply.
OnWay(s, r) ==
    \/ pc[s] = "getLastPoll"
    \/ pc[s] = "toBlock" /\ lastPoll[s] < r.at
    \/ pc[s] = "query" /\ lastPoll[s] < r.at /\ r.number <= toBlock[s]
    \/ pc[s] = "updateLastPoll" /\ r \in found[s]

\* The steps until it replies.
Remaining(s) ==
    CASE pc[s] = "getLastPoll" -> 4 [] pc[s] = "toBlock" -> 3 [] pc[s] = "query" -> 2
      [] pc[s] = "updateLastPoll" -> 1 [] OTHER -> 0

\* A stored log that the filter should report and has not.
Due(r) == kind = "log" /\ r \in logs /\ since < r.at /\ r \notin reported

LEMMA DueIs ==
    ASSUME PollInv, NEW r, Due(r)
    PROVE  /\ r \in Rows /\ r.at \in Nat /\ r.number \in Nat /\ r.number <= Tip
           /\ Tip \in Int /\ 0 <= Tip
           /\ filter # NoFilter => filter \in Nat /\ filter < r.at
<1>1. /\ r \in logs /\ r.at \in Nat /\ r.number \in Nat /\ r.number <= Tip /\ Tip \in Int
      /\ since \in Int
    BY Types DEF Due, PollInv, LogsOK
<1>2. ASSUME filter # NoFilter PROVE filter \in Nat /\ filter < r.at
    <2>1. filter \in Nat  BY <1>2 DEF PollInv, TypeOK
    <2>2. ~(r.at <= filter)
        BY <1>1, <1>2 DEF Due, PollInv, FilterOK, Past
    <2> QED  BY <1>1, <2>1, <2>2
<1> QED  BY <1>1, <1>2 DEF Due, Rows

\* The database's answer to a request on its way lists the log.
LEMMA NewerLists ==
    ASSUME PollInv, NEW r, Due(r), NEW s \in Slot, lastPoll[s] < r.at, r.number <= toBlock[s]
    PROVE  r \in Newer(s)
<1>1. r \in Rows  BY DueIs
<1> QED  BY <1>1 DEF Newer

\* No step but a query of the database adds a useless answer, and that one only
\* when too many logs are new.
LEMMA UselessGo ==
    ASSUME PollInv, [Next]_vars, NEW r, Due(r), \A s \in Slot : pc[s] = "query" => Few(s),
           NEW a \in answers', Useless(a, r)
    PROVE  a \in answers
<1>1. ASSUME NEW s \in Slot, QueryDatabase(s) PROVE a \in answers
    <2>1. /\ pc[s] = "query"
          /\ answers' \subseteq answers \cup {[key |-> Key(s), rows |-> Newer(s)]}
        BY <1>1 DEF QueryDatabase
    <2>2. ASSUME a = [key |-> Key(s), rows |-> Newer(s)] PROVE FALSE
        <3>1. a.key[1] = lastPoll[s] /\ a.key[2] = toBlock[s] /\ a.rows = Newer(s)
            BY <2>2 DEF Key
        <3>2. lastPoll[s] < r.at /\ r.number <= toBlock[s]
            BY <3>1 DEF Useless
        <3>3. r \in a.rows
            BY <3>1, <3>2, NewerLists
        <3> QED  BY <2>1, <3>1, <3>3 DEF Useless, Few
    <2> QED  BY <2>1, <2>2
<1>2. ASSUME NEW s \in Slot,
             GetFilterChanges(s) \/ GetLastPoll(s) \/ ToBlock(s) \/ QueryCache(s)
                 \/ UpdateLastPoll(s) \/ Insert(s) \/ Fail(s)
      PROVE  answers' = answers
    BY <1>2
    DEF GetFilterChanges, GetLastPoll, ToBlock, QueryCache, UpdateLastPoll, Insert, Fail
<1>3. ASSUME (\E b \in Block : Index(b)) \/ RollBack \/ Install \/ Remove \/ UNCHANGED vars
      PROVE  answers' = answers
    BY <1>3 DEF Index, RollBack, Install, Remove, vars
<1>4. CASE AnswerExpires  BY <1>4 DEF AnswerExpires
<1> QED  BY <1>1, <1>2, <1>3, <1>4 DEF Next, Serve

\* A step of another request, of the indexer or of the cache leaves it on its way.
LEMMA OthersPass ==
    ASSUME PollInv, [Next]_vars, NEW s \in Slot, NEW r, OnWay(s, r),
           ~(GetFilterChanges(s) \/ Serve(s) \/ Fail(s))
    PROVE  OnWay(s, r)' /\ Remaining(s)' = Remaining(s)
<1>0. TypeOK  BY DEF PollInv
<1>1. ASSUME pc'[s] = pc[s], lastPoll'[s] = lastPoll[s], toBlock'[s] = toBlock[s],
             found'[s] = found[s]
      PROVE  OnWay(s, r)' /\ Remaining(s)' = Remaining(s)
    BY <1>1 DEF OnWay, Remaining
<1>2. ASSUME NEW t \in Slot, t # s, GetFilterChanges(t) \/ Serve(t) \/ Fail(t)
      PROVE  /\ pc'[s] = pc[s] /\ lastPoll'[s] = lastPoll[s] /\ toBlock'[s] = toBlock[s]
             /\ found'[s] = found[s]
    <2> USE <1>0 DEF TypeOK, EndAs, End
    <2>1. CASE GetFilterChanges(t)  BY <1>2, <2>1 DEF GetFilterChanges
    <2>2. CASE GetLastPoll(t)  BY <1>2, <2>2 DEF GetLastPoll
    <2>3. CASE ToBlock(t)  BY <1>2, <2>3 DEF ToBlock
    <2>4. ASSUME NEW rows, Answered(t, rows)
          PROVE  /\ pc'[s] = pc[s] /\ lastPoll'[s] = lastPoll[s] /\ toBlock'[s] = toBlock[s]
                 /\ found'[s] = found[s]
        BY <1>2, <2>4 DEF Answered
    <2>5. CASE QueryDatabase(t) \/ QueryCache(t)
        <3>1. PICK rows : Answered(t, rows)
            BY <2>5 DEF QueryDatabase, QueryCache
        <3> QED  BY <2>4, <3>1
    <2>6. CASE UpdateLastPoll(t)  BY <1>2, <2>6 DEF UpdateLastPoll
    <2>7. CASE Insert(t)  BY <1>2, <2>7 DEF Insert
    <2>8. CASE Fail(t)  BY <1>2, <2>8 DEF Fail
    <2> QED  BY <1>2, <2>1, <2>2, <2>3, <2>5, <2>6, <2>7, <2>8 DEF Serve
<1>3. CASE (\E b \in Block : Index(b)) \/ RollBack \/ Install \/ Remove \/ AnswerExpires
           \/ UNCHANGED vars
    <2>1. UNCHANGED requestVars
        BY <1>3 DEF Index, RollBack, Install, Remove, AnswerExpires, vars
    <2> QED  BY <1>1, <2>1 DEF requestVars
<1> QED  BY <1>1, <1>2, <1>3 DEF Next

\* A step of its own brings it nearer to the reply, which has the log.
LEMMA ServedOnWay ==
    ASSUME PollInv, NEW s \in Slot, NEW r, Due(r), OnWay(s, r), Serve(s),
           filter # NoFilter, Few(s), NoneUseless(r)
    PROVE  r \in reported' \/ (OnWay(s, r)' /\ Remaining(s)' < Remaining(s))
<1>0. TypeOK /\ kind = "log"  BY DEF PollInv, Due
<1>1. /\ r.at \in Nat /\ r.number \in Nat /\ r.number <= Tip /\ Tip \in Int /\ 0 <= Tip
      /\ filter \in Nat /\ filter < r.at
    BY DueIs
<1>2. ASSUME NEW rows, pc[s] = "query", Answered(s, rows), r \in rows,
             ~(Cardinality(rows) > MAX_QUERY_NUMBER)
      PROVE  OnWay(s, r)' /\ Remaining(s)' < Remaining(s)
    <2>1. /\ found' = [found EXCEPT ![s] = rows]
          /\ pc' = [pc EXCEPT ![s] = "updateLastPoll"]
        BY <1>2 DEF Answered
    <2>2. found'[s] = rows /\ pc'[s] = "updateLastPoll"
        BY <1>0, <2>1 DEF TypeOK
    <2> QED  BY <1>2, <2>2 DEF OnWay, Remaining
<1>3. CASE GetLastPoll(s)
    <2>1. pc[s] = "getLastPoll" /\ lastPoll'[s] = filter /\ pc'[s] = "toBlock"
        BY <1>0, <1>3 DEF GetLastPoll, TypeOK
    <2> QED  BY <1>1, <2>1 DEF OnWay, Remaining
<1>4. CASE ToBlock(s)
    <2>1. /\ pc[s] = "toBlock" /\ lastPoll'[s] = lastPoll[s] /\ toBlock'[s] = Tip
          /\ pc'[s] = "query"
        BY <1>0, <1>1, <1>4 DEF ToBlock, TypeOK
    <2> QED  BY <1>1, <2>1 DEF OnWay, Remaining
<1>5. CASE QueryDatabase(s)
    <2>1. pc[s] = "query" /\ Answered(s, Newer(s))
        BY <1>5 DEF QueryDatabase
    <2>2. r \in Newer(s)
        BY <2>1, NewerLists DEF OnWay
    <2>3. ~(Cardinality(Newer(s)) > MAX_QUERY_NUMBER)
        BY <1>0 DEF Few
    <2> QED  BY <1>2, <2>1, <2>2, <2>3
<1>6. CASE QueryCache(s)
    <2>1. pc[s] = "query" /\ \E a \in answers : a.key = Key(s) /\ Answered(s, a.rows)
        BY <1>6 DEF QueryCache
    <2>2. PICK a \in answers : a.key = Key(s) /\ Answered(s, a.rows)
        BY <2>1
    <2>3. a.key[1] = lastPoll[s] /\ a.key[2] = toBlock[s]
        BY <2>2 DEF Key
    <2>4. r \in a.rows /\ ~(Cardinality(a.rows) > MAX_QUERY_NUMBER)
        BY <2>1, <2>2, <2>3 DEF OnWay, Useless, NoneUseless
    <2> QED  BY <1>2, <2>1, <2>2, <2>4
<1>7. CASE UpdateLastPoll(s)
    BY <1>7 DEF UpdateLastPoll, OnWay
<1>8. ~Insert(s)
    BY DEF Insert, OnWay
<1> QED  BY <1>3, <1>4, <1>5, <1>6, <1>7, <1>8 DEF Serve

\* What each step does about a due log: unless too many logs are new to a request,
\* it adds no useless answer to the cache; a poll begins on its way to the log;
\* nobody else's step takes it off; and, when the useless answers have gone and it
\* does not fail, each of its own leaves fewer steps until the log is in the reply.
NearsLog(r) ==
    /\ (\A s \in Slot : pc[s] = "query" => Few(s)) =>
         \A a \in answers' : Useless(a, r) => a \in answers
    /\ \A s \in Slot :
         /\ GetFilterChanges(s) => OnWay(s, r)'
         /\ OnWay(s, r) /\ ~Serve(s) /\ ~Fail(s) => OnWay(s, r)' /\ Remaining(s)' = Remaining(s)
         /\ OnWay(s, r) /\ Serve(s) /\ filter # NoFilter /\ Few(s) /\ NoneUseless(r) =>
              r \in reported' \/ (OnWay(s, r)' /\ Remaining(s)' < Remaining(s))

\* How a log that stays is reported by a filter that stays, whatever else is
\* indexed, rolled back, polled and cached: every step of the system nears the log
\* in this sense, with at most four steps of a poll to go.
THEOREM StayingLogIsReached ==
    Spec => /\ [](\A s \in Slot : Remaining(s) \in 0 .. 4)
            /\ [][\A r \in logs : Due(r) => NearsLog(r)]_vars
<1>1. PollInv => \A s \in Slot : Remaining(s) \in 0 .. 4
    BY DEF Remaining
<1>2. PollInv /\ [Next]_vars => [\A r \in logs : Due(r) => NearsLog(r)]_vars
    <2> SUFFICES ASSUME PollInv, [Next]_vars, NEW r \in logs, Due(r) PROVE NearsLog(r)
        OBVIOUS
    <2>1. ASSUME \A s \in Slot : pc[s] = "query" => Few(s), NEW a \in answers', Useless(a, r)
          PROVE  a \in answers
        BY <2>1, UselessGo
    <2>2. ASSUME NEW s \in Slot, GetFilterChanges(s) PROVE OnWay(s, r)' /\ ~OnWay(s, r)
        <3>1. pc[s] \in {"idle", "failed"} /\ pc'[s] = "getLastPoll"
            BY <2>2 DEF GetFilterChanges, PollInv, TypeOK
        <3> QED  BY <3>1 DEF OnWay
    <2>3. ASSUME NEW s \in Slot, OnWay(s, r), ~Serve(s), ~Fail(s)
          PROVE  OnWay(s, r)' /\ Remaining(s)' = Remaining(s)
        BY <2>2, <2>3, OthersPass
    <2>4. ASSUME NEW s \in Slot, OnWay(s, r), Serve(s), filter # NoFilter, Few(s), NoneUseless(r)
          PROVE  r \in reported' \/ (OnWay(s, r)' /\ Remaining(s)' < Remaining(s))
        BY <2>4, ServedOnWay
    <2> QED  BY <2>1, <2>2, <2>3, <2>4 DEF NearsLog
<1> QED  BY <1>1, <1>2, PollInvHolds, PTL DEF Spec
=============================================================================
