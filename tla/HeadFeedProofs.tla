---------------------------- MODULE HeadFeedProofs ----------------------------
(***************************************************************************)
(* Proofs about HeadFeed, for any set of blocks and any number of          *)
(* failures and restarts: what is announced ascends, and has no gap unless *)
(* a block is rolled back between two queries of a poll.  The invariant    *)
(* says of each cached answer which heads it may hold, whatever the chain  *)
(* was when it was asked for, and of each step of a poll how far the feed  *)
(* has come.                                                               *)
(***************************************************************************)
EXTENDS HeadFeed, SequenceTheorems, TLAPS

\* Heads with the numbers from c + 1 on, none above t.
HeadsFrom(rows, c, t) ==
    /\ rows \in Seq(NewHead)
    /\ Len(rows) <= t - c
    /\ \A i \in 1 .. Len(rows) : rows[i].number = c + i

\* What an answer to a query holds, kept or not.  All of it unless a block was
\* rolled back.
Answers(query, c, t, rows) ==
    /\ HeadsFrom(rows, c, t)
    /\ query = "blocks" /\ ~shortened => Len(rows) = t - c

AnswersOK(kept) == \A a \in kept : Answers(a.key[1], a.key[2], a.key[3], a.rows)

\* A poll is between currentTip and a higher tip, which the chain still has.
PollOK ==
    /\ pc \in {"blocks", "logs"} => tip \in Nat /\ currentTip < tip
    /\ pc = "blocks" /\ ~shortened => tip <= Tip

\* The last number that may have been announced.
Reached == IF pc = "logs" THEN tip ELSE currentTip

FeedOK ==
    /\ HeadsAscend
    /\ pc \in {"idle", "blocks", "logs"} =>
         /\ \A i \in 1 .. Len(feed) : feed[i].number <= Reached
         /\ ~shortened => Len(feed) = Reached - since
    /\ ~shortened => \A i \in 1 .. Len(feed) : feed[i].number = since + i

FeedInv == TypeOK /\ AnswersOK(answers) /\ PollOK /\ FeedOK

-----------------------------------------------------------------------------

LEMMA FeedInit == Init => FeedInv
<1> SUFFICES ASSUME Init PROVE FeedInv
    OBVIOUS
<1>1. chain = << >> /\ feed = << >> /\ Len(feed) = 0 /\ answers = {} /\ pc = "starting"
    BY DEF Init, Chain!Init
<1>2. TypeOK
    <2>1. chain \in Seq(Block) /\ feed \in Seq(NewHead) /\ logged \subseteq Block
        BY <1>1 DEF Init
    <2>2. interval \in BOOLEAN /\ isRunning \in BOOLEAN /\ shortened \in BOOLEAN
        BY DEF Init
    <2>3. /\ tipBlockHash = NoHash /\ faults = 0
          /\ currentTip = NoTip /\ tip = NoTip /\ since = NoTip
        BY DEF Init
    <2>4. faults \in 0 .. MaxFaults
        BY <2>3, FeedAssumption
    <2> QED  BY <1>1, <2>1, <2>2, <2>3, <2>4 DEF TypeOK, Step
<1>3. AnswersOK(answers) /\ PollOK /\ FeedOK
    BY <1>1 DEF AnswersOK, PollOK, FeedOK, HeadsAscend
<1> QED  BY <1>2, <1>3 DEF FeedInv

\* The chain's length.
LEMMA TipIs == ASSUME TypeOK PROVE Len(chain) \in Nat /\ Tip = Len(chain) - 1 /\ Tip \in Nat \cup {NoTip}
BY DEF TypeOK, Tip, NoTip

\* What the database answers.
LEMMA BetweenIs ==
    ASSUME TypeOK, PollOK, pc \in {"blocks", "logs"}
    PROVE  Answers(pc, currentTip, tip, Between)
<1> DEFINE last == IF Tip < tip THEN Tip ELSE tip
           size == last - currentTip
           head(i) == [number |-> currentTip + i, hash |-> chain[currentTip + i + 1]]
<1>1. /\ currentTip \in Int /\ currentTip >= -1 /\ tip \in Nat /\ currentTip < tip
      /\ Len(chain) \in Nat /\ Tip = Len(chain) - 1 /\ Tip \in Int
    BY TipIs DEF TypeOK, PollOK, NoTip
<1>2. last \in Int /\ last <= tip /\ last <= Tip /\ size \in Int /\ size <= tip - currentTip
    BY <1>1
<1>3. Between = [i \in 1 .. size |-> head(i)]
    BY DEF Between
<1>4. \A i \in 1 .. size : head(i) \in NewHead /\ head(i).number = currentTip + i
    <2> SUFFICES ASSUME NEW i \in 1 .. size PROVE head(i) \in NewHead
        OBVIOUS
    <2>1. currentTip + i \in Nat /\ currentTip + i + 1 \in 1 .. Len(chain)
        BY <1>1, <1>2
    <2>2. chain[currentTip + i + 1] \in Block
        BY <2>1 DEF TypeOK
    <2> QED  BY <2>1, <2>2 DEF NewHead
<1> HIDE DEF last, size, head
<1>5. CASE size >= 0
    <2>1. Between \in Seq(NewHead) /\ Len(Between) = size
        BY <1>2, <1>3, <1>4, <1>5
    <2>2. \A i \in 1 .. Len(Between) : Between[i].number = currentTip + i
        BY <1>3, <1>4, <2>1
    <2>3. HeadsFrom(Between, currentTip, tip)
        BY <1>2, <2>1, <2>2 DEF HeadsFrom
    <2>4. pc = "blocks" /\ ~shortened => Len(Between) = tip - currentTip
        BY <1>1, <2>1 DEF PollOK, size, last
    <2> QED  BY <2>3, <2>4 DEF Answers
<1>6. CASE size < 0
    <2>1. 1 .. size = {}
        BY <1>2, <1>6
    <2>2. Between = <<>>
        BY <1>3, <2>1
    <2>3. HeadsFrom(Between, currentTip, tip)
        BY <1>1, <2>2 DEF HeadsFrom
    <2>4. ~(pc = "blocks" /\ ~shortened)
        BY <1>1, <1>6 DEF PollOK, size, last
    <2> QED  BY <2>3, <2>4 DEF Answers
<1> QED  BY <1>2, <1>5, <1>6

\* What a query is answered, from the database or the cache, and what is kept.
LEMMA ReplyIs ==
    ASSUME FeedInv, pc \in {"blocks", "logs"}, NEW reply \in Ask(pc, Between)
    PROVE  Answers(pc, currentTip, tip, reply.rows) /\ AnswersOK(reply.answers)
<1> DEFINE new == [key |-> Key(pc), rows |-> Between]
<1>1. Answers(pc, currentTip, tip, Between)
    BY BetweenIs DEF FeedInv
<1>2. Key(pc)[1] = pc /\ Key(pc)[2] = currentTip /\ Key(pc)[3] = tip
    BY DEF Key
<1>3. AnswersOK(answers)
    BY DEF FeedInv
<1>4. AnswersOK(answers \cup {new})
    <2>1. new.key = Key(pc) /\ new.rows = Between
        OBVIOUS
    <2>2. Answers(new.key[1], new.key[2], new.key[3], new.rows)
        BY <1>1, <1>2, <2>1
    <2> HIDE DEF new
    <2> QED  BY <1>3, <2>2 DEF AnswersOK
<1>5. \/ \E a \in answers : a.key = Key(pc) /\ reply = [rows |-> a.rows, answers |-> answers]
      \/ \E k \in {answers, answers \cup {new}} : reply = [rows |-> Between, answers |-> k]
    BY DEF Ask
<1>6. CASE \E a \in answers : a.key = Key(pc) /\ reply = [rows |-> a.rows, answers |-> answers]
    <2>1. PICK a \in answers : a.key = Key(pc) /\ reply = [rows |-> a.rows, answers |-> answers]
        BY <1>6
    <2>2. Answers(pc, currentTip, tip, a.rows)
        BY <1>2, <1>3, <2>1 DEF AnswersOK
    <2> QED  BY <1>3, <2>1, <2>2
<1>7. CASE \E k \in {answers, answers \cup {new}} : reply = [rows |-> Between, answers |-> k]
    <2> HIDE DEF new
    <2> QED  BY <1>1, <1>3, <1>4, <1>7
<1> QED  BY <1>5, <1>6, <1>7

-----------------------------------------------------------------------------
\* Steps that neither announce nor ask.

\* Cached answers stay right: a rollback is never forgotten.
LEMMA AnswersStay ==
    ASSUME AnswersOK(answers), answers' \subseteq answers, shortened => shortened'
    PROVE  AnswersOK(answers)'
BY DEF AnswersOK, Answers

LEMMA StepIndex == FeedInv /\ (\E b \in Block : Index(b)) => FeedInv'
<1> SUFFICES ASSUME FeedInv, NEW b \in Block, Index(b) PROVE FeedInv'
    OBVIOUS
<1>1. /\ chain' = Append(chain, b)
      /\ UNCHANGED <<redisVars, interval, isRunning, currentTip, pc, tip, historyVars, shortened, faults>>
    BY DEF Index, Chain!Push
<1>2. TypeOK'
    BY <1>1 DEF FeedInv, TypeOK, redisVars, historyVars
<1>3. Tip' = Tip + 1
    BY <1>1 DEF FeedInv, TypeOK, Tip
<1>4. AnswersOK(answers)'
    BY <1>1, AnswersStay DEF FeedInv, redisVars
<1>5. PollOK'
    <2>1. Tip \in Int  BY TipIs DEF FeedInv, NoTip
    <2> QED  BY <1>1, <1>3, <2>1 DEF FeedInv, PollOK
<1>6. FeedOK'
    BY <1>1 DEF FeedInv, FeedOK, HeadsAscend, Reached, historyVars
<1> QED  BY <1>2, <1>4, <1>5, <1>6 DEF FeedInv

LEMMA StepRollBack == FeedInv /\ RollBack => FeedInv'
<1> SUFFICES ASSUME FeedInv, RollBack PROVE FeedInv'
    OBVIOUS
<1>1. /\ chain # << >> /\ chain' = SubSeq(chain, 1, Len(chain) - 1)
      /\ shortened' = (shortened \/ (pc = "blocks" /\ Tip <= tip))
      /\ UNCHANGED <<redisVars, interval, isRunning, currentTip, pc, tip, historyVars, faults>>
    BY DEF RollBack, Chain!Pop
<1>2. chain' \in Seq(Block) /\ Tip' = Tip - 1 /\ Tip \in Int
    <2>1. chain \in Seq(Block) /\ Len(chain) \in Nat \ {0}
        BY <1>1 DEF FeedInv, TypeOK
    <2>2. \A i \in 1 .. Len(chain) - 1 : chain[i] \in Block
        BY <2>1
    <2>3. chain' \in Seq(Block) /\ Len(chain') = Len(chain) - 1
        <3> DEFINE n == Len(chain) - 1
        <3>1. n \in Nat /\ \A i \in 1 .. n : chain[i] \in Block
            BY <2>1, <2>2
        <3>2. chain' = SubSeq(chain, 1, n)
            BY <1>1
        <3> HIDE DEF n
        <3>3. /\ chain' \in Seq(Block)
              /\ Len(chain') = IF 1 <= n THEN n - 1 + 1 ELSE 0
            BY <3>1, <3>2, SubSeqProperties
        <3>4. chain' \in Seq(Block) /\ Len(chain') = n
            BY <3>1, <3>3
        <3> QED  BY <3>4 DEF n
    <2> QED  BY <2>1, <2>3 DEF Tip
<1>3. TypeOK'
    <2>1. shortened' \in BOOLEAN  BY <1>1 DEF FeedInv, TypeOK
    <2> QED  BY <1>1, <1>2, <2>1 DEF FeedInv, TypeOK, redisVars, historyVars
<1>4. AnswersOK(answers)'
    BY <1>1, AnswersStay DEF FeedInv, redisVars
<1>5. PollOK'
    <2>1. pc \in {"blocks", "logs"} => tip \in Nat /\ currentTip < tip
        BY DEF FeedInv, PollOK
    <2>2. ASSUME pc = "blocks", ~shortened' PROVE tip <= Tip'
        <3>1. ~(Tip <= tip)  BY <1>1, <2>2
        <3> QED  BY <1>2, <2>1, <2>2, <3>1
    <2> QED  BY <1>1, <2>1, <2>2 DEF PollOK
<1>6. FeedOK'
    BY <1>1 DEF FeedInv, FeedOK, HeadsAscend, Reached, historyVars
<1> QED  BY <1>3, <1>4, <1>5, <1>6 DEF FeedInv

LEMMA StepStarted == FeedInv /\ Started => FeedInv'
<1> SUFFICES ASSUME FeedInv, Started PROVE FeedInv'
    OBVIOUS
<1>1. /\ currentTip' \in {currentTip, Tip} /\ (Tip = NoTip => currentTip' = currentTip)
      /\ since' = currentTip' /\ feed' = << >> /\ logged' = {} /\ interval' = TRUE /\ pc' = "idle"
      /\ UNCHANGED <<chain, redisVars, isRunning, tip, shortened, faults>>
    BY DEF Started
<1>2. currentTip' \in Nat \cup {NoTip}
    BY <1>1, TipIs DEF FeedInv, TypeOK
<1>3. TypeOK'
    BY <1>1, <1>2 DEF FeedInv, TypeOK, Step, redisVars
<1>4. AnswersOK(answers)'
    BY <1>1, AnswersStay DEF FeedInv, redisVars
<1>5. PollOK'
    BY <1>1 DEF PollOK
<1>6. FeedOK'
    <2>1. Len(feed') = 0 /\ Reached' = since' /\ since' \in Int
        <3>1. Len(feed') = 0  BY <1>1
        <3>2. Reached' = currentTip'  BY <1>1 DEF Reached
        <3> QED  BY <1>1, <1>2, <3>1, <3>2 DEF NoTip
    <2>2. HeadsAscend'  BY <2>1 DEF HeadsAscend
    <2>3. \A i \in 1 .. Len(feed') : FALSE  BY <2>1
    <2>4. Len(feed') = Reached' - since'
        <3>1. \A n \in Int : n - n = 0  OBVIOUS
        <3> QED  BY <2>1, <3>1, Zenon
    <2> QED  BY <2>2, <2>3, <2>4, Zenon DEF FeedOK
<1> QED  BY <1>3, <1>4, <1>5, <1>6 DEF FeedInv

\* The emitter stops or starts: nothing is announced.
LEMMA StepStops ==
    FeedInv /\ (StartFails \/ Check \/ PollFails \/ Restart) => FeedInv'
<1> SUFFICES ASSUME FeedInv, StartFails \/ Check \/ PollFails \/ Restart PROVE FeedInv'
    OBVIOUS
<1>1. /\ pc' \in {"starting", "off"} /\ UNCHANGED <<chain, redisVars, historyVars, shortened>>
      /\ currentTip' \in {currentTip, NoTip} /\ tip' \in {tip, NoTip}
      /\ interval' \in {interval, FALSE} /\ isRunning' \in {isRunning, TRUE, FALSE}
      /\ faults' = faults \/ (faults < MaxFaults /\ faults' = faults + 1)
    BY DEF StartFails, Check, PollFails, Restart
<1>2. TypeOK'
    <2>1. faults' \in 0 .. MaxFaults
        BY <1>1, FeedAssumption DEF FeedInv, TypeOK
    <2>2. interval' \in BOOLEAN /\ isRunning' \in BOOLEAN
        BY <1>1 DEF FeedInv, TypeOK
    <2>3. currentTip' \in Nat \cup {NoTip} /\ tip' \in Nat \cup {NoTip}
        BY <1>1 DEF FeedInv, TypeOK
    <2> QED  BY <1>1, <2>1, <2>2, <2>3 DEF FeedInv, TypeOK, Step, redisVars, historyVars
<1>3. AnswersOK(answers)'
    BY <1>1, AnswersStay DEF FeedInv, redisVars
<1>4. PollOK' /\ FeedOK'
    BY <1>1 DEF FeedInv, PollOK, FeedOK, HeadsAscend, historyVars
<1> QED  BY <1>2, <1>3, <1>4 DEF FeedInv

LEMMA StepReadTip == FeedInv /\ ReadTip => FeedInv'
<1> SUFFICES ASSUME FeedInv, ReadTip PROVE FeedInv'
    OBVIOUS
<1>1. /\ pc = "idle" /\ currentTip < Tip /\ tip' = Tip /\ pc' = "blocks"
      /\ UNCHANGED <<chain, redisVars, interval, isRunning, currentTip, historyVars, shortened, faults>>
    BY DEF ReadTip
<1>2. Tip \in Nat /\ Tip' = Tip
    BY <1>1, TipIs DEF FeedInv, TypeOK, NoTip, Tip
<1>3. TypeOK'
    BY <1>1, <1>2 DEF FeedInv, TypeOK, Step, redisVars, historyVars
<1>4. AnswersOK(answers)'
    BY <1>1, AnswersStay DEF FeedInv, redisVars
<1>5. PollOK'
    BY <1>1, <1>2 DEF PollOK
<1>6. FeedOK'
    BY <1>1 DEF FeedInv, FeedOK, HeadsAscend, Reached, historyVars
<1> QED  BY <1>3, <1>4, <1>5, <1>6 DEF FeedInv

LEMMA StepExpires == FeedInv /\ (AnswerExpires \/ TipBlockHashExpires) => FeedInv'
<1> SUFFICES ASSUME FeedInv, AnswerExpires \/ TipBlockHashExpires PROVE FeedInv'
    OBVIOUS
<1>1. /\ answers' \subseteq answers /\ tipBlockHash' \in {tipBlockHash, NoHash}
      /\ UNCHANGED <<chain, interval, isRunning, currentTip, pc, tip, historyVars, shortened, faults>>
    BY DEF AnswerExpires, TipBlockHashExpires
<1>2. TypeOK'
    BY <1>1 DEF FeedInv, TypeOK, historyVars
<1>3. AnswersOK(answers)'
    BY <1>1, AnswersStay DEF FeedInv
<1>4. PollOK' /\ FeedOK'
    BY <1>1 DEF FeedInv, PollOK, FeedOK, HeadsAscend, Reached, Tip, historyVars
<1> QED  BY <1>2, <1>3, <1>4 DEF FeedInv

-----------------------------------------------------------------------------
\* The queries of a poll.

\* What GetBlocks sends goes on where the feed ended.
LEMMA HeadsSent ==
    ASSUME FeedInv, pc = "blocks", NEW heads, HeadsFrom(heads, currentTip, tip),
           feed' = feed \o heads
    PROVE  /\ feed' \in Seq(NewHead) /\ Len(feed') = Len(feed) + Len(heads)
           /\ HeadsAscend'
           /\ \A i \in 1 .. Len(feed') : feed'[i].number <= tip
           /\ (~shortened /\ Len(heads) = tip - currentTip) =>
                /\ Len(feed') = tip - since
                /\ \A i \in 1 .. Len(feed') : feed'[i].number = since + i
<1>1. /\ feed \in Seq(NewHead) /\ heads \in Seq(NewHead) /\ Len(feed) \in Nat /\ Len(heads) \in Nat
      /\ currentTip \in Int /\ tip \in Nat /\ currentTip < tip /\ since \in Int
    BY DEF FeedInv, TypeOK, PollOK, HeadsFrom, NoTip
<1>2. /\ feed' \in Seq(NewHead) /\ Len(feed') = Len(feed) + Len(heads)
      /\ \A i \in 1 .. Len(feed') : feed'[i] = (IF i <= Len(feed) THEN feed[i] ELSE heads[i - Len(feed)])
    BY <1>1, ConcatProperties
<1>3. \A i \in 1 .. Len(feed) : feed[i].number \in Nat /\ feed[i].number <= currentTip
    <2>1. \A i \in 1 .. Len(feed) : feed[i] \in NewHead  BY <1>1
    <2> QED  BY <2>1 DEF FeedInv, FeedOK, Reached, NewHead
<1>4. \A i \in 1 .. Len(heads) : heads[i].number = currentTip + i /\ heads[i].number <= tip
    BY <1>1 DEF HeadsFrom
<1>5. \A i, j \in 1 .. Len(feed) : i < j => feed[i].number < feed[j].number
    BY DEF FeedInv, FeedOK, HeadsAscend
<1>6. ASSUME NEW i \in 1 .. Len(feed'), i > Len(feed)
      PROVE  /\ i - Len(feed) \in 1 .. Len(heads)
             /\ feed'[i].number = currentTip + (i - Len(feed)) /\ feed'[i].number <= tip
    <2>1. i - Len(feed) \in 1 .. Len(heads)  BY <1>1, <1>2, <1>6
    <2> QED  BY <1>1, <1>2, <1>4, <1>6, <2>1
<1>7. ASSUME NEW i \in 1 .. Len(feed'), i <= Len(feed)
      PROVE  i \in 1 .. Len(feed) /\ feed'[i] = feed[i] /\ feed'[i].number <= currentTip
    <2>1. i \in 1 .. Len(feed)  BY <1>1, <1>2, <1>7
    <2> QED  BY <1>2, <1>3, <1>7, <2>1
<1>8. \A i \in 1 .. Len(feed') : feed'[i].number <= tip
    <2> SUFFICES ASSUME NEW i \in 1 .. Len(feed') PROVE feed'[i].number <= tip
        OBVIOUS
    <2>1. CASE i > Len(feed)  BY <1>6, <2>1
    <2>2. CASE i <= Len(feed)
        <3>1. i \in 1 .. Len(feed) /\ feed'[i] = feed[i]  BY <1>7, <2>2
        <3> QED  BY <1>1, <1>3, <3>1
    <2> QED  BY <1>1, <1>2, <2>1, <2>2
<1>9. HeadsAscend'
    <2> SUFFICES ASSUME NEW i \in 1 .. Len(feed'), NEW j \in 1 .. Len(feed'), i < j
                 PROVE  feed'[i].number < feed'[j].number
        BY DEF HeadsAscend
    <2>1. CASE j <= Len(feed)
        <3>1. i <= Len(feed)  BY <1>1, <1>2, <2>1
        <3>2. /\ i \in 1 .. Len(feed) /\ feed'[i] = feed[i]
              /\ j \in 1 .. Len(feed) /\ feed'[j] = feed[j]
            BY <1>7, <2>1, <3>1
        <3> QED  BY <1>5, <3>2
    <2>2. CASE j > Len(feed) /\ i <= Len(feed)
        <3>1. i \in 1 .. Len(feed) /\ feed'[i] = feed[i]  BY <1>7, <2>2
        <3>2. j - Len(feed) \in 1 .. Len(heads) /\ feed'[j].number = currentTip + (j - Len(feed))
            BY <1>6, <2>2
        <3> QED  BY <1>1, <1>3, <3>1, <3>2
    <2>3. CASE i > Len(feed)
        <3>1. feed'[i].number = currentTip + (i - Len(feed))  BY <1>6, <2>3
        <3>2. j > Len(feed)  BY <1>1, <1>2, <2>3
        <3>3. feed'[j].number = currentTip + (j - Len(feed))  BY <1>6, <3>2
        <3> QED  BY <1>1, <1>2, <3>1, <3>3
    <2> QED  BY <1>1, <1>2, <2>1, <2>2, <2>3
<1>10. ASSUME ~shortened, Len(heads) = tip - currentTip
       PROVE  /\ Len(feed') = tip - since
              /\ \A i \in 1 .. Len(feed') : feed'[i].number = since + i
    <2>1. Len(feed) = currentTip - since /\ \A i \in 1 .. Len(feed) : feed[i].number = since + i
        BY <1>10 DEF FeedInv, FeedOK, Reached
    <2>2. Len(feed') = tip - since  BY <1>1, <1>2, <1>10, <2>1
    <2>3. ASSUME NEW i \in 1 .. Len(feed') PROVE feed'[i].number = since + i
        <3>1. CASE i > Len(feed)  BY <1>1, <1>6, <2>1, <3>1
        <3>2. CASE i <= Len(feed)
            <4>1. i \in 1 .. Len(feed) /\ feed'[i] = feed[i]  BY <1>7, <3>2
            <4> QED  BY <2>1, <4>1
        <3> QED  BY <1>1, <1>2, <3>1, <3>2
    <2> QED  BY <2>2, <2>3
<1> QED  BY <1>2, <1>8, <1>9, <1>10

LEMMA StepGetBlocks == FeedInv /\ GetBlocks => FeedInv'
<1> SUFFICES ASSUME FeedInv, GetBlocks PROVE FeedInv'
    OBVIOUS
<1>1. PICK reply \in Ask("blocks", Between) : SendHeads(reply.rows) /\ answers' = reply.answers
    BY DEF GetBlocks
<1> DEFINE heads == reply.rows
<1>2. /\ pc = "blocks" /\ UNCHANGED <<chain, interval, currentTip, since, logged, shortened, faults>>
      /\ feed' = feed \o heads
    BY <1>1 DEF GetBlocks, SendHeads
<1>3. Answers("blocks", currentTip, tip, heads) /\ AnswersOK(answers')
    <2>1. reply \in Ask(pc, Between)  BY <1>2
    <2>2. Answers(pc, currentTip, tip, reply.rows) /\ AnswersOK(reply.answers)
        BY <1>2, <2>1, ReplyIs
    <2> QED  BY <1>1, <1>2, <2>2
<1> HIDE DEF heads
<1>4. AnswersOK(answers)'
    BY <1>2, <1>3 DEF AnswersOK, Answers
<1>5. HeadsFrom(heads, currentTip, tip) /\ (~shortened => Len(heads) = tip - currentTip)
    BY <1>3 DEF Answers
<1>6. /\ feed' \in Seq(NewHead) /\ HeadsAscend'
      /\ \A i \in 1 .. Len(feed') : feed'[i].number <= tip
      /\ ~shortened => /\ Len(feed') = tip - since
                       /\ \A i \in 1 .. Len(feed') : feed'[i].number = since + i
    BY <1>2, <1>5, HeadsSent
<1>7. CASE heads = << >>
    <2>1. /\ isRunning' = FALSE /\ pc' = "off" /\ tip' = NoTip /\ UNCHANGED tipBlockHash
        BY <1>1, <1>7 DEF SendHeads, heads
    <2>2. TypeOK'
        BY <1>2, <1>4, <1>6, <2>1 DEF FeedInv, TypeOK, Step, AnswersOK, Answers, HeadsFrom
    <2>3. PollOK'  BY <2>1 DEF PollOK
    <2>4. FeedOK'  BY <1>2, <1>6, <2>1 DEF FeedOK
    <2> QED  BY <1>4, <2>2, <2>3, <2>4 DEF FeedInv
<1>8. CASE heads # << >>
    <2>1. /\ tipBlockHash' \in {heads[Len(heads)].hash, tipBlockHash}
          /\ pc' = "logs" /\ UNCHANGED <<isRunning, tip>>
        BY <1>1, <1>8 DEF SendHeads, heads
    <2>2. tipBlockHash' \in Block \cup {NoHash}
        <3>1. heads \in Seq(NewHead) /\ Len(heads) \in 1 .. Len(heads)
            BY <1>5, <1>8 DEF HeadsFrom
        <3>2. heads[Len(heads)] \in NewHead  BY <3>1
        <3>3. heads[Len(heads)].hash \in Block  BY <3>2 DEF NewHead
        <3> QED  BY <2>1, <3>3 DEF FeedInv, TypeOK
    <2>3. TypeOK'
        BY <1>2, <1>4, <1>6, <2>1, <2>2 DEF FeedInv, TypeOK, Step, AnswersOK, Answers, HeadsFrom
    <2>4. PollOK'  BY <1>2, <2>1 DEF FeedInv, PollOK
    <2>5. FeedOK'  BY <1>2, <1>6, <2>1 DEF FeedOK, Reached
    <2> QED  BY <1>4, <2>3, <2>4, <2>5 DEF FeedInv
<1> QED  BY <1>7, <1>8

LEMMA StepGetLogs == FeedInv /\ GetLogs => FeedInv'
<1> SUFFICES ASSUME FeedInv, GetLogs PROVE FeedInv'
    OBVIOUS
<1>1. PICK reply \in Ask("logs", Between) : SendLogs(reply.rows) /\ answers' = reply.answers
    BY DEF GetLogs
<1> DEFINE rows == reply.rows
<1>2. /\ pc = "logs" /\ currentTip' = tip /\ tip' = NoTip /\ pc' = "idle"
      /\ logged' = logged \cup {rows[i].hash : i \in DOMAIN rows}
      /\ UNCHANGED <<chain, tipBlockHash, interval, isRunning, since, feed, shortened, faults>>
    BY <1>1 DEF GetLogs, SendLogs
<1>3. Answers("logs", currentTip, tip, rows) /\ AnswersOK(answers')
    <2>1. reply \in Ask(pc, Between)  BY <1>2
    <2>2. Answers(pc, currentTip, tip, reply.rows) /\ AnswersOK(reply.answers)
        BY <1>2, <2>1, ReplyIs
    <2> QED  BY <1>1, <1>2, <2>2
<1> HIDE DEF rows
<1>4. AnswersOK(answers)'
    BY <1>2, <1>3 DEF AnswersOK, Answers
<1>5. logged' \subseteq Block
    <2>1. rows \in Seq(NewHead)  BY <1>3 DEF Answers, HeadsFrom
    <2>2. DOMAIN rows = 1 .. Len(rows) /\ \A i \in 1 .. Len(rows) : rows[i] \in NewHead
        BY <2>1
    <2>3. \A i \in DOMAIN rows : rows[i].hash \in Block  BY <2>2 DEF NewHead
    <2> QED  BY <1>2, <2>3 DEF FeedInv, TypeOK
<1>6. TypeOK'
    BY <1>2, <1>4, <1>5 DEF FeedInv, TypeOK, Step, AnswersOK, Answers, HeadsFrom
<1>7. PollOK'  BY <1>2 DEF PollOK
<1>8. FeedOK'  BY <1>2 DEF FeedInv, FeedOK, HeadsAscend, Reached
<1> QED  BY <1>4, <1>6, <1>7, <1>8 DEF FeedInv

LEMMA FeedNext == FeedInv /\ [Next]_vars => FeedInv'
<1> SUFFICES ASSUME FeedInv, [Next]_vars PROVE FeedInv'
    OBVIOUS
<1>1. CASE UNCHANGED vars
    <2>1. /\ UNCHANGED <<chain, tipBlockHash, answers, interval, isRunning, currentTip, pc, tip>>
          /\ UNCHANGED <<since, feed, logged, shortened, faults>>
        BY <1>1 DEF vars, redisVars, historyVars
    <2>2. TypeOK'  BY <2>1 DEF FeedInv, TypeOK
    <2>3. AnswersOK(answers)'  BY <2>1, AnswersStay DEF FeedInv
    <2>4. PollOK' /\ FeedOK'  BY <2>1 DEF FeedInv, PollOK, FeedOK, HeadsAscend, Reached, Tip
    <2> QED  BY <2>2, <2>3, <2>4 DEF FeedInv
<1> QED  BY <1>1, StepIndex, StepRollBack, StepStarted, StepStops, StepReadTip, StepExpires,
            StepGetBlocks, StepGetLogs DEF Next, Poll

-----------------------------------------------------------------------------

\* Every variable has its type.
THEOREM TypeCorrect == Spec => []TypeOK
<1>1. FeedInv => TypeOK  BY DEF FeedInv
<1> QED  BY <1>1, FeedInit, FeedNext, PTL DEF Spec

\* Until the emitter stops, the heads it sends ascend.
THEOREM Ascending == Spec => []HeadsAscend
<1>1. FeedInv => HeadsAscend  BY DEF FeedInv, FeedOK
<1> QED  BY <1>1, FeedInit, FeedNext, PTL DEF Spec

\* They have no gap unless a block is rolled back in the middle of a poll.
THEOREM Gapless == Spec => []HeadsGapless
<1>1. FeedInv => HeadsGapless
    <2> SUFFICES ASSUME FeedInv PROVE HeadsGapless
        OBVIOUS
    <2>1. ~shortened => \A i \in 1 .. Len(feed) : feed[i].number = since + i
        BY DEF FeedInv, FeedOK
    <2>2. pc = "idle" /\ ~shortened => Len(feed) = currentTip - since
        BY DEF FeedInv, FeedOK, Reached
    <2> QED  BY <2>1, <2>2 DEF HeadsGapless
<1> QED  BY <1>1, FeedInit, FeedNext, PTL DEF Spec

-----------------------------------------------------------------------------
\* How long a stopped emitter stays stopped, and a block unannounced.

\* Only an emitter that has set its interval stops, and it is off while stopped.
StopsOK ==
    /\ ~isRunning => interval /\ pc = "off"
    /\ pc \in {"idle", "blocks", "logs"} => interval

LEMMA StopsOKNext ==
    ASSUME TypeOK, StopsOK, [Next]_vars
    PROVE  StopsOK'
<1> USE DEF StopsOK, TypeOK
<1>1. CASE \E b \in Block : Index(b)  BY <1>1 DEF Index
<1>2. CASE RollBack  BY <1>2 DEF RollBack
<1>3. CASE Started \/ StartFails \/ Check \/ PollFails \/ Restart
    BY <1>3 DEF Started, StartFails, Check, PollFails, Restart
<1>4. CASE ReadTip  BY <1>4 DEF ReadTip
<1>5. CASE GetBlocks  BY <1>5 DEF GetBlocks, SendHeads
<1>6. CASE GetLogs  BY <1>6 DEF GetLogs, SendLogs
<1>7. CASE AnswerExpires \/ TipBlockHashExpires \/ UNCHANGED vars
    BY <1>7 DEF AnswerExpires, TipBlockHashExpires, vars
<1> QED  BY <1>1, <1>2, <1>3, <1>4, <1>5, <1>6, <1>7 DEF Next, Poll

\* How an emitter that has stopped polls again, once failures are over: it can
\* only be started by the liveness check, whose guard holds as long as it is
\* stopped; then it is in start(), which only ends with a loop scheduled.
THEOREM StopsAreNoticed ==
    Spec => /\ [](~isRunning => interval /\ pc = "off")
            /\ [][faults = MaxFaults =>
                    /\ ~isRunning => /\ isRunning' => Check
                                     /\ Check => pc' = "starting"
                    /\ pc = "starting" => /\ pc' # "starting" => Started
                                          /\ Started => pc' = "idle"]_vars
<1>1. Init => StopsOK
    BY DEF Init, StopsOK
<1>2. TypeOK /\ StopsOK /\ [Next]_vars => StopsOK'
    BY StopsOKNext
<1>3. StopsOK => (~isRunning => interval /\ pc = "off")
    BY DEF StopsOK
<1>4. TypeOK /\ StopsOK /\ [Next]_vars =>
        [faults = MaxFaults =>
            /\ ~isRunning => (isRunning' => Check) /\ (Check => pc' = "starting")
            /\ pc = "starting" => (pc' # "starting" => Started) /\ (Started => pc' = "idle")]_vars
    <2> SUFFICES ASSUME TypeOK, StopsOK, Next, faults = MaxFaults
                 PROVE  /\ ~isRunning => (isRunning' => Check) /\ (Check => pc' = "starting")
                        /\ pc = "starting" =>
                               (pc' # "starting" => Started) /\ (Started => pc' = "idle")
        BY DEF vars
    <2>1. (Check => pc' = "starting") /\ (Started => pc' = "idle")
        BY DEF Check, Started
    <2>2. faults \in Nat /\ ~(faults < MaxFaults)
        BY FeedAssumption DEF TypeOK
    <2>3. ~(StartFails \/ PollFails \/ Restart)
        BY <2>2 DEF StartFails, PollFails, Restart
    <2>4. ~isRunning => (isRunning' => Check)
        BY <2>3
        DEF StopsOK, Next, Index, RollBack, Started, Poll, ReadTip, GetBlocks, GetLogs,
            AnswerExpires, TipBlockHashExpires
    <2>5. pc = "starting" => (pc' # "starting" => Started)
        BY <2>3
        DEF StopsOK, Next, Index, RollBack, Check, Poll, ReadTip, GetBlocks, GetLogs,
            AnswerExpires, TipBlockHashExpires
    <2> QED  BY <2>1, <2>4, <2>5
<1> QED  BY <1>1, <1>2, <1>3, <1>4, TypeCorrect, PTL DEF Spec

\* The block is stored under the number.
Stored(b, n) == n \in 0 .. Tip /\ chain[n + 1] = b

\* The heads or logs sent after the number c hold that block.
Lists(rows, c, b, n) == n - c \in DOMAIN rows /\ rows[n - c].hash = b

InFeed(b) == \E i \in DOMAIN feed : feed[i].hash = b

\* The emitter is on its way to the block: no cached answer that spans its number
\* leaves it out, and what a poll has gone past it has sent.
Coming(b, n) ==
    /\ pc \in {"idle", "blocks", "logs"}
    /\ \A a \in answers : a.key[2] < n /\ n <= a.key[3] => Lists(a.rows, a.key[2], b, n)
    /\ currentTip < n => /\ pc \in {"blocks", "logs"} => n <= tip
                         /\ pc = "logs" => InFeed(b)
    /\ n <= currentTip => InFeed(b) /\ b \in logged

\* The queries until it has been sent.
Left(n) ==
    IF n <= currentTip THEN 0
    ELSE CASE pc = "idle" -> 3 [] pc = "blocks" -> 2 [] pc = "logs" -> 1 [] OTHER -> 4

\* The database lists a stored block to a poll that spans its number.
LEMMA BetweenLists ==
    ASSUME FeedInv, pc \in {"blocks", "logs"}, NEW b \in Block, NEW n \in Nat, Stored(b, n),
           currentTip < n, n <= tip
    PROVE  Lists(Between, currentTip, b, n)
<1> DEFINE last == IF Tip < tip THEN Tip ELSE tip
           size == last - currentTip
           head(i) == [number |-> currentTip + i, hash |-> chain[currentTip + i + 1]]
<1>1. /\ currentTip \in Int /\ tip \in Nat /\ Tip \in Int /\ n <= Tip
      /\ chain[n + 1] = b
    BY TipIs DEF FeedInv, TypeOK, PollOK, NoTip, Stored
<1>2. Between = [i \in 1 .. size |-> head(i)]
    BY DEF Between
<1>3. n - currentTip \in 1 .. size /\ currentTip + (n - currentTip) + 1 = n + 1
    BY <1>1
<1>4. head(n - currentTip).hash = b
    BY <1>1, <1>3
<1> HIDE DEF size, head
<1>5. DOMAIN Between = 1 .. size /\ Between[n - currentTip] = head(n - currentTip)
    BY <1>2, <1>3
<1> QED  BY <1>3, <1>4, <1>5 DEF Lists

\* So does the reply, kept or not.
LEMMA ReplyLists ==
    ASSUME FeedInv, pc \in {"blocks", "logs"}, NEW b \in Block, NEW n \in Nat, Stored(b, n),
           Coming(b, n), NEW reply \in Ask(pc, Between)
    PROVE  /\ currentTip < n => Lists(reply.rows, currentTip, b, n)
           /\ \A a \in reply.answers :
                a.key[2] < n /\ n <= a.key[3] => Lists(a.rows, a.key[2], b, n)
<1> DEFINE new == [key |-> Key(pc), rows |-> Between]
<1>1. currentTip < n => n <= tip
    BY DEF Coming
<1>2. currentTip < n => Lists(Between, currentTip, b, n)
    BY <1>1, BetweenLists
<1>3. Key(pc)[2] = currentTip /\ Key(pc)[3] = tip
    BY DEF Key
<1>4. \A a \in answers : a.key[2] < n /\ n <= a.key[3] => Lists(a.rows, a.key[2], b, n)
    BY DEF Coming
<1>5. new.key[2] < n => Lists(new.rows, new.key[2], b, n)
    BY <1>2, <1>3
<1>6. \/ \E a \in answers : a.key = Key(pc) /\ reply = [rows |-> a.rows, answers |-> answers]
      \/ \E k \in {answers, answers \cup {new}} : reply = [rows |-> Between, answers |-> k]
    BY DEF Ask
<1>7. CASE \E a \in answers : a.key = Key(pc) /\ reply = [rows |-> a.rows, answers |-> answers]
    <2>1. PICK a \in answers : a.key = Key(pc) /\ reply = [rows |-> a.rows, answers |-> answers]
        BY <1>7
    <2>2. currentTip < n => Lists(a.rows, currentTip, b, n)
        BY <1>1, <1>3, <1>4, <2>1
    <2> QED  BY <1>4, <2>1, <2>2
<1>8. CASE \E k \in {answers, answers \cup {new}} : reply = [rows |-> Between, answers |-> k]
    <2>1. PICK k \in {answers, answers \cup {new}} : reply = [rows |-> Between, answers |-> k]
        BY <1>8
    <2> HIDE DEF new
    <2>2. \A a \in k : a.key[2] < n /\ n <= a.key[3] => Lists(a.rows, a.key[2], b, n)
        BY <1>4, <1>5, <2>1
    <2> QED  BY <1>2, <2>1, <2>2
<1> QED  BY <1>6, <1>7, <1>8

\* GetBlocks sends it ...
LEMMA BlocksComing ==
    ASSUME FeedInv, GetBlocks, isRunning', NEW b \in Block, NEW n \in Nat, Stored(b, n), Coming(b, n)
    PROVE  Coming(b, n)' /\ (currentTip < n => Left(n)' < Left(n))
<1>1. PICK reply \in Ask("blocks", Between) : SendHeads(reply.rows) /\ answers' = reply.answers
    BY DEF GetBlocks
<1> DEFINE heads == reply.rows
<1>2. /\ pc = "blocks" /\ currentTip' = currentTip /\ logged' = logged
      /\ feed' = feed \o heads /\ heads # << >> /\ pc' = "logs" /\ tip' = tip
    BY <1>1 DEF GetBlocks, SendHeads
<1>3. /\ currentTip < n => Lists(heads, currentTip, b, n)
      /\ \A a \in answers' :
           a.key[2] < n /\ n <= a.key[3] => Lists(a.rows, a.key[2], b, n)
    <2>1. reply \in Ask(pc, Between)  BY <1>2
    <2> QED  BY <1>1, <1>2, <2>1, ReplyLists
<1>4. heads \in Seq(NewHead) /\ feed \in Seq(NewHead) /\ currentTip \in Int
    <2>1. reply \in Ask(pc, Between)  BY <1>2
    <2>2. Answers(pc, currentTip, tip, reply.rows)  BY <1>2, <2>1, ReplyIs
    <2> QED  BY <2>2 DEF Answers, HeadsFrom, FeedInv, TypeOK, NoTip
<1> HIDE DEF heads
<1>5. (currentTip < n => InFeed(b)') /\ (InFeed(b) => InFeed(b)')
    <2>1. \A i \in DOMAIN feed : i \in DOMAIN feed' /\ feed'[i] = feed[i]
        BY <1>2, <1>4
    <2>2. \A i \in DOMAIN heads : Len(feed) + i \in DOMAIN feed' /\ feed'[Len(feed) + i] = heads[i]
        BY <1>2, <1>4
    <2> QED  BY <1>3, <2>1, <2>2 DEF InFeed, Lists
<1> QED  BY <1>2, <1>3, <1>4, <1>5 DEF Coming, Left

\* ... and GetLogs its logs.
LEMMA LogsComing ==
    ASSUME FeedInv, GetLogs, NEW b \in Block, NEW n \in Nat, Stored(b, n), Coming(b, n)
    PROVE  Coming(b, n)' /\ (currentTip < n => Left(n)' < Left(n))
<1>1. PICK reply \in Ask("logs", Between) : SendLogs(reply.rows) /\ answers' = reply.answers
    BY DEF GetLogs
<1> DEFINE rows == reply.rows
<1>2. /\ pc = "logs" /\ currentTip' = tip /\ pc' = "idle" /\ feed' = feed
      /\ logged' = logged \cup {rows[i].hash : i \in DOMAIN rows}
    BY <1>1 DEF GetLogs, SendLogs
<1>3. /\ currentTip < n => Lists(rows, currentTip, b, n)
      /\ \A a \in answers' :
           a.key[2] < n /\ n <= a.key[3] => Lists(a.rows, a.key[2], b, n)
    <2>1. reply \in Ask(pc, Between)  BY <1>2
    <2> QED  BY <1>1, <1>2, <2>1, ReplyLists
<1> HIDE DEF rows
<1>4. currentTip \in Int /\ tip \in Nat /\ currentTip < tip
    BY <1>2 DEF FeedInv, TypeOK, PollOK, NoTip
<1>5. currentTip < n => n <= tip /\ b \in logged' /\ InFeed(b)'
    BY <1>2, <1>3 DEF Coming, Lists, InFeed
<1>6. n <= currentTip => b \in logged' /\ InFeed(b)'
    BY <1>2 DEF Coming, InFeed
<1>7. InFeed(b)' /\ b \in logged' /\ n <= currentTip'
    BY <1>2, <1>4, <1>5, <1>6
<1>8. ~(currentTip' < n)
    BY <1>2, <1>4, <1>7
<1>9. Coming(b, n)'
    BY <1>2, <1>3, <1>7, <1>8 DEF Coming
<1>10. Left(n)' = 0 /\ (currentTip < n => Left(n) = 1)
    BY <1>2, <1>4, <1>7 DEF Left
<1> QED  BY <1>9, <1>10

\* No other step gets in the way.
LEMMA OthersComing ==
    ASSUME FeedInv, StopsOK, faults = MaxFaults, isRunning', [Next]_vars,
           NEW b \in Block, NEW n \in Nat, Stored(b, n), Coming(b, n), ~Poll
    PROVE  Coming(b, n)' /\ Left(n)' = Left(n)
<1>1. ~(StartFails \/ PollFails \/ Restart)
    <2>1. ~(faults < MaxFaults)  BY FeedAssumption
    <2> QED  BY <2>1 DEF StartFails, PollFails, Restart
<1>2. ~(Started \/ Check)
    BY DEF Coming, StopsOK, Started, Check
<1>3. UNCHANGED <<currentTip, pc, tip, feed, logged>> /\ answers' \subseteq answers
    BY <1>1, <1>2
    DEF Next, Index, RollBack, AnswerExpires, TipBlockHashExpires, vars, redisVars, historyVars
<1> QED  BY <1>3 DEF Coming, Left, InFeed

\* How a stored block is announced, whatever is indexed, rolled back and cached
\* meanwhile: from a poll that begins below its number with no old answer in the
\* cache, once failures are over, and as long as the block stays and the emitter
\* does not stop, at most three queries are left until its head and its logs have
\* been sent. Each query leaves fewer, no other step leaves more, and the first
\* one has a tip above currentTip to go on with.
THEOREM StayingBlockIsReached ==
    Spec => [][faults = MaxFaults /\ isRunning' =>
                 \A b \in Block, n \in Nat : Stored(b, n) =>
                    /\ pc = "idle" /\ answers = {} /\ currentTip < n =>
                         Coming(b, n) /\ Left(n) = 3
                    /\ Coming(b, n) =>
                         /\ Coming(b, n)'
                         /\ currentTip < n => currentTip < Tip
                         /\ Left(n)' <= Left(n)
                         /\ Left(n) > 0 /\ Poll => Left(n)' < Left(n)
                         /\ Left(n) = 0 => InFeed(b) /\ b \in logged]_vars
<1>1. Init => StopsOK
    BY DEF Init, StopsOK
<1>2. TypeOK /\ StopsOK /\ [Next]_vars => StopsOK'
    BY StopsOKNext
<1>3. ASSUME FeedInv, StopsOK, [Next]_vars, faults = MaxFaults, isRunning',
             NEW b \in Block, NEW n \in Nat, Stored(b, n)
      PROVE  /\ pc = "idle" /\ answers = {} /\ currentTip < n => Coming(b, n) /\ Left(n) = 3
             /\ Coming(b, n) =>
                  /\ Coming(b, n)'
                  /\ currentTip < n => currentTip < Tip
                  /\ Left(n)' <= Left(n)
                  /\ Left(n) > 0 /\ Poll => Left(n)' < Left(n)
                  /\ Left(n) = 0 => InFeed(b) /\ b \in logged
    <2>1. currentTip \in Int /\ Tip \in Int /\ n <= Tip
        BY <1>3, TipIs DEF FeedInv, TypeOK, NoTip, Stored
    <2>2. pc = "idle" /\ answers = {} /\ currentTip < n => Coming(b, n) /\ Left(n) = 3
        BY <2>1 DEF Coming, Left
    <2>3. currentTip < n => currentTip < Tip
        BY <2>1
    <2>4. Left(n) \in Nat /\ Left(n)' \in Nat
        <3>1. Left(n) \in {0, 1, 2, 3, 4}  BY DEF Left
        <3>2. Left(n)' \in {0, 1, 2, 3, 4}  BY DEF Left
        <3> QED  BY <3>1, <3>2
    <2>5. Left(n) = 0 <=> n <= currentTip
        BY DEF Left
    <2>6. ASSUME Coming(b, n), n <= currentTip, Poll
          PROVE  Coming(b, n)' /\ Left(n)' = 0
        <3>1. CASE ReadTip
            BY <2>1, <2>6, <3>1 DEF ReadTip, historyVars, redisVars, Coming, Left, InFeed
        <3>2. CASE GetBlocks
            <4>1. Coming(b, n)' /\ currentTip' = currentTip
                BY <1>3, <2>6, <3>2, BlocksComing DEF GetBlocks
            <4> QED  BY <2>6, <4>1 DEF Left
        <3>3. CASE GetLogs
            <4>1. Coming(b, n)'  BY <1>3, <2>6, <3>3, LogsComing
            <4>2. currentTip' = tip /\ tip \in Nat /\ currentTip < tip
                BY <1>3, <3>3 DEF GetLogs, SendLogs, FeedInv, PollOK
            <4> QED  BY <2>1, <2>6, <4>1, <4>2 DEF Left
        <3> QED  BY <2>6, <3>1, <3>2, <3>3 DEF Poll
    <2>7. ASSUME Coming(b, n), currentTip < n, Poll
          PROVE  Coming(b, n)' /\ Left(n)' < Left(n)
        <3>1. CASE ReadTip
            BY <2>1, <2>7, <3>1 DEF ReadTip, historyVars, redisVars, Coming, Left, InFeed
        <3> QED  BY <1>3, <2>7, <3>1, BlocksComing, LogsComing DEF Poll
    <2>8. ASSUME Coming(b, n), ~Poll PROVE Coming(b, n)' /\ Left(n)' = Left(n)
        BY <1>3, <2>8, OthersComing
    <2>9. Coming(b, n) => (Left(n) = 0 => InFeed(b) /\ b \in logged)
        BY <2>5 DEF Coming
    <2>10. Coming(b, n) => Coming(b, n)'
        BY <2>1, <2>6, <2>7, <2>8
    <2>11. Coming(b, n) => Left(n)' <= Left(n)
        <3>1. CASE Poll /\ n <= currentTip  BY <2>4, <2>6, <3>1
        <3>2. CASE Poll /\ currentTip < n  BY <2>4, <2>7, <3>2
        <3>3. CASE ~Poll  BY <2>4, <2>8, <3>3
        <3> QED  BY <2>1, <3>1, <3>2, <3>3
    <2>12. Coming(b, n) => (Left(n) > 0 /\ Poll => Left(n)' < Left(n))
        BY <2>1, <2>5, <2>7
    <2> QED  BY <2>2, <2>3, <2>9, <2>10, <2>11, <2>12
<1>4. FeedInv /\ StopsOK /\ [Next]_vars =>
        [faults = MaxFaults /\ isRunning' =>
            \A b \in Block, n \in Nat : Stored(b, n) =>
               /\ pc = "idle" /\ answers = {} /\ currentTip < n => Coming(b, n) /\ Left(n) = 3
               /\ Coming(b, n) =>
                    /\ Coming(b, n)'
                    /\ currentTip < n => currentTip < Tip
                    /\ Left(n)' <= Left(n)
                    /\ Left(n) > 0 /\ Poll => Left(n)' < Left(n)
                    /\ Left(n) = 0 => InFeed(b) /\ b \in logged]_vars
    BY <1>3
<1>5. FeedInv => TypeOK
    BY DEF FeedInv
<1> QED  BY <1>1, <1>2, <1>4, <1>5, FeedInit, FeedNext, PTL DEF Spec
=============================================================================
