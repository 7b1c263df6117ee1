------------------------------- MODULE HeadFeed -------------------------------
(***************************************************************************)
(* The BlockEmitter of the cluster master (api-server/src/block-emitter.ts)*)
(* polls the database for new blocks and sends their heads and logs to the *)
(* workers, which pass them on to eth_subscribe clients (ws/methods.ts).   *)
(* It also keeps tipBlockHash in Redis, which the keys of cached database  *)
(* answers end with (db/knex.ts), and reads through that cache itself.     *)
(*                                                                         *)
(* The database is the chain that IndexedChain promises. Each query of a   *)
(* poll is a step; the indexer may append or roll back in between. `feed'  *)
(* is what a client hears that subscribed before the emitter started.      *)
(***************************************************************************)
EXTENDS Integers, Sequences, FiniteSets

CONSTANTS
    Block, NoBlock, Parent,     \* as in IndexedChain
    NoHash,                     \* no such key
    MaxFaults,                  \* bound of the model: failures and restarts
    MaxAnswers                  \* bound of the model: answers cached at once

ASSUME FeedAssumption == MaxFaults \in Nat

VARIABLES
    chain,          \* table blocks; each block has logs
    tipBlockHash,   \* Redis: the hash announced last
    answers,        \* Redis: cached answers of the database
    interval,       \* startForever has set its interval
    isRunning,
    currentTip,
    pc,             \* where the emitter is
    tip,            \* the tip number this poll has read
    since,          \* history: currentTip when the emitter started
    feed,           \* history: heads sent since then
    logged,         \* history: blocks whose logs were sent since then
    shortened,      \* history: a block was rolled back between tip and blocks
    faults          \* history: failures and restarts so far

redisVars == <<tipBlockHash, answers>>
historyVars == <<since, feed, logged>>
vars == <<chain, redisVars, interval, isRunning, currentTip, pc, tip,
          historyVars, shortened, faults>>

Chain == INSTANCE IndexedChain

Step == {"starting", "idle", "blocks", "logs", "off"}

NoTip == -1
Tip == Len(chain) - 1

Init ==
    /\ Chain!Init
    /\ tipBlockHash = NoHash
    /\ answers = {}
    /\ interval = FALSE
    /\ isRunning = TRUE
    /\ currentTip = NoTip
    /\ pc = "starting"
    /\ tip = NoTip
    /\ since = NoTip
    /\ feed = << >>
    /\ logged = {}
    /\ shortened = FALSE
    /\ faults = 0

-----------------------------------------------------------------------------
\* The indexer.

Index(b) ==
    /\ Chain!Push(b)
    /\ UNCHANGED <<redisVars, interval, isRunning, currentTip, pc, tip,
                   historyVars, shortened, faults>>

RollBack ==
    /\ Chain!Pop
    /\ shortened' = (shortened \/ (pc = "blocks" /\ Tip <= tip))
    /\ UNCHANGED <<redisVars, interval, isRunning, currentTip, pc, tip,
                   historyVars, faults>>

-----------------------------------------------------------------------------
\* Starting and stopping.

\* start() has the tip number, if there is a block. startForever goes on to set
\* its interval.
Started ==
    /\ pc = "starting"
    /\ currentTip' = IF Tip = NoTip THEN currentTip ELSE Tip
    /\ since' = currentTip'
    /\ feed' = << >>
    /\ logged' = {}
    /\ interval' = TRUE
    /\ pc' = "idle"
    /\ UNCHANGED <<chain, redisVars, isRunning, tip, shortened, faults>>

\* The query of start() fails. Nobody handles that: isRunning stays set and no
\* loop is scheduled.
StartFails ==
    /\ pc = "starting"
    /\ faults < MaxFaults
    /\ faults' = faults + 1
    /\ pc' = "off"
    /\ UNCHANGED <<chain, redisVars, interval, isRunning, currentTip, tip,
                   historyVars, shortened>>

\* Mutant: the liveness check does not start the loop.
CheckWithoutStart ==
    /\ interval
    /\ ~isRunning
    /\ isRunning' = TRUE
    /\ UNCHANGED <<chain, redisVars, interval, currentTip, pc, tip, historyVars,
                   shortened, faults>>

\* The liveness check.
Check ==
    /\ interval
    /\ ~isRunning
    /\ isRunning' = TRUE
    /\ pc' = "starting"
    /\ UNCHANGED <<chain, redisVars, interval, currentTip, tip, historyVars,
                   shortened, faults>>

\* A query of poll() fails: stop().
PollFails ==
    /\ pc \in {"idle", "blocks", "logs"}
    /\ faults < MaxFaults
    /\ faults' = faults + 1
    /\ isRunning' = FALSE
    /\ pc' = "off"
    /\ tip' = NoTip
    /\ UNCHANGED <<chain, redisVars, interval, currentTip, historyVars, shortened>>

\* The master process dies and is started again.
Restart ==
    /\ faults < MaxFaults
    /\ faults' = faults + 1
    /\ interval' = FALSE
    /\ isRunning' = TRUE
    /\ currentTip' = NoTip
    /\ pc' = "starting"
    /\ tip' = NoTip
    /\ UNCHANGED <<chain, redisVars, historyVars, shortened>>

-----------------------------------------------------------------------------
\* poll(). A tip that is not above currentTip ends it at once.

\* Mutant: the block above currentTip is left for the next poll.
ReadTipByOne ==
    /\ pc = "idle"
    /\ currentTip + 1 < Tip
    /\ tip' = Tip
    /\ pc' = "blocks"
    /\ UNCHANGED <<chain, redisVars, interval, isRunning, currentTip,
                   historyVars, shortened, faults>>

ReadTip ==
    /\ pc = "idle"
    /\ currentTip < Tip
    /\ tip' = Tip
    /\ pc' = "blocks"
    /\ UNCHANGED <<chain, redisVars, interval, isRunning, currentTip,
                   historyVars, shortened, faults>>

Key(query) == <<query, currentTip, tip, tipBlockHash>>

\* Stored blocks with number > currentTip and <= tip.
Between ==
    LET last == IF Tip < tip THEN Tip ELSE tip IN
    [i \in 1 .. (last - currentTip) |->
        [number |-> currentTip + i, hash |-> chain[currentTip + i + 1]]]

\* The replies a query may get, each with the cache it leaves: an answer from the
\* cache, or one of the database that is kept for 45 seconds unless it is too
\* large or Redis fails.
Ask(query, rows) ==
    LET hits == {a \in answers : a.key = Key(query)}
        kept == IF hits = {} /\ Cardinality(answers) < MaxAnswers
                THEN {answers, answers \cup {[key |-> Key(query), rows |-> rows]}}
                ELSE {answers} IN
    {[rows |-> a.rows, answers |-> answers] : a \in hits}
        \cup {[rows |-> rows, answers |-> k] : k \in kept}

\* Mutant: tipBlockHash is a number.
SendHeadsNumber(heads) ==
    /\ feed' = feed \o heads
    /\ IF heads = << >>
       THEN isRunning' = FALSE /\ pc' = "off" /\ tip' = NoTip /\ UNCHANGED tipBlockHash
       ELSE /\ tipBlockHash' = heads[Len(heads)].number
            /\ pc' = "logs"
            /\ UNCHANGED <<isRunning, tip>>

\* Heads are sent before anything else. Without one, taking the hash of the last
\* head throws.
SendHeads(heads) ==
    /\ feed' = feed \o heads
    /\ IF heads = << >>
       THEN /\ isRunning' = FALSE
            /\ pc' = "off"
            /\ tip' = NoTip
            /\ UNCHANGED tipBlockHash
       ELSE /\ tipBlockHash' \in {heads[Len(heads)].hash, tipBlockHash}
            /\ pc' = "logs"
            /\ UNCHANGED <<isRunning, tip>>

GetBlocks ==
    /\ pc = "blocks"
    /\ \E reply \in Ask("blocks", Between) :
           SendHeads(reply.rows) /\ answers' = reply.answers
    /\ UNCHANGED <<chain, interval, currentTip, since, logged, shortened, faults>>

\* Mutant: currentTip stays.
SendLogsAgain(rows) ==
    /\ logged' = logged \cup {rows[i].hash : i \in DOMAIN rows}
    /\ tip' = NoTip
    /\ pc' = "idle"
    /\ UNCHANGED currentTip

\* Mutant: currentTip becomes the tip of now.
SendLogsLatest(rows) ==
    /\ logged' = logged \cup {rows[i].hash : i \in DOMAIN rows}
    /\ currentTip' = Tip
    /\ tip' = NoTip
    /\ pc' = "idle"

SendLogs(rows) ==
    /\ logged' = logged \cup {rows[i].hash : i \in DOMAIN rows}
    /\ currentTip' = tip
    /\ tip' = NoTip
    /\ pc' = "idle"

GetLogs ==
    /\ pc = "logs"
    /\ \E reply \in Ask("logs", Between) :
           SendLogs(reply.rows) /\ answers' = reply.answers
    /\ UNCHANGED <<chain, tipBlockHash, interval, isRunning, since, feed,
                   shortened, faults>>

AnswerExpires ==
    /\ \E a \in answers : answers' = answers \ {a}
    /\ UNCHANGED <<chain, tipBlockHash, interval, isRunning, currentTip, pc, tip,
                   historyVars, shortened, faults>>

\* tipBlockHash is kept for 5 minutes.
TipBlockHashExpires ==
    /\ tipBlockHash # NoHash
    /\ tipBlockHash' = NoHash
    /\ UNCHANGED <<chain, answers, interval, isRunning, currentTip, pc, tip,
                   historyVars, shortened, faults>>

Poll == ReadTip \/ GetBlocks \/ GetLogs

Next ==
    \/ \E b \in Block : Index(b)
    \/ RollBack
    \/ Started
    \/ StartFails
    \/ Check
    \/ PollFails
    \/ Restart
    \/ Poll
    \/ AnswerExpires
    \/ TipBlockHashExpires

\* Timers fire and queries are answered, or fail.
Fairness == WF_vars(Started) /\ WF_vars(Check) /\ WF_vars(Poll)

Spec == Init /\ [][Next]_vars /\ Fairness

-----------------------------------------------------------------------------
\* Properties.

NewHead == [number : Nat, hash : Block]

TypeOK ==
    /\ chain \in Seq(Block)
    /\ tipBlockHash \in Block \cup {NoHash}
    /\ \A a \in answers : a.rows \in Seq(NewHead)
    /\ interval \in BOOLEAN
    /\ isRunning \in BOOLEAN
    /\ currentTip \in Nat \cup {NoTip}
    /\ pc \in Step
    /\ tip \in Nat \cup {NoTip}
    /\ since \in Nat \cup {NoTip}
    /\ feed \in Seq(NewHead)
    /\ logged \subseteq Block
    /\ shortened \in BOOLEAN
    /\ faults \in 0 .. MaxFaults

\* Until the emitter stops, no number is announced twice or after a higher one,
\* whatever is rolled back and indexed again and whatever the cache answers.
HeadsAscend ==
    \A i, j \in 1 .. Len(feed) : i < j => feed[i].number < feed[j].number

\* ... and none is left out, unless a block was rolled back between the query of
\* the tip and that of the blocks: what was sent is since + 1 .. currentTip.
HeadsGapless ==
    ~shortened =>
        /\ \A i \in 1 .. Len(feed) : feed[i].number = since + i
        /\ pc = "idle" => Len(feed) = currentTip - since

\* A block above currentTip that stays is announced, with its logs, once failures
\* are over, if no old answer is in the cache. (A block at or below currentTip, one
\* that replaces a block announced before, never is.)
Announced ==
    \A b \in Block :
        (/\ pc = "idle"
         /\ faults = MaxFaults
         /\ answers = {}
         /\ \E n \in (currentTip + 1) .. Tip : chain[n + 1] = b
         /\ [](isRunning /\ \E n \in 0 .. Tip : chain[n + 1] = b))
            ~> (b \in logged /\ \E i \in 1 .. Len(feed) : feed[i].hash = b)

\* A poll that fails, or that finds no head to take a hash of, is not the end: the
\* emitter polls again, once failures are over. (It does not when start() fails,
\* which leaves isRunning set for the liveness check to see.)
PollsAgain == ~isRunning /\ faults = MaxFaults ~> pc = "idle"
=============================================================================
