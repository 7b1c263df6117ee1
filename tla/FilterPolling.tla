---------------------------- MODULE FilterPolling ----------------------------
(***************************************************************************)
(* One polling filter of the api-server: eth_newFilter, eth_newBlockFilter,*)
(* eth_getFilterChanges and eth_uninstallFilter (methods/modules/eth.ts),  *)
(* the FilterManager that keeps the filter in Redis (cache/index.ts), and  *)
(* the Redis cache of database answers they read through (db/knex.ts).     *)
(*                                                                         *)
(* The database is the chain that IndexedChain promises; requests of the   *)
(* client may overlap, and each await is a step of its own. The key of a   *)
(* cached answer also names the tip announced last; leaving that out lets  *)
(* an old answer be used whenever its lastPoll and toBlock fit.            *)
(***************************************************************************)
EXTENDS Integers, Sequences, FiniteSets

CONSTANTS
    Block, NoBlock, Parent,     \* as in IndexedChain
    Emitting,                   \* the blocks with a log that matches the filter
    Slot,                       \* requests of the client that overlap
    NoFilter,                   \* no such key
    MAX_QUERY_NUMBER,           \* the most logs a query may return
    MaxId,                      \* bound of the model: ids of the table logs
    MaxAnswers                  \* bound of the model: answers cached at once

ASSUME FilterAssumption == MaxId \in Nat

VARIABLES
    chain,          \* table blocks
    logs,           \* the matching rows of table logs
    nextId,         \* the sequence of logs.id
    answers,        \* Redis: cached answers of the database
    filter,         \* Redis: the filter
    kind,           \* what the filter watches: "block" or "log"
    since,          \* history: its first lastPoll, NotYet before it is installed
    pc, lastPoll, toBlock, found,   \* the locals of each request
    reported        \* history: the rows in the replies

dbVars == <<chain, logs, nextId>>
requestVars == <<pc, lastPoll, toBlock, found>>
vars == <<dbVars, answers, filter, kind, since, requestVars, reported>>

Chain == INSTANCE IndexedChain

NotYet == -1
Tip == Len(chain) - 1

\* What a reply lists: `at' is what lastPoll is compared with, a block number or
\* a log id.
Row == [at : Nat, number : Nat, hash : Block]
Rows ==
    IF kind = "log" THEN logs
    ELSE {[at |-> n, number |-> n, hash |-> chain[n + 1]] : n \in 0 .. Tip}

Last(rows) == (CHOOSE r \in rows : \A q \in rows : q.at <= r.at).at

Step == {"idle", "failed", "getLastPoll", "toBlock", "query", "updateLastPoll", "insert"}

Init ==
    /\ Chain!Init
    /\ logs = {}
    /\ nextId = 1
    /\ answers = {}
    /\ filter = NoFilter
    /\ kind \in {"block", "log"}
    /\ since = NotYet
    /\ pc = [s \in Slot |-> "idle"]
    /\ lastPoll = [s \in Slot |-> 0]
    /\ toBlock = [s \in Slot |-> 0]
    /\ found = [s \in Slot |-> {}]
    /\ reported = {}

-----------------------------------------------------------------------------
\* The indexer.

Index(b) ==
    /\ Chain!Push(b)
    /\ IF b \in Emitting
       THEN /\ nextId <= MaxId
            /\ logs' = logs \cup {[at |-> nextId, number |-> Len(chain), hash |-> b]}
            /\ nextId' = nextId + 1
       ELSE UNCHANGED <<logs, nextId>>
    /\ UNCHANGED <<answers, filter, kind, since, requestVars, reported>>

RollBack ==
    /\ Chain!Pop
    /\ logs' = {r \in logs : r.number # Tip}
    /\ UNCHANGED <<nextId, answers, filter, kind, since, requestVars, reported>>

-----------------------------------------------------------------------------
\* Installing and removing the filter.

\* newBlockFilter starts at the tip. newFilter starts at the last log, which it
\* reads through the cache, so it may be the last log of a while ago.
Install ==
    /\ since = NotYet
    /\ IF kind = "log" THEN since' \in 0 .. (nextId - 1)
       ELSE Tip >= 0 /\ since' = Tip
    /\ filter' = since'
    /\ UNCHANGED <<dbVars, answers, kind, requestVars, reported>>

\* The key goes: its five minutes are over, or another request of the client
\* uninstalls the filter.
Remove ==
    /\ filter # NoFilter
    /\ filter' = NoFilter
    /\ UNCHANGED <<dbVars, answers, kind, since, requestVars, reported>>

-----------------------------------------------------------------------------
\* getFilterChanges. A filter that is gone ends it with an error at each read.

\* The request is over; its locals are forgotten.
EndAs(s, step) ==
    /\ pc' = [pc EXCEPT ![s] = step]
    /\ lastPoll' = [lastPoll EXCEPT ![s] = 0]
    /\ toBlock' = [toBlock EXCEPT ![s] = 0]
    /\ found' = [found EXCEPT ![s] = {}]
End(s) == EndAs(s, "idle")

\* filterManager.get
GetFilterChanges(s) ==
    /\ pc[s] \in {"idle", "failed"}
    /\ filter # NoFilter
    /\ pc' = [pc EXCEPT ![s] = "getLastPoll"]
    /\ UNCHANGED <<dbVars, answers, filter, kind, since, lastPoll, toBlock, found, reported>>

GetLastPoll(s) ==
    /\ pc[s] = "getLastPoll"
    /\ IF filter = NoFilter THEN End(s)
       ELSE /\ lastPoll' = [lastPoll EXCEPT ![s] = filter]
            /\ pc' = [pc EXCEPT ![s] = IF kind = "log" THEN "toBlock" ELSE "query"]
            /\ UNCHANGED <<toBlock, found>>
    /\ UNCHANGED <<dbVars, answers, filter, kind, since, reported>>

\* Mutant: no check that there is a tip.
ToBlockUnchecked(s) ==
    /\ pc[s] = "toBlock"
    /\ toBlock' = [toBlock EXCEPT ![s] = Tip]
    /\ pc' = [pc EXCEPT ![s] = "query"]
    /\ UNCHANGED <<dbVars, answers, filter, kind, since, lastPoll, found, reported>>

\* _normalizeBlockParameterForFilterRequest: "latest" is the tip of now.
ToBlock(s) ==
    /\ pc[s] = "toBlock"
    /\ IF Tip < 0 THEN End(s)
       ELSE /\ toBlock' = [toBlock EXCEPT ![s] = Tip]
            /\ pc' = [pc EXCEPT ![s] = "query"]
            /\ UNCHANGED <<lastPoll, found>>
    /\ UNCHANGED <<dbVars, answers, filter, kind, since, reported>>

Key(s) == <<lastPoll[s], toBlock[s]>>
\* Mutant: the first row after lastPoll is left out.
NewerByOne(s) ==
    {r \in Rows : r.at > lastPoll[s] + 1 /\ (kind = "log" => r.number <= toBlock[s])}

Newer(s) ==
    {r \in Rows : r.at > lastPoll[s] /\ (kind = "log" => r.number <= toBlock[s])}

\* Without a row to report, the reply is []; with too many logs it is an error.
\* lastPoll stays, either way.
Answered(s, rows) ==
    IF rows = {} \/ (kind = "log" /\ Cardinality(rows) > MAX_QUERY_NUMBER) THEN End(s)
    ELSE /\ found' = [found EXCEPT ![s] = rows]
         /\ pc' = [pc EXCEPT ![s] = "updateLastPoll"]
         /\ UNCHANGED <<lastPoll, toBlock>>

\* A miss. The answer is kept unless it takes more than MAX_CACHE_SIZE bytes or
\* Redis fails.
QueryDatabase(s) ==
    /\ pc[s] = "query"
    /\ \/ /\ Cardinality(answers) < MaxAnswers
          /\ \A a \in answers : a.key # Key(s)
          /\ answers' = answers \cup {[key |-> Key(s), rows |-> Newer(s)]}
       \/ UNCHANGED answers
    /\ Answered(s, Newer(s))
    /\ UNCHANGED <<dbVars, filter, kind, since, reported>>

QueryCache(s) ==
    /\ pc[s] = "query"
    /\ \E a \in answers : a.key = Key(s) /\ Answered(s, a.rows)
    /\ UNCHANGED <<dbVars, answers, filter, kind, since, reported>>

\* Mutant: answers are kept for ever.
AnswerNeverExpires == FALSE /\ UNCHANGED vars

\* An answer is kept for 45 seconds.
AnswerExpires ==
    /\ \E a \in answers : answers' = answers \ {a}
    /\ UNCHANGED <<dbVars, filter, kind, since, requestVars, reported>>

\* updateLastPoll reads the filter and then writes it with the new lastPoll. It
\* does not wait for the write, so the reply may overtake it.
UpdateLastPoll(s) ==
    /\ pc[s] = "updateLastPoll"
    /\ IF filter = NoFilter THEN End(s) /\ UNCHANGED reported
       ELSE /\ reported' = reported \cup found[s]
            /\ pc' = [pc EXCEPT ![s] = "insert"]
            /\ UNCHANGED <<lastPoll, toBlock, found>>
    /\ UNCHANGED <<dbVars, answers, filter, kind, since>>

\* Mutant: lastPoll becomes the last row there is, not the last that was found.
InsertLatest(s) ==
    /\ pc[s] = "insert"
    /\ filter' = IF kind = "log" THEN nextId - 1 ELSE Tip
    /\ End(s)
    /\ UNCHANGED <<dbVars, answers, kind, since, reported>>

\* The write may come after the filter was removed, and brings it back.
Insert(s) ==
    /\ pc[s] = "insert"
    /\ filter' = Last(found[s])
    /\ End(s)
    /\ UNCHANGED <<dbVars, answers, kind, since, reported>>

\* Redis or the database fails, or the query takes too long: the request ends
\* with an error, or the write that nothing waits for is lost.
Fail(s) ==
    /\ pc[s] \notin {"idle", "failed"}
    /\ EndAs(s, "failed")
    /\ UNCHANGED <<dbVars, answers, filter, kind, since, reported>>

Serve(s) ==
    \/ GetLastPoll(s) \/ ToBlock(s) \/ QueryDatabase(s) \/ QueryCache(s)
    \/ UpdateLastPoll(s) \/ Insert(s)

Next ==
    \/ \E b \in Block : Index(b)
    \/ RollBack
    \/ Install
    \/ Remove
    \/ AnswerExpires
    \/ \E s \in Slot : GetFilterChanges(s) \/ Serve(s) \/ Fail(s)

\* The client keeps polling, requests are served, cached answers expire, and
\* failures come to an end.
Fairness ==
    /\ \A s \in Slot : WF_vars(GetFilterChanges(s)) /\ WF_vars(Serve(s))
    /\ WF_vars(AnswerExpires)
    /\ <>[][~\E s \in Slot : Fail(s)]_vars

Spec == Init /\ [][Next]_vars /\ Fairness

-----------------------------------------------------------------------------
\* Properties.

TypeOK ==
    /\ chain \in Seq(Block)
    /\ logs \subseteq Row
    /\ nextId \in 1 .. (MaxId + 1)
    /\ \A a \in answers : a.rows \subseteq Row
    /\ filter \in Nat \cup {NoFilter}
    /\ since \in Nat \cup {NotYet}
    /\ pc \in [Slot -> Step]
    /\ lastPoll \in [Slot -> Nat]
    /\ toBlock \in [Slot -> Nat]
    /\ found \in [Slot -> SUBSET Row]
    /\ reported \subseteq Row

Passed(rows) == {r \in rows : since < r.at /\ filter # NoFilter /\ r.at <= filter}

\* A log filter passes over no log: whatever rolls back, is answered from the
\* cache or is polled twice at once, a stored log that the filter's lastPoll has
\* passed is in some reply.
NoLogSkipped == kind = "log" => Passed(logs) \subseteq reported

\* A block filter passes over no block number.
NoNumberSkipped ==
    kind = "block" /\ filter # NoFilter =>
        \A n \in (since + 1) .. filter : \E r \in reported : r.number = n

\* A log that stays is reported to a client that keeps polling a filter that
\* stays, although each poll may be answered with what the cache has kept. (Once
\* more than MAX_QUERY_NUMBER logs are new, every poll is an error and lastPoll
\* never moves: the client is assumed to poll before that.)
LogsReported ==
    \A i \in 1 .. MaxId :
        (/\ since # NotYet
         /\ i > since
         /\ [](/\ filter # NoFilter /\ kind = "log"
               /\ \E r \in logs : r.at = i
               /\ Cardinality({r \in logs : r.at > filter}) <= MAX_QUERY_NUMBER))
            ~> \E r \in reported : r.at = i

\* The comment of getFilterChanges, "returns an array of events that have occurred
\* since the last poll", for a block filter the hashes of blocks: every stored
\* block that the filter's lastPoll has passed is in some reply.
NoBlockSkipped == kind = "block" => Passed(Rows) \subseteq reported
=============================================================================
