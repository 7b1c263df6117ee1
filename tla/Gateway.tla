------------------------------- MODULE Gateway -------------------------------
(***************************************************************************)
(* What the api-server does for one client beside the protocols over       *)
(* Redis, each time with two pieces of code, or two parties, that have to  *)
(* agree: a transaction on its way (TxPath), a WebSocket connection        *)
(* (Subscriptions), the price oracle (PriceOracle), and a request for      *)
(* logs, for which the database and the memory of a worker have the same   *)
(* filters (LogFilter).  They share no state, so one of them is followed   *)
(* at a time: a part moves while the others rest.                          *)
(***************************************************************************)
EXTENDS TxPath, Subscriptions, PriceOracle

CONSTANTS
    Log,        \* the logs in the database
    Filter,     \* the filters clients give
    PollId      \* the ids of the last log reported to a filter, or -1

ASSUME GatewayAssumption ==
    /\ \A log \in Log : LogForm(log) /\ {log.id, log.block} \subseteq Int
    /\ \A filter \in Filter :
         /\ FilterForm(filter) /\ {filter.fromBlock, filter.toBlock} \subseteq Int
         /\ \A hash, other \in filter.blockHash : hash = other
    /\ PollId \subseteq Int

VARIABLE asked  \* {}, or the filter somebody asked the logs of and its last poll

gatewayVars == <<vars, subscriptionVars, oracleVars, asked>>

GatewayInit == Init /\ SubscriptionInit /\ OracleInit /\ asked = {}

TransactionRests == stage = "idle"
ConnectionRests == open /\ heads = <<>> /\ lists = <<>> /\ \A id \in SubscriptionId : during[id] = {}
OracleRests == price = {} /\ running /\ gasPriceCache = {}

Transact ==
    /\ asked = {} /\ ConnectionRests /\ OracleRests
    /\ Next
    /\ UNCHANGED <<subscriptionVars, oracleVars, asked>>

Connect ==
    /\ asked = {} /\ TransactionRests /\ OracleRests
    /\ SubscriptionNext
    /\ UNCHANGED <<vars, oracleVars, asked>>

FollowPrice ==
    /\ asked = {} /\ TransactionRests /\ ConnectionRests
    /\ OracleNext
    /\ UNCHANGED <<vars, subscriptionVars, asked>>

\* A client asks for logs, or for those since its last poll.
AskLogs ==
    /\ asked = {} /\ TransactionRests /\ ConnectionRests /\ OracleRests
    /\ \E filter \in Filter, lastPollId \in PollId :
         asked' = {[filter |-> filter, lastPollId |-> lastPollId]}
    /\ UNCHANGED <<vars, subscriptionVars, oracleVars>>

GatewayNext == Transact \/ Connect \/ FollowPrice \/ AskLogs

GatewaySpec == GatewayInit /\ [][GatewayNext]_gatewayVars

-----------------------------------------------------------------------------

\* The database and the memory of a worker select the same logs for a filter,
\* those of the rule both are commented with, when the filter's blocks hold
\* them all; the database alone selects those of the rule in a range of blocks
\* or after the last one reported (db/helpers.ts:145-223 and 239-316).
FiltersAgree ==
    \A query \in asked :
       PlainFilter(query.filter) =>
         LET f == query.filter
             after == query.lastPollId
             found == getLogsByFilter(Log, f, after)
             rule  == {log \in Log : RuleMatches(log, f)}
         IN /\ filterLogsByTopics(filterLogsByAddress(Log, f.address), f.topics) = rule
            /\ found = {log \in rule :
                          /\ IF f.blockHash = {} THEN f.fromBlock <= log.block /\ log.block <= f.toBlock
                             ELSE f.blockHash = {log.hash}
                          /\ after # -1 => log.id > after}

=============================================================================
