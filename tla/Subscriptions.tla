---------------------------- MODULE Subscriptions ----------------------------
(***************************************************************************)
(* One WebSocket connection: its subscriptions, the lists of new heads and *)
(* of logs that its worker hears of, and what the client is sent           *)
(* (api-server/src/ws/methods.ts).  Heads are sent at once; a list of logs *)
(* waits for the hashes of its transactions, so that lists may overtake    *)
(* each other, and one whose lookup fails is never sent.  What is sent is  *)
(* kept by subscription: a client cannot rely on the order between two.    *)
(***************************************************************************)
EXTENDS LogFilter

CONSTANTS
    SubscriptionId, \* random ids
    EthNewHead,
    Heads,          \* the lists of heads that may arrive
    Batch,          \* the lists of logs that may arrive
    LogQuery,       \* what clients give when they subscribe to logs
    MaxHeads,       \* how many heads arrive
    MaxLists        \* how many lists of logs arrive

ASSUME SubscriptionAssumption ==
    /\ Heads \subseteq Seq(EthNewHead)
    /\ MaxHeads \in Nat /\ MaxLists \in Nat
    /\ \A logs \in Batch : \A log \in logs : LogForm(log)
    /\ \A query \in LogQuery : FilterForm(query)

VARIABLES
    open,           \* the connection, and with it the listeners
    newHeadsIds, syncingIds,
    logsQueryMaps,  \* the filter of each logs subscription, or {}
    delivering,     \* logs that wait for their hashes: [id, list, logs]
    outbox,         \* what was sent for each id: heads, or [list, logs]
    heads,          \* history: the heads that arrived
    lists,          \* history: the lists of logs that arrived
    during,         \* history: {} or for each id [name, query, from, until]
    lost            \* history: lists whose lookup failed, [id, list]

subscriptionVars ==
    <<open, newHeadsIds, syncingIds, logsQueryMaps, delivering, outbox, heads, lists, during, lost>>

SubscriptionInit ==
    /\ open = TRUE /\ newHeadsIds = {} /\ syncingIds = {}
    /\ logsQueryMaps = [id \in SubscriptionId |-> {}]
    /\ delivering = {} /\ outbox = [id \in SubscriptionId |-> <<>>]
    /\ heads = <<>> /\ lists = <<>>
    /\ during = [id \in SubscriptionId |-> {}] /\ lost = {}

\* How much has arrived.
Now == [heads |-> Len(heads), lists |-> Len(lists)]

\* Ids are random: one that was never given before.
newSubscriptionId(id) == during[id] = {}

Registers(id, name, query) ==
    during' = [during EXCEPT ![id] = {[name |-> name, query |-> query, from |-> Now, until |-> {}]}]

EthSubscribe ==
    /\ open
    /\ \E id \in SubscriptionId :
         /\ newSubscriptionId(id)
         /\ \/ \E query \in LogQuery :
                 /\ Registers(id, "logs", query)
                 /\ logsQueryMaps' = [logsQueryMaps EXCEPT ![id] = {query}]
                 /\ UNCHANGED <<newHeadsIds, syncingIds>>
            \/ /\ Registers(id, "newHeads", {})
               /\ newHeadsIds' = newHeadsIds \cup {id} /\ UNCHANGED <<syncingIds, logsQueryMaps>>
            \/ /\ Registers(id, "syncing", {})
               /\ syncingIds' = syncingIds \cup {id} /\ UNCHANGED <<newHeadsIds, logsQueryMaps>>
    /\ UNCHANGED <<open, delivering, outbox, heads, lists, lost>>

\* An id of a subscription that is there.
Subscribed(id) == id \in newHeadsIds \cup syncingIds \/ logsQueryMaps[id] # {}
Ends(id) == during' = [during EXCEPT ![id] = {[s EXCEPT !.until = {Now}] : s \in @}]

\* Mutant: the filter of a subscription to logs stays.
EthUnsubscribeKeepsFilter ==
    /\ open
    /\ \E id \in SubscriptionId :
         /\ Subscribed(id) /\ Ends(id)
         /\ newHeadsIds' = newHeadsIds \ {id}
         /\ syncingIds' = syncingIds \ {id}
    /\ UNCHANGED <<open, logsQueryMaps, delivering, outbox, heads, lists, lost>>

EthUnsubscribe ==
    /\ open
    /\ \E id \in SubscriptionId :
         /\ Subscribed(id) /\ Ends(id)
         /\ newHeadsIds' = newHeadsIds \ {id}
         /\ syncingIds' = syncingIds \ {id}
         /\ logsQueryMaps' = [logsQueryMaps EXCEPT ![id] = {}]
    /\ UNCHANGED <<open, delivering, outbox, heads, lists, lost>>

\* Every subscription to heads is sent each of them, in the order of the list.
BlockListener ==
    /\ open
    /\ \E list \in Heads :
         /\ Len(heads) + Len(list) <= MaxHeads
         /\ heads' = heads \o list
         /\ outbox' = [id \in SubscriptionId |->
                         IF id \in newHeadsIds THEN outbox[id] \o list ELSE outbox[id]]
    /\ UNCHANGED <<open, newHeadsIds, syncingIds, logsQueryMaps, delivering, lists, during, lost>>

\* Every subscription with a log that matches starts to look up hashes.
Matching(logs, query) == filterLogsByTopics(filterLogsByAddress(logs, query.address), query.topics)
Deliveries(logs, list) ==
    UNION {{[id |-> id, list |-> list, logs |-> Matching(logs, query)] : query \in logsQueryMaps[id]} :
           id \in SubscriptionId}
LogsListener ==
    /\ open /\ Len(lists) < MaxLists
    /\ \E logs \in Batch :
         /\ lists' = Append(lists, logs)
         /\ delivering' = delivering \cup {d \in Deliveries(logs, Len(lists) + 1) : d.logs # {}}
    /\ UNCHANGED <<open, newHeadsIds, syncingIds, logsQueryMaps, outbox, heads, during, lost>>

\* All hashes of a list are there.  A connection that was closed sends nothing.
SendLogs ==
    \E d \in delivering :
       /\ delivering' = delivering \ {d}
       /\ outbox' = IF open
                    THEN [outbox EXCEPT ![d.id] = Append(@, [list |-> d.list, logs |-> d.logs])]
                    ELSE outbox
       /\ UNCHANGED <<open, newHeadsIds, syncingIds, logsQueryMaps, heads, lists, during, lost>>

\* A lookup in Redis or the database fails: nobody handles the rejection.
LookupFails ==
    \E d \in delivering :
       /\ delivering' = delivering \ {d}
       /\ lost' = lost \cup {[id |-> d.id, list |-> d.list]}
       /\ UNCHANGED <<open, newHeadsIds, syncingIds, logsQueryMaps, outbox, heads, lists, during>>

Close ==
    /\ open /\ open' = FALSE
    /\ UNCHANGED <<newHeadsIds, syncingIds, logsQueryMaps, delivering, outbox, heads, lists, during, lost>>

SubscriptionNext ==
    \/ EthSubscribe \/ EthUnsubscribe \/ BlockListener \/ LogsListener
    \/ SendLogs \/ LookupFails \/ Close

SubscriptionSpec == SubscriptionInit /\ [][SubscriptionNext]_subscriptionVars

-----------------------------------------------------------------------------

\* What had arrived when a subscription ended, or has arrived by now.
Until(s) == IF s.until = {} THEN Now ELSE CHOOSE moment \in s.until : TRUE

\* The logs of a list that a subscription is for.
Selected(s, list) == {log \in lists[list] : RuleMatches(log, s.query)}

\* The lists that a subscription heard and that hold logs for it.
Due(s) == {list \in s.from.lists + 1 .. Until(s).lists : Selected(s, list) # {}}

\* The lists that were sent to a subscription, are on their way, or are lost.
Sent(id) == {outbox[id][n].list : n \in DOMAIN outbox[id]}
Waiting(id) == {d.list : d \in {d \in delivering : d.id = id}}
Failed(id) == {l.list : l \in {l \in lost : l.id = id}}

\* Every list once, and as the rule selects it; until the connection is closed
\* none is missing but those whose lookup failed.
LogsDelivered(id, s) ==
    /\ \A m, n \in DOMAIN outbox[id] : outbox[id][m].list = outbox[id][n].list => m = n
    /\ \A n \in DOMAIN outbox[id] : outbox[id][n].logs = Selected(s, outbox[id][n].list)
    /\ Sent(id) \cap Waiting(id) = {}
    /\ Failed(id) \cap (Sent(id) \cup Waiting(id)) = {}
    /\ Sent(id) \cup Waiting(id) \cup Failed(id) \subseteq Due(s)
    /\ open => Due(s) \subseteq Sent(id) \cup Waiting(id) \cup Failed(id)

\* Whatever is subscribed, unsubscribed and delivered in between: a
\* subscription to heads is sent exactly the heads that arrived while it was
\* there, in their order; one to logs is sent once, for each list that arrived
\* while it was there, the logs that its filter selects, and nothing when it
\* selects none, and a list that is not sent is on its way or had a lookup that
\* failed; a syncing subscription is sent nothing (ws/methods.ts:108-215).
SubscriptionsExact ==
    \A id \in SubscriptionId : \A s \in during[id] :
       /\ s.name = "newHeads" => outbox[id] = SubSeq(heads, s.from.heads + 1, Until(s).heads)
       /\ s.name = "syncing" => outbox[id] = <<>>
       /\ s.name = "logs" /\ PlainFilter(s.query) => LogsDelivered(id, s)

=============================================================================
