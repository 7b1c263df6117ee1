------------------------------ MODULE LogFilter ------------------------------
(***************************************************************************)
(* Which logs a filter selects, decided twice: by the database, for        *)
(* eth_getLogs and polling filters (buildQueryLog... of                    *)
(* api-server/src/db/helpers.ts, called by getLogsByFilter), and in the    *)
(* memory of a worker, for subscriptions (filterLogsBy... of the same      *)
(* file).  Both carry the same comment with the rule they implement.       *)
(*                                                                         *)
(* A log is [id, block, hash, address, topics]: its row, the number and    *)
(* the hash of its block.  What a client writes is text: a value and the   *)
(* case of its digits, or Null.  The address of a filter, and each of its  *)
(* topics, is [list, texts]: a list of texts, or one text or none.         *)
(***************************************************************************)
EXTENDS Integers, Sequences, Functions

\* The text of an address or a topic, in lower or upper case.
Text(value, upper) == [value |-> value, upper |-> upper]
Null == Text("null", FALSE)
Anything == [list |-> FALSE, texts |-> <<>>]

\* The forms of what is compared: an entry of a filter that is no list is one
\* text or none.
IsSequence(s) == s \in Seq(Range(s))
EntryForm(entry) ==
    /\ entry = [list |-> entry.list, texts |-> entry.texts] /\ entry.list \in BOOLEAN
    /\ IsSequence(entry.texts) /\ (~entry.list => Len(entry.texts) <= 1)
    /\ \A text \in Range(entry.texts) : text = Text(text.value, text.upper) /\ text.upper \in BOOLEAN
LogForm(log) == IsSequence(log.topics)
FilterForm(filter) ==
    /\ EntryForm(filter.address)
    /\ IsSequence(filter.topics) /\ \A entry \in Range(filter.topics) : EntryForm(entry)

normalizeQueryAddress(text) == Text(text.value, FALSE)

\* What a log holds, as bytes for the database and as text in memory.
hexToBuffer(text) == text.value
bufferToHex(value) == Text(value, FALSE)

-----------------------------------------------------------------------------
(* The database                                                            *)

\* The addresses of string | string[] | undefined.
universalizeAddress(address) ==
    [i \in DOMAIN address.texts |-> normalizeQueryAddress(address.texts[i])]

buildQueryLogAddress(log, addresses) ==
    addresses # <<>> => log.address \in {hexToBuffer(addresses[i]) : i \in DOMAIN addresses}

\* topics[n] of a log with fewer topics is NULL, which equals nothing.
buildQueryLogTopics(log, topics) ==
    /\ topics # <<>> => Len(log.topics) >= Len(topics)
    /\ \A i \in DOMAIN topics :
         /\ topics[i].list =>
              log.topics[i] \in {hexToBuffer(text) : text \in Range(topics[i].texts)}
         /\ ~topics[i].list =>
              \A text \in Range(topics[i].texts) : log.topics[i] = hexToBuffer(text)

\* hexToBuffer of a null in a list throws.
QueryThrows(topics) == \E i \in DOMAIN topics : topics[i].list /\ Null \in Range(topics[i].texts)

buildQueryLogBlock(log, fromBlock, toBlock, blockHash) ==
    IF blockHash # {} THEN log.hash \in blockHash ELSE log.block \in fromBlock .. toBlock

buildQueryLogId(log, lastPollId) == lastPollId # -1 => log.id > lastPollId

\* The logs the query selects.
getLogsByFilter(logs, filter, lastPollId) ==
    {log \in logs :
       /\ buildQueryLogAddress(log, universalizeAddress(filter.address))
       /\ buildQueryLogTopics(log, filter.topics)
       /\ buildQueryLogBlock(log, filter.fromBlock, filter.toBlock, filter.blockHash)
       /\ buildQueryLogId(log, lastPollId)}

-----------------------------------------------------------------------------
(* The memory                                                              *)

\* No log has a list for its address.
filterLogsByAddress(logs, address) ==
    IF address = Anything THEN logs
    ELSE {log \in logs :
            ~address.list /\ bufferToHex(log.address) = normalizeQueryAddress(address.texts[1])}

\* Mutant: a log with fewer topics matches as far as it goes.
TopicsMatchShort(topics, filterTopics) ==
    \A i \in DOMAIN topics \cap DOMAIN filterTopics :
       LET texts == Range(filterTopics[i].texts)
       IN /\ filterTopics[i].list => bufferToHex(topics[i]) \in texts
          /\ ~filterTopics[i].list => \A text \in texts : bufferToHex(topics[i]) = text

\* The loop over the topics of a log, which compares texts.
TopicsMatch(topics, filterTopics) ==
    /\ Len(topics) >= Len(filterTopics)
    /\ \A i \in DOMAIN topics \cap DOMAIN filterTopics :
         LET texts == Range(filterTopics[i].texts)
         IN /\ filterTopics[i].list => bufferToHex(topics[i]) \in texts
            /\ ~filterTopics[i].list => \A text \in texts : bufferToHex(topics[i]) = text

filterLogsByTopics(logs, filterTopics) ==
    IF filterTopics = <<>> THEN logs
    ELSE IF \A i \in DOMAIN filterTopics : filterTopics[i] = Anything
    THEN {log \in logs : Len(log.topics) >= Len(filterTopics)}
    ELSE {log \in logs : TopicsMatch(log.topics, filterTopics)}

-----------------------------------------------------------------------------
(* The rule of the comment                                                 *)

\* "Topics are order-dependent. Each topic can also be an array of DATA with
\* 'or' options", and anything may follow.
RuleMatches(log, filter) ==
    /\ filter.address.texts # <<>> => \E text \in Range(filter.address.texts) : log.address = text.value
    /\ \A i \in DOMAIN filter.topics :
         /\ i <= Len(log.topics)
         /\ filter.topics[i] # Anything =>
              \E text \in Range(filter.topics[i].texts) : log.topics[i] = text.value

\* What the two implementations read alike: one address, topics in the case
\* the database gives them, and no null inside a list.
PlainFilter(filter) ==
    /\ ~filter.address.list
    /\ ~QueryThrows(filter.topics)
    /\ \A i \in DOMAIN filter.topics : \A text \in Range(filter.topics[i].texts) : ~text.upper

=============================================================================
