------------------------------ MODULE DataCache ------------------------------
(***************************************************************************)
(* RedisDataCache.get (api-server/src/cache/data.ts): concurrent requests  *)
(* for one data key, served by the worker processes of the cluster, share  *)
(* one execution of an expensive call through a Redis lock and a Redis     *)
(* channel.                                                                *)
(*                                                                         *)
(* Each await on Redis or on the call is a step of its own. The variable   *)
(* `listeners' is the state of each worker's single subscriber connection: *)
(* unsubscribing drops the channel for every request of that worker.       *)
(***************************************************************************)
EXTENDS Naturals, FiniteSets

CONSTANTS
    Request,        \* calls of get() for the key
    Worker,         \* cluster workers
    WorkerOf,       \* WorkerOf[r]: the worker that serves r
    Free,           \* the lock key does not exist
    MaxPolls        \* waits that fit in pollTimeOutMs (2 min of 2 s timeouts)

ASSUME CacheAssumption ==
    /\ Free \notin Request
    /\ WorkerOf \in [Request -> Worker]
    /\ MaxPolls \in Nat

VARIABLES
    cached,     \* the data key exists
    lock,       \* the lock key: the request whose unique value it holds, or Free
    listeners,  \* requests whose listener is on their worker's connection
    timers,     \* requests whose subscribe timer has not fired
    pc,         \* where get() is
    polls,      \* waits of r that timed out
    done,       \* lock winners that have stored a result and not failed since
    lapses      \* history: how many locks expired before their get() ended

vars == <<cached, lock, listeners, timers, pc, polls, done, lapses>>

Running == {"lookup", "acquire", "execute", "set", "publish", "publishError",
            "releaseGet", "releaseDel", "subscribe", "wait", "poll"}
Ended == {"returned", "threw", "crashed"}

\* Won the lock and is still at work on the call.
Executing(r) == pc[r] \in {"execute", "set"}

Move(r, step) == pc' = [pc EXCEPT ![r] = step]

Init ==
    /\ cached = FALSE
    /\ lock = Free
    /\ listeners = {}
    /\ timers = {}
    /\ pc = [r \in Request |-> "lookup"]
    /\ polls = [r \in Request |-> 0]
    /\ done = {}
    /\ lapses = 0

-----------------------------------------------------------------------------
\* get(), up to the lock.

\* GET of the data key, before the loop and at the top of each iteration.
Lookup(r) ==
    /\ pc[r] = "lookup"
    /\ Move(r, IF cached THEN "returned" ELSE "acquire")
    /\ UNCHANGED <<cached, lock, listeners, timers, polls, done, lapses>>

\* SET NX PX of the lock key.
Acquire(r) ==
    /\ pc[r] = "acquire"
    /\ IF lock = Free
       THEN lock' = r /\ Move(r, "execute")
       ELSE Move(r, "subscribe") /\ UNCHANGED lock
    /\ UNCHANGED <<cached, listeners, timers, polls, done, lapses>>

-----------------------------------------------------------------------------
\* The request that won the lock.

\* executeCallResult() ends: with a result; with an error of the node, which
\* waiters are told; or with a connection error ("request to ..."), which they
\* are not.
Execute(r) ==
    /\ pc[r] = "execute"
    /\ \E next \in {"set", "publishError", "releaseGet"} : Move(r, next)
    /\ UNCHANGED <<cached, lock, listeners, timers, polls, done, lapses>>

SetData(r) ==
    /\ pc[r] = "set"
    /\ cached' = TRUE
    /\ done' = done \cup {r}
    /\ Move(r, "publish")
    /\ UNCHANGED <<lock, listeners, timers, polls, lapses>>

\* PUBLISH: every listener that is registered now gets the message, which ends
\* its wait, and the winner goes on.
Deliver(r, ending, step) ==
    pc' = [s \in Request |->
              IF s = r THEN step
              ELSE IF s \in listeners /\ pc[s] = "wait" THEN ending ELSE pc[s]]

\* A listener that parses a result unsubscribes the channel of its whole worker
\* before it resolves.
Publish(r) ==
    /\ pc[r] = "publish"
    /\ Deliver(r, "returned", "releaseGet")
    /\ listeners' = {}
    /\ UNCHANGED <<cached, lock, timers, polls, done, lapses>>

\* A listener that parses an error rejects and stays registered.
PublishError(r) ==
    /\ pc[r] = "publishError"
    /\ Deliver(r, "threw", "releaseGet")
    /\ UNCHANGED <<cached, lock, listeners, timers, polls, done, lapses>>

\* get() of the lock's winner ends: with its result, or rethrowing.
Finish(r) ==
    /\ Move(r, IF r \in done THEN "returned" ELSE "threw")
    /\ done' = done \ {r}

\* Mutant: the value of the lock key is not compared.
ReleaseGetAny(r) ==
    /\ pc[r] = "releaseGet"
    /\ Move(r, "releaseDel")
    /\ UNCHANGED <<cached, lock, listeners, timers, polls, done, lapses>>

\* releaseLock: GET of the lock key, then DEL if the value read is one's own.
ReleaseGet(r) ==
    /\ pc[r] = "releaseGet"
    /\ IF lock = r
       THEN Move(r, "releaseDel") /\ UNCHANGED done
       ELSE Finish(r)
    /\ UNCHANGED <<cached, lock, listeners, timers, polls, lapses>>

ReleaseDel(r) ==
    /\ pc[r] = "releaseDel"
    /\ lock' = Free
    /\ Finish(r)
    /\ UNCHANGED <<cached, listeners, timers, polls, lapses>>

-----------------------------------------------------------------------------
\* The requests that wait.

\* subscribe(): the timer starts at once; the listener is on the connection when
\* Redis has taken the SUBSCRIBE. A SUBSCRIBE that fails is not waited for, so the
\* request then waits for its timer alone.
Subscribe(r) ==
    /\ pc[r] = "subscribe"
    /\ listeners' \in {listeners \cup {r}, listeners}
    /\ timers' = timers \cup {r}
    /\ Move(r, "wait")
    /\ UNCHANGED <<cached, lock, polls, done, lapses>>

\* Mutant: the timer does not unsubscribe.
TimerFiresSubscribed(r) ==
    /\ r \in timers
    /\ timers' = timers \ {r}
    /\ IF pc[r] = "wait" THEN Move(r, "poll") ELSE UNCHANGED pc
    /\ UNCHANGED <<cached, lock, listeners, polls, done, lapses>>

\* Mutant: the timer does not end the wait.
TimerFiresInVain(r) ==
    /\ r \in timers
    /\ timers' = timers \ {r}
    /\ listeners' = {s \in listeners : WorkerOf[s] # WorkerOf[r]}
    /\ UNCHANGED <<cached, lock, pc, polls, done, lapses>>

\* The timer set by subscribe() is never cleared: it fires even after the
\* request has ended, and then too drops the channel of the whole worker.
TimerFires(r) ==
    /\ r \in timers
    /\ timers' = timers \ {r}
    /\ listeners' = {s \in listeners : WorkerOf[s] # WorkerOf[r]}
    /\ IF pc[r] = "wait" THEN Move(r, "poll") ELSE UNCHANGED pc
    /\ UNCHANGED <<cached, lock, polls, done, lapses>>

\* Mutant: no poll timeout.
PollForEver(r) ==
    /\ pc[r] = "poll"
    /\ Move(r, "lookup")
    /\ polls' = [polls EXCEPT ![r] = @ + 1]
    /\ UNCHANGED <<cached, lock, listeners, timers, done, lapses>>

\* Check the poll timeout, sleep, and go round the loop.
Poll(r) ==
    /\ pc[r] = "poll"
    /\ IF polls[r] < MaxPolls
       THEN Move(r, "lookup") /\ polls' = [polls EXCEPT ![r] = @ + 1]
       ELSE Move(r, "threw") /\ UNCHANGED polls
    /\ UNCHANGED <<cached, lock, listeners, timers, done, lapses>>

-----------------------------------------------------------------------------
\* Redis expiry and failures.

\* Mutant: the lock key is set without PX.
LockNeverExpires == FALSE /\ UNCHANGED vars

\* The key expires whatever its owner is at, between the GET and the DEL of its
\* release too.
LockExpires ==
    /\ lock # Free
    /\ lock' = Free
    /\ lapses' = IF pc[lock] \in Running THEN lapses + 1 ELSE lapses
    /\ UNCHANGED <<cached, listeners, timers, pc, polls, done>>

DataExpires ==
    /\ cached
    /\ cached' = FALSE
    /\ UNCHANGED <<lock, listeners, timers, pc, polls, done, lapses>>

\* A command to Redis rejects. Inside the try block, which holds the release
\* after a result too, that is an error like any other; elsewhere get() rejects
\* at once, with the lock still set if it was.
InTry(r) ==
    \/ pc[r] \in {"set", "publish"}
    \/ pc[r] \in {"releaseGet", "releaseDel"} /\ r \in done

AfterError(r) == IF InTry(r) THEN "publishError" ELSE "threw"

\* Either Redis did not get the command, or the connection broke before the answer
\* and the command was carried out all the same.
NotCarriedOut(r) == Move(r, AfterError(r)) /\ UNCHANGED <<cached, lock, listeners>>
CarriedOut(r) ==
    /\ cached' = (cached \/ pc[r] = "set")
    /\ lock' = CASE pc[r] = "acquire" /\ lock = Free -> r
                 [] pc[r] = "releaseDel" -> Free
                 [] OTHER -> lock
    /\ IF pc[r] \in {"publish", "publishError"}
       THEN Deliver(r, IF pc[r] = "publish" THEN "returned" ELSE "threw", AfterError(r))
       ELSE Move(r, AfterError(r))
    /\ listeners' = IF pc[r] = "publish" THEN {} ELSE listeners

RedisError(r) ==
    /\ pc[r] \in {"lookup", "acquire", "set", "publish", "publishError",
                  "releaseGet", "releaseDel"}
    /\ NotCarriedOut(r) \/ CarriedOut(r)
    /\ done' = done \ {r}
    /\ UNCHANGED <<timers, polls, lapses>>

\* A worker process dies; the cluster master forks another.
Crash(w) ==
    LET mine == {r \in Request : WorkerOf[r] = w} IN
    /\ \E r \in mine : pc[r] \in Running
    /\ pc' = [r \in Request |-> IF r \in mine /\ pc[r] \in Running THEN "crashed" ELSE pc[r]]
    /\ listeners' = listeners \ mine
    /\ timers' = timers \ mine
    /\ done' = done \ mine
    /\ UNCHANGED <<cached, lock, polls, lapses>>

\* The steps of get() that depend on Redis and on timers only.
Advance(r) ==
    \/ Lookup(r) \/ Acquire(r) \/ SetData(r) \/ Publish(r) \/ PublishError(r)
    \/ ReleaseGet(r) \/ ReleaseDel(r) \/ Subscribe(r) \/ Poll(r)

Next ==
    \/ \E r \in Request :
           Advance(r) \/ Execute(r) \/ TimerFires(r) \/ RedisError(r)
    \/ LockExpires
    \/ DataExpires
    \/ \E w \in Worker : Crash(w)

\* A process that lives takes its next step, timers fire, and Redis expires a
\* key with a time to live. Nothing obliges the node to answer a call.
Fairness ==
    /\ \A r \in Request : WF_vars(Advance(r)) /\ WF_vars(TimerFires(r))
    /\ WF_vars(LockExpires)

Spec == Init /\ [][Next]_vars /\ Fairness

-----------------------------------------------------------------------------
\* Properties.

TypeOK ==
    /\ cached \in BOOLEAN
    /\ lock \in Request \cup {Free}
    /\ listeners \subseteq Request
    /\ timers \subseteq Request
    /\ pc \in [Request -> Running \cup Ended]
    /\ polls \in [Request -> 0 .. MaxPolls]
    /\ done \subseteq Request
    /\ lapses \in Nat

\* The lock is a lease, and its release is a GET and a DEL: executions may overlap.
\* But each request that outlives its lock lets in at most one execution more. One
\* whose lock expires while it executes is itself too many; one whose lock expires
\* in its release may delete the lock of another, which may do the same to a third,
\* but such a chain is at any time at one place. Nor does a failed command, a lost
\* answer, a release gone through twice or a dying worker let in any.
ExecutionsBounded ==
    Cardinality({r \in Request : Executing(r)}) <= 1 + lapses

\* The comment of releaseLock, "only lock owner can delete the lock": a DEL
\* never takes away a lock that another request holds.
OnlyOwnerDeletes ==
    [][\A r \in Request : ReleaseDel(r) => lock \in {r, Free}]_vars

\* Once every request has ended and every timer has fired, no listener is left
\* on a subscriber connection, although a rejected listener does not unsubscribe.
NoListenerLeak ==
    (timers = {} /\ \A r \in Request : pc[r] \in Ended) => listeners = {}

\* However its owner ends -- returning, throwing half-way through the release,
\* or dying -- the lock does not stay.
LockFreed == \A r \in Request : lock = r ~> lock # r

\* A request that waits for another one's execution ends or gets to execute,
\* even if the message was published before it subscribed, was dropped by another
\* request's unsubscribe, or never comes because the executing worker died or
\* the node never answers.
WaitersProceed ==
    \A r \in Request : pc[r] = "wait" ~> Executing(r) \/ pc[r] \in Ended
=============================================================================
