----------------------------- MODULE AccessGuard -----------------------------
(***************************************************************************)
(* The per-IP rate limit of the api-server: rateLimit and wsRateLimit      *)
(* (rate-limit.ts) with AccessGuard (cache/guard.ts) and Store             *)
(* (cache/store.ts), for one limited method and one client address.  The   *)
(* counter is one Redis key shared by the workers; every Redis command is  *)
(* a step, and the key may expire between any two of them.                 *)
(***************************************************************************)
EXTENDS Integers, FiniteSets

CONSTANTS
    Slot,           \* requests of the client that are handled at the same time
    Worker,         \* cluster workers, each with a Store of its own
    WorkerOf,       \* WorkerOf[s]: the worker that handles slot s
    Max,            \* rpcMethods[method], the configured limit
    Window,         \* expiredTimeMilsecs
    MaxCount        \* bound of the model: the counter stays at this value

ASSUME GuardAssumption ==
    /\ IsFiniteSet(Slot)
    /\ WorkerOf \in [Slot -> Worker]
    /\ Max \in Nat
    /\ Window \in Nat \ {0} /\ Window % 1000 = 0  \* Redis takes no fraction as PX
    /\ MaxCount \in Nat /\ MaxCount > Max

NoKey == -1             \* no such key: GET answers null
NoExpiry == -1          \* a key without a time to live: TTL answers -1

VARIABLES
    count,      \* the counter's value, or NoKey
    px,         \* the time to live the key was given last, or NoExpiry
    setPX,      \* setPX[w]: setOptions.PX of the Store of worker w
    pc,         \* where each request is
    value,      \* value[s]: what getKeyTTL has read
    through,    \* history: requests let through since the key last expired
    starts      \* history: times the counter has been (re)started since then

vars == <<count, px, setPX, pc, value, through, starts>>

Step == {"idle", "isExist", "add", "insert", "isOverRate",
         "updateCount", "incr", "ttl", "ttlGet", "ttlInsert"}

Init ==
    /\ count = NoKey
    /\ px = NoExpiry
    /\ setPX = [w \in Worker |-> Window]
    /\ pc = [s \in Slot |-> "idle"]
    /\ value = [s \in Slot |-> 0]
    /\ through = 0
    /\ starts = 0

Move(s, step) == pc' = [pc EXCEPT ![s] = step]

-----------------------------------------------------------------------------
\* Redis.

\* Store.insert: SET key v PX ms. The options object is the Store's own, so a
\* time to live given once is the one of every later insert.
Insert(w, v, ms) ==
    /\ count' = v
    /\ px' = ms
    /\ setPX' = [setPX EXCEPT ![w] = ms]
    /\ starts' = starts + 1

\* INCR creates a missing key, without a time to live.
Incr ==
    /\ count' = IF count = NoKey THEN 1 ELSE IF count < MaxCount THEN count + 1 ELSE count
    /\ px' = IF count = NoKey THEN NoExpiry ELSE px
    /\ starts' = IF count = NoKey THEN starts + 1 ELSE starts

Expire ==
    /\ count # NoKey
    /\ px # NoExpiry
    /\ count' = NoKey
    /\ px' = NoExpiry
    /\ through' = 0
    /\ starts' = 0
    /\ UNCHANGED <<setPX, pc, value>>

-----------------------------------------------------------------------------
\* A request.

Request(s) ==
    /\ pc[s] = "idle"
    /\ Move(s, "isExist")
    /\ UNCHANGED <<count, px, setPX, value, through, starts>>

IsExist(s) ==
    /\ pc[s] = "isExist"
    /\ Move(s, IF count = NoKey THEN "add" ELSE "isOverRate")
    /\ UNCHANGED <<count, px, setPX, value, through, starts>>

\* AccessGuard.add looks again before it inserts.
Add(s) ==
    /\ pc[s] = "add"
    /\ Move(s, IF count = NoKey THEN "insert" ELSE "isOverRate")
    /\ UNCHANGED <<count, px, setPX, value, through, starts>>

AddInsert(s) ==
    /\ pc[s] = "insert"
    /\ Insert(WorkerOf[s], 0, setPX[WorkerOf[s]])
    /\ Move(s, "isOverRate")
    /\ UNCHANGED <<value, through>>

\* Mutant: one request more.
IsOverRateByOne(s) ==
    /\ pc[s] = "isOverRate"
    /\ IF count # NoKey /\ count > Max + 1
       THEN Move(s, "ttl") /\ UNCHANGED through
       ELSE Move(s, "updateCount") /\ through' = through + 1
    /\ UNCHANGED <<count, px, setPX, value, starts>>

\* A request is let through if the counter is not over the limit, or gone.
IsOverRate(s) ==
    /\ pc[s] = "isOverRate"
    /\ IF count # NoKey /\ count > Max
       THEN Move(s, "ttl") /\ UNCHANGED through
       ELSE Move(s, "updateCount") /\ through' = through + 1
    /\ UNCHANGED <<count, px, setPX, value, starts>>

\* updateCount of a request that was let through.
UpdateCount(s) ==
    /\ pc[s] = "updateCount"
    /\ Move(s, IF count = NoKey THEN "idle" ELSE "incr")
    /\ UNCHANGED <<count, px, setPX, value, through, starts>>

UpdateIncr(s) ==
    /\ pc[s] = "incr"
    /\ Incr
    /\ Move(s, "idle")
    /\ UNCHANGED <<setPX, value, through>>

\* Mutant: a key without a time to live is left alone.
KeyTTLNoRepair(s) ==
    /\ pc[s] = "ttl"
    /\ Move(s, "idle")
    /\ UNCHANGED <<count, px, setPX, value, through, starts>>

\* The request is refused: getKeyTTL, for the Retry-After header, repairs a key
\* that has no time to live.
KeyTTL(s) ==
    /\ pc[s] = "ttl"
    /\ Move(s, IF count # NoKey /\ px = NoExpiry THEN "ttlGet" ELSE "idle")
    /\ UNCHANGED <<count, px, setPX, value, through, starts>>

\* Mutant: null is taken for a count.
KeyTTLGetNull(s) ==
    /\ pc[s] = "ttlGet"
    /\ value' = [value EXCEPT ![s] = count]
    /\ Move(s, "ttlInsert")
    /\ UNCHANGED <<count, px, setPX, through, starts>>

KeyTTLGet(s) ==
    /\ pc[s] = "ttlGet"
    /\ value' = [value EXCEPT ![s] = IF count = NoKey THEN 0 ELSE count]
    /\ Move(s, "ttlInsert")
    /\ UNCHANGED <<count, px, setPX, through, starts>>

\* The insert takes milliseconds and is given expiredTimeMilsecs / 1000.
KeyTTLInsert(s) ==
    /\ pc[s] = "ttlInsert"
    /\ Insert(WorkerOf[s], value[s], Window \div 1000)
    /\ value' = [value EXCEPT ![s] = 0]
    /\ Move(s, "idle")
    /\ UNCHANGED through

Handle(s) ==
    \/ IsExist(s) \/ Add(s) \/ AddInsert(s) \/ IsOverRate(s)
    \/ UpdateCount(s) \/ UpdateIncr(s)
    \/ KeyTTL(s) \/ KeyTTLGet(s) \/ KeyTTLInsert(s)

Next == Expire \/ \E s \in Slot : Request(s) \/ Handle(s)

\* Handlers make progress, Redis expires keys, and the client keeps asking.
Fairness ==
    /\ \A s \in Slot : WF_vars(Request(s)) /\ WF_vars(Handle(s))
    /\ WF_vars(Expire)

Spec == Init /\ [][Next]_vars /\ Fairness

-----------------------------------------------------------------------------
\* Properties.

TypeOK ==
    /\ count \in Nat \cup {NoKey}
    /\ px \in Nat \cup {NoExpiry}
    /\ setPX \in [Worker -> Nat]
    /\ pc \in [Slot -> Step]
    /\ value \in [Slot -> Nat]
    /\ through \in Nat
    /\ starts \in Nat

\* How many requests get through from one expiry of the key to the next. The check
\* and the increment are separate commands, so a counter lets through Max requests
\* and those handled at once. The counter does not start once only: add() looks and
\* then sets it to 0 whoever has created it meanwhile, getKeyTTL puts an old value
\* back, and INCR creates a key that has just expired. But no request comes to a
\* start of its own while a key with a time to live is there, so that the starts are
\* at most one more than the requests handled at once; and while there is no key,
\* only a request that saw the last one passes without starting the next.
LetThroughBounded ==
    LET atOnce == Cardinality(Slot) IN
    /\ through <= atOnce + starts * (Max + atOnce)
    /\ starts <= atOnce + 1

\* A counter over the limit, one that lost its time to live included, does not
\* refuse a client for ever.
NoPermanentBan == count > Max ~> count <= Max

\* README, rate limit config: "<rpc method name>": <max requests number in
\* expired_time>. The counter never counts more requests than that.
AtMostMaxRequests == count <= Max

\* guard.ts, getKeyTTL: "key ... with no ttl, reset: ${expiredTimeMilsecs}ms". Every
\* time to live the key has is the configured one.
WindowIsConfigured == px # NoExpiry => px = Window
=============================================================================
