--------------------------- MODULE DataCacheProofs ---------------------------
(***************************************************************************)
(* Proofs about DataCache for any requests and workers: how far executions *)
(* overlap, how long the lock is held and a request waits.                 *)
(***************************************************************************)
EXTENDS DataCache, FiniteSetTheorems, TLAPS

\* Requests that act as if they had the lock, and do not have it: they are at the
\* call, or will delete the lock key whoever has it then.
Lost == {r \in Request : (Executing(r) \/ pc[r] = "releaseDel") /\ lock # r}

\* Each of them goes back to a lock that has expired.
LapsesCover ==
    /\ IsFiniteSet(Lost)
    /\ Cardinality(Lost) <= lapses

\* A listener is on a connection only while its own timer is pending.
ListenersTimed == listeners \subseteq timers

-----------------------------------------------------------------------------
\* TypeOK is preserved by each group of steps.

LEMMA TypeInit == Init => TypeOK
<1> SUFFICES ASSUME Init PROVE TypeOK
    OBVIOUS
<1>1. pc \in [Request -> Running \cup Ended]  BY DEF Init, Running
<1>2. polls \in [Request -> 0 .. MaxPolls]  BY CacheAssumption DEF Init
<1> QED  BY <1>1, <1>2 DEF Init, TypeOK

LEMMA TypeAdvance ==
    ASSUME TypeOK, NEW r \in Request, Advance(r)
    PROVE  TypeOK'
<1> USE CacheAssumption DEF TypeOK, Running, Ended, Move
<1>1. CASE Lookup(r)  BY <1>1 DEF Lookup
<1>2. CASE Acquire(r)  BY <1>2 DEF Acquire
<1>3. CASE SetData(r)  BY <1>3 DEF SetData
<1>4. CASE Publish(r)  BY <1>4 DEF Publish, Deliver
<1>5. CASE PublishError(r)  BY <1>5 DEF PublishError, Deliver
<1>6. CASE ReleaseGet(r)  BY <1>6 DEF ReleaseGet, Finish
<1>7. CASE ReleaseDel(r)  BY <1>7 DEF ReleaseDel, Finish
<1>8. CASE Subscribe(r)
    <2>1. listeners' \subseteq Request /\ timers' \subseteq Request  BY <1>8 DEF Subscribe
    <2>2. pc' \in [Request -> Running \cup Ended]  BY <1>8 DEF Subscribe
    <2> QED  BY <1>8, <2>1, <2>2 DEF Subscribe
<1>9. CASE Poll(r)
    <2>1. polls' \in [Request -> 0 .. MaxPolls]  BY <1>9 DEF Poll
    <2>2. pc' \in [Request -> Running \cup Ended]  BY <1>9 DEF Poll
    <2> QED  BY <1>9, <2>1, <2>2 DEF Poll
<1> QED  BY <1>1, <1>2, <1>3, <1>4, <1>5, <1>6, <1>7, <1>8, <1>9 DEF Advance

LEMMA TypeNext == TypeOK /\ [Next]_vars => TypeOK'
<1> SUFFICES ASSUME TypeOK, [Next]_vars PROVE TypeOK'
    OBVIOUS
<1> USE CacheAssumption DEF TypeOK, Running, Ended, Move
<1>1. ASSUME NEW r \in Request, Advance(r) PROVE TypeOK'
    BY <1>1, TypeAdvance
<1>2. ASSUME NEW r \in Request, Execute(r) PROVE TypeOK'
    BY <1>2 DEF Execute
<1>3. ASSUME NEW r \in Request, TimerFires(r) PROVE TypeOK'
    BY <1>3 DEF TimerFires
<1>4. ASSUME NEW r \in Request, RedisError(r) PROVE TypeOK'
    BY <1>4 DEF RedisError, AfterError, NotCarriedOut, CarriedOut, Deliver
<1>5. CASE LockExpires  BY <1>5 DEF LockExpires
<1>6. CASE DataExpires  BY <1>6 DEF DataExpires
<1>7. ASSUME NEW w \in Worker, Crash(w) PROVE TypeOK'
    BY <1>7 DEF Crash
<1>8. CASE UNCHANGED vars  BY <1>8 DEF vars
<1> QED  BY <1>1, <1>2, <1>3, <1>4, <1>5, <1>6, <1>7, <1>8 DEF Next

\* Every state of get(), of its worker's connections and of its Redis keys is
\* well-formed, whichever commands fail, keys expire and workers die.
THEOREM TypeCorrect == Spec => []TypeOK
<1>1. Init => TypeOK  BY TypeInit
<1>2. TypeOK /\ [Next]_vars => TypeOK'  BY TypeNext
<1> QED  BY <1>1, <1>2, PTL DEF Spec

-----------------------------------------------------------------------------
\* How far executions overlap.

LEMMA FewerLost ==
    ASSUME LapsesCover, TypeOK, Lost' \subseteq Lost, lapses' = lapses
    PROVE  LapsesCover'
<1>1. IsFiniteSet(Lost') /\ Cardinality(Lost') <= Cardinality(Lost)
    BY FS_Subset DEF LapsesCover
<1>2. Cardinality(Lost) \in Nat /\ Cardinality(Lost') \in Nat
    BY <1>1, FS_CardinalityType DEF LapsesCover
<1> QED  BY <1>1, <1>2 DEF LapsesCover, TypeOK

\* A request that leaves the set makes room for another: the one whose lock it has
\* deleted.
LEMMA LostPassesOn ==
    ASSUME LapsesCover, TypeOK, NEW r \in Lost, NEW s, Lost' \subseteq (Lost \ {r}) \cup {s},
           lapses' = lapses
    PROVE  LapsesCover'
<1> DEFINE Rest == Lost \ {r}
<1>1. IsFiniteSet(Rest) /\ Cardinality(Rest) = Cardinality(Lost) - 1
    BY FS_RemoveElement DEF LapsesCover
<1>2. IsFiniteSet(Rest \cup {s})
      /\ (Cardinality(Rest \cup {s}) = Cardinality(Rest)
          \/ Cardinality(Rest \cup {s}) = Cardinality(Rest) + 1)
    BY <1>1, FS_AddElement
<1>3. IsFiniteSet(Lost') /\ Cardinality(Lost') <= Cardinality(Rest \cup {s})
    BY <1>2, FS_Subset
<1>4. Cardinality(Lost) \in Nat /\ Cardinality(Lost') \in Nat
    BY <1>3, FS_CardinalityType DEF LapsesCover
<1> HIDE DEF Rest
<1> QED  BY <1>1, <1>2, <1>3, <1>4 DEF LapsesCover, TypeOK

\* A lock that expires under its owner adds one.
LEMMA OneMoreLost ==
    ASSUME LapsesCover, TypeOK, NEW s, Lost' \subseteq Lost \cup {s}, lapses' = lapses + 1
    PROVE  LapsesCover'
<1>1. IsFiniteSet(Lost \cup {s})
      /\ (Cardinality(Lost \cup {s}) = Cardinality(Lost)
          \/ Cardinality(Lost \cup {s}) = Cardinality(Lost) + 1)
    BY FS_AddElement DEF LapsesCover
<1>2. IsFiniteSet(Lost') /\ Cardinality(Lost') <= Cardinality(Lost \cup {s})
    BY <1>1, FS_Subset
<1>3. Cardinality(Lost) \in Nat /\ Cardinality(Lost') \in Nat
    BY <1>2, FS_CardinalityType DEF LapsesCover
<1> QED  BY <1>1, <1>2, <1>3 DEF LapsesCover, TypeOK

\* A DEL of the lock key, whether its answer comes or not.
LEMMA DelMovesOn ==
    ASSUME LapsesCover, TypeOK, NEW r \in Request, pc[r] = "releaseDel", lock' = Free,
           lapses' = lapses, NEW step \in {"returned", "threw", "publishError"}, Move(r, step)
    PROVE  LapsesCover'
<1> USE CacheAssumption DEF TypeOK, Lost, Executing, Move
<1>1. CASE lock = r
    <2>1. Lost' \subseteq Lost  BY <1>1
    <2> QED  BY <2>1, FewerLost
<1>2. CASE lock # r
    <2>1. r \in Lost  BY <1>2
    <2>2. Lost' \subseteq (Lost \ {r}) \cup {lock}  BY <1>2
    <2> HIDE DEF Lost
    <2> QED  BY <2>1, <2>2, LostPassesOn
<1> QED  BY <1>1, <1>2

LEMMA LapsesCoverNext ==
    ASSUME TypeOK, LapsesCover, [Next]_vars
    PROVE  LapsesCover'
<1> USE CacheAssumption DEF TypeOK, Executing, Move
<1>1. ASSUME NEW r \in Request, Advance(r) PROVE LapsesCover'
    <2>1. CASE ReleaseDel(r)
        <3>1. \E step \in {"returned", "threw", "publishError"} : Move(r, step)
            BY <2>1 DEF ReleaseDel, Finish
        <3> QED  BY <2>1, <3>1, DelMovesOn DEF ReleaseDel
    <2>2. CASE ~ReleaseDel(r)
        <3>1. lapses' = lapses
            BY <1>1, <2>2
            DEF Advance, Lookup, Acquire, SetData, Publish, PublishError, ReleaseGet, Subscribe, Poll
        <3>2. CASE Acquire(r)
            <4>1. Lost' \subseteq Lost  BY <3>2 DEF Acquire, Lost
            <4> QED  BY <3>1, <4>1, FewerLost
        <3>3. CASE Publish(r) \/ PublishError(r)
            <4>1. Lost' \subseteq Lost  BY <3>3 DEF Publish, PublishError, Deliver, Lost
            <4> QED  BY <3>1, <4>1, FewerLost
        \* The GET is the comparison: a DEL follows only while r has the lock.
        <3>4. CASE ReleaseGet(r)
            <4>1. Lost' \subseteq Lost  BY <3>4 DEF ReleaseGet, Finish, Lost
            <4> QED  BY <3>1, <4>1, FewerLost
        <3>5. CASE Lookup(r) \/ SetData(r) \/ Subscribe(r) \/ Poll(r)
            <4>1. Lost' \subseteq Lost  BY <3>5 DEF Lookup, SetData, Subscribe, Poll, Lost
            <4> QED  BY <3>1, <4>1, FewerLost
        <3> QED  BY <1>1, <2>2, <3>2, <3>3, <3>4, <3>5 DEF Advance
    <2> QED  BY <2>1, <2>2
<1>2. ASSUME NEW r \in Request, Execute(r) PROVE LapsesCover'
    <2>1. Lost' \subseteq Lost /\ lapses' = lapses  BY <1>2 DEF Execute, Lost
    <2> QED  BY <2>1, FewerLost
<1>3. ASSUME NEW r \in Request, TimerFires(r) PROVE LapsesCover'
    <2>1. Lost' \subseteq Lost /\ lapses' = lapses  BY <1>3 DEF TimerFires, Lost
    <2> QED  BY <2>1, FewerLost
<1>4. ASSUME NEW r \in Request, RedisError(r) PROVE LapsesCover'
    <2>1. AfterError(r) \in {"returned", "threw", "publishError"} /\ lapses' = lapses
        BY <1>4 DEF RedisError, AfterError
    <2>2. CASE NotCarriedOut(r)
        <3>1. Lost' \subseteq Lost  BY <2>1, <2>2 DEF NotCarriedOut, Lost
        <3> QED  BY <2>1, <3>1, FewerLost
    <2>3. CASE CarriedOut(r) /\ pc[r] = "releaseDel"
        <3>1. lock' = Free /\ Move(r, AfterError(r))  BY <2>3 DEF CarriedOut
        <3> QED  BY <2>1, <2>3, <3>1, DelMovesOn
    <2>4. CASE CarriedOut(r) /\ pc[r] \in {"publish", "publishError"}
        <3>1. Lost' \subseteq Lost  BY <2>1, <2>4 DEF CarriedOut, Deliver, Lost
        <3> QED  BY <2>1, <3>1, FewerLost
    <2>5. CASE CarriedOut(r) /\ pc[r] \in {"lookup", "acquire", "set", "releaseGet"}
        <3>1. Lost' \subseteq Lost  BY <2>1, <2>5 DEF CarriedOut, Lost
        <3> QED  BY <2>1, <3>1, FewerLost
    <2> QED  BY <1>4, <2>2, <2>3, <2>4, <2>5 DEF RedisError
<1>5. CASE LockExpires
    <2>1. CASE pc[lock] \in Running
        <3>1. Lost' \subseteq Lost \cup {lock} /\ lapses' = lapses + 1
            BY <1>5, <2>1 DEF LockExpires, Lost
        <3> QED  BY <3>1, OneMoreLost
    <2>2. CASE pc[lock] \notin Running
        <3>1. Lost' \subseteq Lost /\ lapses' = lapses
            BY <1>5, <2>2 DEF LockExpires, Lost, Running
        <3> QED  BY <3>1, FewerLost
    <2> QED  BY <2>1, <2>2
<1>6. CASE DataExpires
    <2>1. Lost' \subseteq Lost /\ lapses' = lapses  BY <1>6 DEF DataExpires, Lost
    <2> QED  BY <2>1, FewerLost
<1>7. ASSUME NEW w \in Worker, Crash(w) PROVE LapsesCover'
    <2>1. Lost' \subseteq Lost /\ lapses' = lapses  BY <1>7 DEF Crash, Lost
    <2> QED  BY <2>1, FewerLost
<1>8. CASE UNCHANGED vars
    <2>1. Lost' \subseteq Lost /\ lapses' = lapses  BY <1>8 DEF vars, Lost
    <2> QED  BY <2>1, FewerLost
<1> QED  BY <1>1, <1>2, <1>3, <1>4, <1>5, <1>6, <1>7, <1>8 DEF Next

LEMMA LapsesCoverInit == Init => LapsesCover
<1> SUFFICES ASSUME Init PROVE LapsesCover
    OBVIOUS
<1>1. Lost = {}  BY DEF Init, Lost, Executing
<1> QED  BY <1>1, FS_EmptySet DEF Init, LapsesCover

\* However the lock expires, is deleted by others, and commands of its release
\* fail: there are at most as many executions besides one as locks have expired
\* before their get() ended.
THEOREM ExecutionsAreBounded == Spec => []ExecutionsBounded
<1>1. TypeOK /\ LapsesCover => ExecutionsBounded
    <2> SUFFICES ASSUME TypeOK, LapsesCover PROVE ExecutionsBounded
        OBVIOUS
    <2> DEFINE All == {r \in Request : Executing(r)}
    <2>1. All \subseteq Lost \cup {lock}  BY DEF Lost
    <2>2. IsFiniteSet(Lost \cup {lock})
          /\ (Cardinality(Lost \cup {lock}) = Cardinality(Lost)
              \/ Cardinality(Lost \cup {lock}) = Cardinality(Lost) + 1)
        BY FS_AddElement DEF LapsesCover
    <2>3. IsFiniteSet(All) /\ Cardinality(All) <= Cardinality(Lost \cup {lock})
        BY <2>1, <2>2, FS_Subset
    <2>4. Cardinality(Lost) \in Nat /\ Cardinality(All) \in Nat /\ lapses \in Nat
        BY <2>3, FS_CardinalityType DEF LapsesCover, TypeOK
    <2>5. Cardinality(All) <= 1 + lapses
        <3> HIDE DEF All
        <3> QED  BY <2>2, <2>3, <2>4 DEF LapsesCover
    <2> QED  BY <2>5 DEF ExecutionsBounded
<1>2. TypeOK /\ LapsesCover /\ [Next]_vars => LapsesCover'  BY LapsesCoverNext
<1> QED  BY <1>1, <1>2, LapsesCoverInit, TypeCorrect, PTL DEF Spec

\* Whatever commands fail, answers are lost and workers die, an execution or a DEL
\* without the lock goes back to a lock that expired before its get() ended: until
\* then whoever executes has the lock, and whoever deletes it too.
THEOREM OwnLockUntilLapse ==
    Spec => [](lapses = 0 =>
                  \A r \in Request : Executing(r) \/ pc[r] = "releaseDel" => lock = r)
<1>1. TypeOK /\ LapsesCover /\ lapses = 0 =>
          \A r \in Request : Executing(r) \/ pc[r] = "releaseDel" => lock = r
    <2> SUFFICES ASSUME TypeOK, LapsesCover, lapses = 0,
                        NEW r \in Request, Executing(r) \/ pc[r] = "releaseDel"
                 PROVE  lock = r
        OBVIOUS
    <2>1. Cardinality(Lost) \in Nat
        BY FS_CardinalityType DEF LapsesCover
    <2>2. Lost = {}
        BY <2>1, FS_EmptySet DEF LapsesCover
    <2> QED  BY <2>2 DEF Lost
<1>2. TypeOK /\ LapsesCover /\ [Next]_vars => LapsesCover'  BY LapsesCoverNext
<1> QED  BY <1>1, <1>2, LapsesCoverInit, TypeCorrect, PTL DEF Spec

-----------------------------------------------------------------------------
\* Listeners.

LEMMA ListenersTimedNext ==
    ASSUME TypeOK, ListenersTimed, [Next]_vars
    PROVE  ListenersTimed'
<1> USE CacheAssumption DEF TypeOK, ListenersTimed
<1>1. ASSUME NEW r \in Request, Advance(r) PROVE ListenersTimed'
    <2>1. CASE Subscribe(r)  BY <2>1 DEF Subscribe
    <2>2. CASE Publish(r)  BY <2>2 DEF Publish
    <2>3. CASE UNCHANGED <<listeners, timers>>  BY <2>3
    <2> QED  BY <1>1, <2>1, <2>2, <2>3
            DEF Advance, Lookup, Acquire, SetData, PublishError, ReleaseGet,
                ReleaseDel, Poll
<1>2. ASSUME NEW r \in Request, Execute(r) \/ RedisError(r) PROVE ListenersTimed'
    BY <1>2 DEF Execute, RedisError, AfterError, NotCarriedOut, CarriedOut, Deliver
<1>3. ASSUME NEW r \in Request, TimerFires(r) PROVE ListenersTimed'
    BY <1>3 DEF TimerFires
<1>4. CASE LockExpires \/ DataExpires  BY <1>4 DEF LockExpires, DataExpires
<1>5. ASSUME NEW w \in Worker, Crash(w) PROVE ListenersTimed'
    BY <1>5 DEF Crash
<1>6. CASE UNCHANGED vars  BY <1>6 DEF vars
<1> QED  BY <1>1, <1>2, <1>3, <1>4, <1>5, <1>6 DEF Next

\* Subscriber connections do not fill with listeners of ended requests.
THEOREM ListenersGo == Spec => []NoListenerLeak
<1>1. Init => ListenersTimed  BY DEF Init, ListenersTimed
<1>2. TypeOK /\ ListenersTimed /\ [Next]_vars => ListenersTimed'
    BY ListenersTimedNext
<1>3. ListenersTimed => NoListenerLeak  BY DEF ListenersTimed, NoListenerLeak
<1> QED  BY <1>1, <1>2, <1>3, TypeCorrect, PTL DEF Spec

-----------------------------------------------------------------------------
\* How long a request waits.

Waits(r) == pc[r] \in {"lookup", "acquire", "subscribe", "wait", "poll"}

\* The steps that are left of the loop in get(), all its turns counted.
Rank(step) ==
    IF step = "lookup" THEN 4 ELSE IF step = "acquire" THEN 3
    ELSE IF step = "subscribe" THEN 2 ELSE IF step = "wait" THEN 1 ELSE 0
Turns(r) == 5 * (MaxPolls - polls[r]) + Rank(pc[r])

\* A step takes the request out of the loop, or on in it.
Nearer(r) == Executing(r)' \/ pc'[r] \in Ended \/ Turns(r)' < Turns(r)

\* A request that waits has its timer pending.
WaitTimed == \A r \in Request : pc[r] = "wait" => r \in timers

LEMMA WaitTimedNext ==
    ASSUME TypeOK, WaitTimed, [Next]_vars
    PROVE  WaitTimed'
<1> USE CacheAssumption DEF TypeOK, WaitTimed, Move
<1>1. ASSUME NEW r \in Request, Advance(r) PROVE WaitTimed'
    <2>1. CASE Subscribe(r)  BY <2>1 DEF Subscribe
    <2>2. CASE Publish(r) \/ PublishError(r)  BY <2>2 DEF Publish, PublishError, Deliver
    <2>3. CASE Lookup(r) \/ Acquire(r) \/ SetData(r) \/ ReleaseGet(r) \/ ReleaseDel(r) \/ Poll(r)
        BY <2>3 DEF Lookup, Acquire, SetData, ReleaseGet, ReleaseDel, Poll, Finish
    <2> QED  BY <1>1, <2>1, <2>2, <2>3 DEF Advance
<1>2. ASSUME NEW r \in Request, Execute(r) \/ RedisError(r) PROVE WaitTimed'
    BY <1>2 DEF Execute, RedisError, AfterError, NotCarriedOut, CarriedOut, Deliver
<1>3. ASSUME NEW r \in Request, TimerFires(r) PROVE WaitTimed'
    BY <1>3 DEF TimerFires
<1>4. CASE LockExpires \/ DataExpires  BY <1>4 DEF LockExpires, DataExpires
<1>5. ASSUME NEW w \in Worker, Crash(w) PROVE WaitTimed'
    BY <1>5 DEF Crash, Running
<1>6. CASE UNCHANGED vars  BY <1>6 DEF vars
<1> QED  BY <1>1, <1>2, <1>3, <1>4, <1>5, <1>6 DEF Next

\* What another request does, or Redis, or a dying worker, ends the wait of r or
\* leaves it where it is.
LEMMA OthersLeave ==
    ASSUME TypeOK, [Next]_vars, NEW r \in Request, Waits(r),
           ~Advance(r), ~(TimerFires(r) /\ pc[r] = "wait")
    PROVE  pc'[r] \in Ended \/ (pc'[r] = pc[r] /\ polls'[r] = polls[r])
<1> USE CacheAssumption DEF TypeOK, Move, Waits, Ended
<1>1. ASSUME NEW s \in Request, s # r, Advance(s)
      PROVE  pc'[r] \in Ended \/ (pc'[r] = pc[r] /\ polls'[r] = polls[r])
    <2>1. CASE Publish(s) \/ PublishError(s)  BY <1>1, <2>1 DEF Publish, PublishError, Deliver
    <2>2. CASE Lookup(s) \/ Acquire(s) \/ SetData(s) \/ ReleaseGet(s) \/ ReleaseDel(s)
               \/ Subscribe(s) \/ Poll(s)
        BY <1>1, <2>2
        DEF Lookup, Acquire, SetData, ReleaseGet, ReleaseDel, Subscribe, Poll, Finish
    <2> QED  BY <1>1, <2>1, <2>2 DEF Advance
<1>2. ASSUME NEW s \in Request, Execute(s) \/ RedisError(s)
      PROVE  pc'[r] \in Ended \/ (pc'[r] = pc[r] /\ polls'[r] = polls[r])
    BY <1>2 DEF Execute, InTry, RedisError, AfterError, NotCarriedOut, CarriedOut, Deliver
<1>3. ASSUME NEW s \in Request, TimerFires(s)
      PROVE  pc'[r] \in Ended \/ (pc'[r] = pc[r] /\ polls'[r] = polls[r])
    BY <1>3 DEF TimerFires
<1>4. CASE LockExpires \/ DataExpires  BY <1>4 DEF LockExpires, DataExpires
<1>5. ASSUME NEW w \in Worker, Crash(w)
      PROVE  pc'[r] \in Ended \/ (pc'[r] = pc[r] /\ polls'[r] = polls[r])
    BY <1>5 DEF Crash
<1>6. CASE UNCHANGED vars  BY <1>6 DEF vars
<1> QED  BY <1>1, <1>2, <1>3, <1>4, <1>5, <1>6 DEF Next

\* Its own step takes a request out of the loop or on in it.
LEMMA OwnStep ==
    ASSUME TypeOK, NEW r \in Request, Waits(r),
           Advance(r) \/ (TimerFires(r) /\ pc[r] = "wait")
    PROVE  Nearer(r)
<1> USE CacheAssumption DEF TypeOK, Move, Waits
<1>1. polls[r] \in Nat /\ MaxPolls \in Nat /\ polls[r] <= MaxPolls
    OBVIOUS
<1>2. CASE Lookup(r)
    BY <1>1, <1>2 DEF Lookup, Nearer, Ended, Turns, Rank
<1>3. CASE Acquire(r)
    BY <1>1, <1>3 DEF Acquire, Nearer, Executing, Turns, Rank
<1>4. CASE Subscribe(r)
    BY <1>1, <1>4 DEF Subscribe, Nearer, Turns, Rank
<1>5. CASE Poll(r)
    BY <1>1, <1>5 DEF Poll, Nearer, Ended, Turns, Rank
<1>6. CASE TimerFires(r) /\ pc[r] = "wait"
    BY <1>1, <1>6 DEF TimerFires, Nearer, Turns, Rank
<1> QED
    BY <1>2, <1>3, <1>4, <1>5, <1>6
    DEF Advance, SetData, Publish, PublishError, ReleaseGet, ReleaseDel

\* How a waiting request proceeds, whatever messages are lost, workers die or the
\* node does not answer: while it waits its timer is pending, each step of its
\* own brings it out of the loop of get() or on in it, of which a bounded number
\* of steps is left, and nothing that others do ever brings it back.
THEOREM WaitIsBounded ==
    Spec => /\ [](\A r \in Request : Waits(r) => Turns(r) \in Nat)
            /\ [](\A r \in Request : pc[r] = "wait" => r \in timers)
            /\ [][\A r \in Request : Waits(r) =>
                     /\ Nearer(r) \/ (pc'[r] = pc[r] /\ polls'[r] = polls[r])
                     /\ Advance(r) \/ (TimerFires(r) /\ pc[r] = "wait") => Nearer(r)]_vars
<1>1. Init => WaitTimed
    BY DEF Init, WaitTimed
<1>2. TypeOK /\ WaitTimed /\ [Next]_vars => WaitTimed'
    BY WaitTimedNext
<1>3. TypeOK => \A r \in Request : Waits(r) => Turns(r) \in Nat
    <2> SUFFICES ASSUME TypeOK, NEW r \in Request PROVE Turns(r) \in Nat
        OBVIOUS
    <2>1. polls[r] \in Nat /\ MaxPolls \in Nat /\ polls[r] <= MaxPolls
        BY CacheAssumption DEF TypeOK
    <2>2. Rank(pc[r]) \in Nat
        BY DEF Rank
    <2> QED  BY <2>1, <2>2 DEF Turns
<1>4. WaitTimed => \A r \in Request : pc[r] = "wait" => r \in timers
    BY DEF WaitTimed
<1>5. TypeOK /\ [Next]_vars =>
        [\A r \in Request : Waits(r) =>
            /\ Nearer(r) \/ (pc'[r] = pc[r] /\ polls'[r] = polls[r])
            /\ Advance(r) \/ (TimerFires(r) /\ pc[r] = "wait") => Nearer(r)]_vars
    BY OthersLeave, OwnStep DEF Nearer
<1> QED  BY <1>1, <1>2, <1>3, <1>4, <1>5, TypeCorrect, PTL DEF Spec

-----------------------------------------------------------------------------
\* How long a request keeps the lock.

\* The steps that are left of a request that has won the lock: one that fails
\* after it has stored a result goes through the release again.
Hold(r) ==
    CASE pc[r] = "execute" -> 8 [] pc[r] = "set" -> 7 [] pc[r] = "publish" -> 6
      [] pc[r] = "releaseGet" -> (IF r \in done THEN 5 ELSE 2)
      [] pc[r] = "releaseDel" -> (IF r \in done THEN 4 ELSE 1)
      [] pc[r] = "publishError" -> 3
      [] OTHER -> 0

\* The lock key names a request that won it, at work or ended since, and only a
\* request that goes on from a stored result is in done.
OwnerOK ==
    \A r \in Request :
        /\ lock = r => pc[r] \in {"execute", "set", "publish", "publishError", "releaseGet",
                                  "releaseDel"} \cup Ended
        /\ r \in done => pc[r] \in {"publish", "releaseGet", "releaseDel"}

LEMMA OwnerOKNext ==
    ASSUME TypeOK, OwnerOK, [Next]_vars
    PROVE  OwnerOK'
<1> USE CacheAssumption DEF TypeOK, OwnerOK, Move, Ended
<1>1. ASSUME NEW r \in Request, Advance(r) PROVE OwnerOK'
    <2>1. CASE Lookup(r)  BY <2>1 DEF Lookup
    <2>2. CASE Acquire(r)  BY <2>2 DEF Acquire
    <2>3. CASE SetData(r)  BY <2>3 DEF SetData
    <2>4. CASE Publish(r)  BY <2>4 DEF Publish, Deliver
    <2>5. CASE PublishError(r)  BY <2>5 DEF PublishError, Deliver
    <2>6. CASE ReleaseGet(r)  BY <2>6 DEF ReleaseGet, Finish
    <2>7. CASE ReleaseDel(r)  BY <2>7 DEF ReleaseDel, Finish
    <2>8. CASE Subscribe(r)  BY <2>8 DEF Subscribe
    <2>9. CASE Poll(r)  BY <2>9 DEF Poll
    <2> QED  BY <1>1, <2>1, <2>2, <2>3, <2>4, <2>5, <2>6, <2>7, <2>8, <2>9 DEF Advance
<1>2. ASSUME NEW r \in Request, Execute(r) PROVE OwnerOK'
    BY <1>2 DEF Execute
<1>3. ASSUME NEW r \in Request, TimerFires(r) PROVE OwnerOK'
    BY <1>3 DEF TimerFires
<1>4. ASSUME NEW r \in Request, RedisError(r) PROVE OwnerOK'
    BY <1>4 DEF InTry, RedisError, AfterError, NotCarriedOut, CarriedOut, Deliver
<1>5. CASE LockExpires \/ DataExpires  BY <1>5 DEF LockExpires, DataExpires
<1>6. ASSUME NEW w \in Worker, Crash(w) PROVE OwnerOK'
    BY <1>6 DEF Crash, Running
<1>7. CASE UNCHANGED vars  BY <1>7 DEF vars
<1> QED  BY <1>1, <1>2, <1>3, <1>4, <1>5, <1>6, <1>7 DEF Next

\* A step of the owner that leaves it the lock brings it nearer to its end.
LEMMA OwnerGoesOn ==
    ASSUME TypeOK, OwnerOK, NEW r \in Request, lock = r, lock' = r,
           Advance(r) \/ Execute(r) \/ RedisError(r)
    PROVE  Hold(r)' < Hold(r)
<1> USE CacheAssumption DEF TypeOK, OwnerOK, Move, Ended, Hold
<1>0. pc[r] \in {"execute", "set", "publish", "publishError", "releaseGet", "releaseDel"} \cup Ended
    OBVIOUS
<1>1. CASE SetData(r)  BY <1>1 DEF SetData
<1>2. CASE Publish(r) \/ PublishError(r)  BY <1>2 DEF Publish, PublishError, Deliver
<1>3. CASE ReleaseGet(r)  BY <1>3 DEF ReleaseGet
<1>4. CASE ReleaseDel(r)  BY <1>4 DEF ReleaseDel
<1>5. CASE Execute(r)  BY <1>5 DEF Execute
<1>6. CASE RedisError(r)  BY <1>0, <1>6 DEF InTry, RedisError, AfterError, NotCarriedOut, CarriedOut, Deliver
<1> QED
    BY <1>0, <1>1, <1>2, <1>3, <1>4, <1>5, <1>6 DEF Advance, Lookup, Acquire, Subscribe, Poll

\* Nobody else brings the owner back: it stays where it is, or its worker dies.
LEMMA OwnerIsLeft ==
    ASSUME TypeOK, OwnerOK, [Next]_vars, NEW r \in Request, lock = r,
           ~(Advance(r) \/ Execute(r) \/ RedisError(r))
    PROVE  Hold(r)' <= Hold(r)
<1> USE CacheAssumption DEF TypeOK, Move, Ended
<1>0. pc[r] \in {"execute", "set", "publish", "publishError", "releaseGet", "releaseDel"} \cup Ended
    BY DEF OwnerOK
<1>1. ASSUME pc'[r] = pc[r], r \in done <=> r \in done' PROVE Hold(r)' <= Hold(r)
    BY <1>1 DEF Hold
<1>2. ASSUME NEW s \in Request, s # r, Advance(s)
      PROVE  pc'[r] = pc[r] /\ (r \in done <=> r \in done')
    <2>1. CASE Publish(s) \/ PublishError(s)
        BY <1>0, <1>2, <2>1 DEF Publish, PublishError, Deliver
    <2>2. CASE Lookup(s) \/ Acquire(s) \/ SetData(s) \/ ReleaseGet(s) \/ ReleaseDel(s)
               \/ Subscribe(s) \/ Poll(s)
        BY <1>2, <2>2
        DEF Lookup, Acquire, SetData, ReleaseGet, ReleaseDel, Subscribe, Poll, Finish
    <2> QED  BY <1>2, <2>1, <2>2 DEF Advance
<1>3. ASSUME NEW s \in Request, s # r, Execute(s) \/ RedisError(s)
      PROVE  pc'[r] = pc[r] /\ (r \in done <=> r \in done')
    BY <1>0, <1>3 DEF Execute, InTry, RedisError, AfterError, NotCarriedOut, CarriedOut, Deliver
<1>4. ASSUME NEW s \in Request, TimerFires(s)
      PROVE  pc'[r] = pc[r] /\ (r \in done <=> r \in done')
    BY <1>0, <1>4 DEF TimerFires
<1>5. CASE LockExpires \/ DataExpires \/ UNCHANGED vars
    BY <1>1, <1>5 DEF LockExpires, DataExpires, vars
<1>6. ASSUME NEW w \in Worker, Crash(w) PROVE Hold(r)' <= Hold(r)
    <2>1. CASE pc'[r] = "crashed"  BY <2>1 DEF Hold
    <2>2. CASE pc'[r] # "crashed"
        <3>1. pc'[r] = pc[r]  BY <1>6, <2>2 DEF Crash
        <3>2. r \in done => r \in done'
            BY <1>6, <2>2 DEF Crash, OwnerOK, Running
        <3>3. done' \subseteq done  BY <1>6 DEF Crash
        <3> QED  BY <1>1, <3>1, <3>2, <3>3
    <2> QED  BY <2>1, <2>2
<1> QED  BY <1>1, <1>2, <1>3, <1>4, <1>5, <1>6 DEF Next

\* How the lock is freed: while a request has it, what is left of its work is a
\* number of steps up to 8 (a release that fails half-way is gone through once
\* more), each of its steps leaves less, nobody else's leaves more, and the DEL
\* of the last one frees the lock, as its expiry does. Expiry waits for nothing,
\* so it frees the lock of a request that is stopped, has died or never gets its
\* answer.
THEOREM LockIsHeldBriefly ==
    Spec => /\ [](\A r \in Request : Hold(r) \in 0 .. 8)
            /\ [][\A r \in Request : lock = r =>
                     /\ Hold(r)' <= Hold(r)
                     /\ lock' = r /\ (Advance(r) \/ Execute(r) \/ RedisError(r))
                            => Hold(r)' < Hold(r)
                     /\ ReleaseDel(r) \/ LockExpires => lock' # r]_vars
<1>1. Init => OwnerOK
    BY CacheAssumption DEF Init, OwnerOK
<1>2. TypeOK /\ OwnerOK /\ [Next]_vars => OwnerOK'
    BY OwnerOKNext
<1>3. TypeOK => \A r \in Request : Hold(r) \in 0 .. 8
    BY DEF Hold
<1>4. TypeOK /\ OwnerOK /\ [Next]_vars =>
        [\A r \in Request : lock = r =>
            /\ Hold(r)' <= Hold(r)
            /\ lock' = r /\ (Advance(r) \/ Execute(r) \/ RedisError(r)) => Hold(r)' < Hold(r)
            /\ ReleaseDel(r) \/ LockExpires => lock' # r]_vars
    <2> SUFFICES ASSUME TypeOK, OwnerOK, [Next]_vars, NEW r \in Request, lock = r
                 PROVE  /\ Hold(r)' <= Hold(r)
                        /\ lock' = r /\ (Advance(r) \/ Execute(r) \/ RedisError(r))
                               => Hold(r)' < Hold(r)
                        /\ ReleaseDel(r) \/ LockExpires => lock' # r
        OBVIOUS
    <2>1. ReleaseDel(r) \/ LockExpires => lock' = Free /\ Free # r
        BY CacheAssumption DEF ReleaseDel, LockExpires
    <2>2. lock' = r /\ (Advance(r) \/ Execute(r) \/ RedisError(r)) => Hold(r)' < Hold(r)
        BY OwnerGoesOn
    <2>3. Hold(r) \in Nat /\ Hold(r)' \in Nat
        BY DEF Hold
    <2>4. ReleaseDel(r) => Hold(r)' = 0
        <3>1. ReleaseDel(r) => pc'[r] \in Ended
            BY DEF ReleaseDel, Finish, Move, Ended, TypeOK
        <3> QED  BY <3>1 DEF Hold, Ended
    <2>5. lock' # r => ReleaseDel(r) \/ RedisError(r) \/ ~(Advance(r) \/ Execute(r))
        BY DEF Advance, Execute, Lookup, Acquire, SetData, Publish, PublishError,
               ReleaseGet, Subscribe, Poll
    \* The DEL was carried out and its answer lost.
    <2>7. lock' # r /\ RedisError(r) => Hold(r)' < Hold(r)
        <3> SUFFICES ASSUME lock' # r, RedisError(r) PROVE Hold(r)' < Hold(r)
            OBVIOUS
        <3>1. pc[r] = "releaseDel" /\ CarriedOut(r)
            BY CacheAssumption DEF RedisError, NotCarriedOut, CarriedOut, OwnerOK, Ended
        <3>2. pc'[r] = IF r \in done THEN "publishError" ELSE "threw"
            BY <3>1 DEF CarriedOut, AfterError, InTry, Move, TypeOK
        <3> QED  BY <3>1, <3>2 DEF Hold
    <2>6. ~(Advance(r) \/ Execute(r) \/ RedisError(r)) => Hold(r)' <= Hold(r)
        BY OwnerIsLeft
    <2>8. Hold(r)' <= Hold(r)
        <3> DEFINE now == Hold(r)
                   then == Hold(r)'
        <3>1. now \in Nat /\ then \in Nat  BY <2>3
        <3>2. then < now \/ then = 0 \/ then <= now  BY <2>2, <2>4, <2>5, <2>6, <2>7
        <3> HIDE DEF now, then
        <3>3. then <= now  BY <3>1, <3>2
        <3> QED  BY <3>3 DEF now, then
    <2> QED  BY <2>1, <2>2, <2>8
<1> QED  BY <1>1, <1>2, <1>3, <1>4, TypeCorrect, PTL DEF Spec
=============================================================================
