-------------------------- MODULE AccessGuardProofs --------------------------
(***************************************************************************)
(* Proofs about AccessGuard for any number of concurrent requests, workers *)
(* and limit: the types, how many requests get through, how a ban ends.    *)
(***************************************************************************)
EXTENDS AccessGuard, FiniteSetTheorems, TLAPS

-----------------------------------------------------------------------------
\* Types.

LEMMA TypeNext == TypeOK /\ [Next]_vars => TypeOK'
<1> SUFFICES ASSUME TypeOK, [Next]_vars PROVE TypeOK'
    OBVIOUS
<1> USE GuardAssumption DEF TypeOK, Step, NoKey, NoExpiry, Move
<1>1. ASSUME NEW s \in Slot, Request(s) PROVE TypeOK'
    BY <1>1 DEF Request
<1>2. ASSUME NEW s \in Slot, Handle(s) PROVE TypeOK'
    <2>1. CASE IsExist(s)  BY <2>1 DEF IsExist
    <2>2. CASE Add(s)  BY <2>2 DEF Add
    <2>3. CASE AddInsert(s)  BY <2>3 DEF AddInsert, Insert
    <2>4. CASE IsOverRate(s)  BY <2>4 DEF IsOverRate
    <2>5. CASE UpdateCount(s)  BY <2>5 DEF UpdateCount
    <2>6. CASE UpdateIncr(s)  BY <2>6 DEF UpdateIncr, Incr
    <2>7. CASE KeyTTL(s)  BY <2>7 DEF KeyTTL
    <2>8. CASE KeyTTLGet(s)  BY <2>8 DEF KeyTTLGet
    <2>9. CASE KeyTTLInsert(s)  BY <2>9 DEF KeyTTLInsert, Insert
    <2> QED  BY <1>2, <2>1, <2>2, <2>3, <2>4, <2>5, <2>6, <2>7, <2>8, <2>9 DEF Handle
<1>3. CASE Expire  BY <1>3 DEF Expire
<1>4. CASE UNCHANGED vars  BY <1>4 DEF vars
<1> QED  BY <1>1, <1>2, <1>3, <1>4 DEF Next

\* The counter, its time to live and every request's progress stay well-formed,
\* whenever the key expires.
THEOREM TypeCorrect == Spec => []TypeOK
<1>1. ASSUME Init PROVE TypeOK
    <2>1. setPX \in [Worker -> Nat]  BY <1>1, GuardAssumption DEF Init
    <2>2. pc \in [Slot -> Step]  BY <1>1 DEF Init, Step
    <2>3. value \in [Slot -> Nat]  BY <1>1 DEF Init
    <2> QED  BY <1>1, <2>1, <2>2, <2>3 DEF Init, TypeOK
<1>2. TypeOK /\ [Next]_vars => TypeOK'  BY TypeNext
<1> QED  BY <1>1, <1>2, PTL DEF Spec

-----------------------------------------------------------------------------
\* How many requests are let through.

\* Requests that have been let through and have not been counted yet; that are
\* about to be checked; and that are on their way to start the counter.
Passed == {s \in Slot : pc[s] \in {"updateCount", "incr"}}
Checked == {s \in Slot : pc[s] = "isOverRate"}
Starters == {s \in Slot : pc[s] \in {"insert", "ttlGet", "ttlInsert"}}

N == Cardinality(Slot)

\* What one start of the counter lets through.
Each == Max + N

LetThroughInv ==
    /\ count = NoKey => px = NoExpiry /\ starts = 0 /\ through <= N - Cardinality(Checked)
    /\ count # NoKey =>
           /\ starts >= 1
           /\ through <= N + starts * Each
           /\ count <= Max =>
                  through <= N + (starts - 1) * Each + count + Cardinality(Passed)
    /\ count # NoKey /\ px = NoExpiry => starts = 1
    /\ px # NoExpiry => starts + Cardinality(Starters) <= N + 1

LEMMA Counts == N \in Nat /\ Each \in Nat
BY GuardAssumption, FS_CardinalityType DEF N, Each

LEMMA SetCount ==
    ASSUME NEW S \in SUBSET Slot
    PROVE  IsFiniteSet(S) /\ Cardinality(S) \in Nat /\ Cardinality(S) <= N
BY GuardAssumption, FS_Subset, FS_CardinalityType DEF N

LEMMA StepCount ==
    /\ Cardinality(Passed) \in 0 .. N /\ Cardinality(Passed') \in 0 .. N
    /\ Cardinality(Checked) \in 0 .. N /\ Cardinality(Checked') \in 0 .. N
    /\ Cardinality(Starters) \in 0 .. N /\ Cardinality(Starters') \in 0 .. N
<1> USE Counts, SetCount
<1>1. Passed \subseteq Slot /\ Passed' \subseteq Slot  BY DEF Passed
<1>2. Checked \subseteq Slot /\ Checked' \subseteq Slot  BY DEF Checked
<1>3. Starters \subseteq Slot /\ Starters' \subseteq Slot  BY DEF Starters
<1>4. Cardinality(Passed) \in 0 .. N /\ Cardinality(Passed') \in 0 .. N  BY <1>1
<1>5. Cardinality(Checked) \in 0 .. N /\ Cardinality(Checked') \in 0 .. N  BY <1>2
<1>6. Cardinality(Starters) \in 0 .. N /\ Cardinality(Starters') \in 0 .. N  BY <1>3
<1> QED  BY <1>4, <1>5, <1>6

\* One request more, or less, in a set of requests.
LEMMA OneLess ==
    ASSUME NEW S \in SUBSET Slot, NEW s \in S
    PROVE  Cardinality(S \ {s}) = Cardinality(S) - 1
BY SetCount, FS_RemoveElement

LEMMA OneMore ==
    ASSUME NEW S \in SUBSET Slot, NEW s \in Slot, s \notin S
    PROVE  Cardinality(S \cup {s}) = Cardinality(S) + 1
BY SetCount, FS_AddElement

\* One start more lets through as many as each.
LEMMA Starts ==
    ASSUME NEW n \in Nat
    PROVE  /\ n * Each \in Nat
           /\ (n + 1) * Each = n * Each + Each
           /\ ((n + 1) - 1) * Each = n * Each
           /\ n >= 1 => (n - 1) * Each + Each = n * Each /\ (n - 1) * Each \in Nat
<1> USE Counts
<1>1. n * Each \in Nat  OBVIOUS
<1>2. (n + 1) * Each = n * Each + Each  OBVIOUS
<1>3. ((n + 1) - 1) * Each = n * Each  OBVIOUS
<1>4. ASSUME n >= 1 PROVE (n - 1) * Each + Each = n * Each /\ (n - 1) * Each \in Nat
    <2>1. n - 1 \in Nat  BY <1>4
    <2>2. (n - 1) * Each \in Nat  BY <2>1
    <2>3. ((n - 1) + 1) * Each = (n - 1) * Each + Each  BY <2>1
    <2>4. (n - 1) + 1 = n  OBVIOUS
    <2> QED  BY <2>2, <2>3, <2>4
<1> QED  BY <1>1, <1>2, <1>3, <1>4

LEMMA Within ==
    ASSUME NEW n \in Nat, NEW a \in Nat, NEW c \in Nat, NEW k \in Nat, NEW e \in Nat,
           NEW t \in Nat, t <= n + a + c + k, c + k <= e
    PROVE  t <= n + (a + e)
OBVIOUS

\* A start of the counter, at any value: what was let through until then is within
\* the starts before it.
LEMMA StartKeeps ==
    ASSUME TypeOK, LetThroughInv, starts' = starts + 1, through' = through,
           count' \in Nat
    PROVE  /\ starts' >= 1
           /\ through' <= N + starts' * Each
           /\ through' <= N + (starts' - 1) * Each + count' + Cardinality(Passed')
<1> USE Counts, StepCount DEF TypeOK, NoKey
<1>1. through <= N + starts * Each
    <2>1. CASE count = NoKey  BY <2>1, Starts DEF LetThroughInv
    <2>2. CASE count # NoKey  BY <2>2 DEF LetThroughInv
    <2> QED  BY <2>1, <2>2
<1>2. starts' * Each = starts * Each + Each /\ (starts' - 1) * Each = starts * Each
    BY Starts
<1>3. starts * Each \in Nat  BY Starts
<1>4. starts' >= 1  OBVIOUS
<1>5. through' <= N + starts' * Each  BY <1>1, <1>2, <1>3
<1>6. through' <= N + (starts' - 1) * Each + count' + Cardinality(Passed')
    BY <1>1, <1>2, <1>3
<1> QED  BY <1>4, <1>5, <1>6

LEMMA LetThroughNext ==
    ASSUME TypeOK, LetThroughInv, [Next]_vars
    PROVE  LetThroughInv'
<1> USE GuardAssumption, Counts, StepCount
<1> USE DEF TypeOK, NoKey, NoExpiry, Move
\* Steps that leave the counter and the histories alone.
<1>1. ASSUME UNCHANGED <<count, px, through, starts>>,
             count = NoKey => Checked' \subseteq Checked,
             count # NoKey => Passed' = Passed,
             px # NoExpiry => Starters' \subseteq Starters
      PROVE  LetThroughInv'
    <2>1. ASSUME count = NoKey PROVE Cardinality(Checked') <= Cardinality(Checked)
        BY <1>1, <2>1, SetCount, FS_Subset DEF Checked
    <2>2. ASSUME px # NoExpiry PROVE Cardinality(Starters') <= Cardinality(Starters)
        BY <1>1, <2>2, SetCount, FS_Subset DEF Starters
    <2>3. N' = N /\ Each' = Each  BY DEF N, Each
    <2>4. CASE count = NoKey  BY <1>1, <2>1, <2>3, <2>4 DEF LetThroughInv
    <2>5. CASE count # NoKey  BY <1>1, <2>2, <2>3, <2>5 DEF LetThroughInv
    <2> QED  BY <2>4, <2>5
<1>2. N' = N /\ Each' = Each  BY DEF N, Each
<1>3. ASSUME NEW s \in Slot, Request(s) PROVE LetThroughInv'
    BY <1>1, <1>3 DEF Request, Checked, Passed, Starters
<1>4. ASSUME NEW s \in Slot, Handle(s) PROVE LetThroughInv'
    <2>1. CASE IsExist(s)  BY <1>1, <2>1 DEF IsExist, Checked, Passed, Starters
    <2>2. CASE Add(s)
        <3>1. count = NoKey => px = NoExpiry  BY DEF LetThroughInv
        <3> QED  BY <1>1, <2>2, <3>1 DEF Add, Checked, Passed, Starters
    <2>3. CASE AddInsert(s)
        <3>1. count' = 0 /\ px' # NoExpiry /\ starts' = starts + 1 /\ through' = through
            BY <2>3 DEF AddInsert, Insert
        <3>2. s \in Starters /\ Starters' = Starters \ {s}
            BY <2>3 DEF AddInsert, Starters
        <3>3. Cardinality(Starters') = Cardinality(Starters) - 1
            BY <3>2, OneLess DEF Starters
        <3>4. starts' + Cardinality(Starters') <= N + 1
            BY <3>1, <3>3 DEF LetThroughInv
        <3> QED  BY <1>2, <3>1, <3>4, StartKeeps DEF LetThroughInv
    <2>4. CASE IsOverRate(s)
        <3>1. UNCHANGED <<count, px, starts>>  BY <2>4 DEF IsOverRate
        <3>2. CASE count # NoKey /\ count > Max
            BY <1>1, <2>4, <3>1, <3>2 DEF IsOverRate, Checked, Passed, Starters
        <3>3. CASE count # NoKey /\ ~(count > Max)
            <4>1. through' = through + 1 /\ Starters' = Starters
                BY <2>4, <3>3 DEF IsOverRate, Starters
            <4>2. s \notin Passed /\ Passed' = Passed \cup {s}
                BY <2>4, <3>3 DEF IsOverRate, Passed
            <4>3. Cardinality(Passed') = Cardinality(Passed) + 1
                BY <4>2, OneMore DEF Passed
            <4>4. through <= N + (starts - 1) * Each + count + Cardinality(Passed)
                BY <3>3 DEF LetThroughInv
            <4>5. starts >= 1  BY <3>3 DEF LetThroughInv
            <4>6. (starts - 1) * Each \in Nat /\ (starts - 1) * Each + Each = starts * Each
                BY <4>5, Starts
            <4>7. through' <= N + (starts' - 1) * Each + count' + Cardinality(Passed')
                BY <3>1, <4>1, <4>3, <4>4, <4>6
            \* The counter is not over the limit, and at most all requests have passed.
            <4>8. count + Cardinality(Passed') <= Each  BY <3>3 DEF Each
            <4>9. through' <= N + starts' * Each
                <5>1. starts' = starts /\ count' = count  BY <3>1
                <5>2. starts' * Each = (starts - 1) * Each + Each  BY <4>6, <5>1
                <5>3. through' <= N + (starts - 1) * Each + count + Cardinality(Passed')
                    BY <4>7, <5>1
                <5>4. count \in Nat /\ through' \in Nat  BY <3>3, <4>1
                <5>5. through' <= N + ((starts - 1) * Each + Each)
                    BY <4>6, <4>8, <5>3, <5>4, Within
                <5> QED  BY <5>2, <5>5
            <4> QED  BY <1>2, <3>1, <3>3, <4>1, <4>5, <4>7, <4>9 DEF LetThroughInv
        <3>4. CASE count = NoKey
            <4>1. through' = through + 1  BY <2>4, <3>4 DEF IsOverRate
            <4>2. s \in Checked /\ Checked' = Checked \ {s}
                BY <2>4, <3>4 DEF IsOverRate, Checked
            <4>3. Cardinality(Checked') = Cardinality(Checked) - 1
                BY <4>2, OneLess DEF Checked
            <4> QED  BY <1>2, <3>1, <3>4, <4>1, <4>3 DEF LetThroughInv
        <3> QED  BY <3>2, <3>3, <3>4
    <2>5. CASE UpdateCount(s)  BY <1>1, <2>5 DEF UpdateCount, Checked, Passed, Starters
    <2>6. CASE UpdateIncr(s)
        <3>1. s \in Passed /\ Passed' = Passed \ {s} /\ Starters' = Starters
            BY <2>6 DEF UpdateIncr, Passed, Starters
        <3>2. Cardinality(Passed') = Cardinality(Passed) - 1
            BY <3>1, OneLess DEF Passed
        <3>3. through' = through  BY <2>6 DEF UpdateIncr
        <3>4. CASE count = NoKey
            <4>1. starts' = starts + 1 /\ count' = 1 /\ px' = NoExpiry
                BY <2>6, <3>4 DEF UpdateIncr, Incr
            <4>2. starts' = 1  BY <3>4, <4>1 DEF LetThroughInv
            <4> QED  BY <1>2, <3>3, <4>1, <4>2, StartKeeps DEF LetThroughInv
        <3>5. CASE count # NoKey
            <4>1. starts' = starts /\ px' = px /\ count' \in Nat
                BY <2>6, <3>5 DEF UpdateIncr, Incr
            <4>2. count' = count + 1 \/ (count' = count /\ count >= MaxCount)
                BY <2>6, <3>5 DEF UpdateIncr, Incr
            \* The counter takes over the place of s.
            <4>3. count' <= Max =>
                    through' <= N + (starts' - 1) * Each + count' + Cardinality(Passed')
                <5>1. SUFFICES ASSUME count' <= Max
                      PROVE through' <= N + (starts' - 1) * Each + count' + Cardinality(Passed')
                    OBVIOUS
                <5>2. count' = count + 1  BY <4>2, <5>1
                <5>3. through <= N + (starts - 1) * Each + count + Cardinality(Passed)
                    BY <3>5, <5>1, <5>2 DEF LetThroughInv
                <5>4. (starts - 1) * Each \in Nat  BY <3>5, Starts DEF LetThroughInv
                <5> QED  BY <3>2, <3>3, <4>1, <5>2, <5>3, <5>4
            <4> QED  BY <1>2, <3>1, <3>3, <3>5, <4>1, <4>3 DEF LetThroughInv
        <3> QED  BY <3>4, <3>5
    <2>7. CASE KeyTTL(s)  BY <1>1, <2>7 DEF KeyTTL, Checked, Passed, Starters
    <2>8. CASE KeyTTLGet(s)  BY <1>1, <2>8 DEF KeyTTLGet, Checked, Passed, Starters
    <2>9. CASE KeyTTLInsert(s)
        <3>1. Window \div 1000 \in Nat /\ value[s] \in Nat  OBVIOUS
        <3>2. count' \in Nat /\ px' # NoExpiry /\ starts' = starts + 1 /\ through' = through
            BY <2>9, <3>1 DEF KeyTTLInsert, Insert
        <3>3. s \in Starters /\ Starters' = Starters \ {s}
            BY <2>9 DEF KeyTTLInsert, Starters
        <3>4. Cardinality(Starters') = Cardinality(Starters) - 1
            BY <3>3, OneLess DEF Starters
        <3>5. starts' + Cardinality(Starters') <= N + 1
            BY <3>2, <3>4 DEF LetThroughInv
        <3> QED  BY <1>2, <3>2, <3>5, StartKeeps DEF LetThroughInv
    <2> QED  BY <1>4, <2>1, <2>2, <2>3, <2>4, <2>5, <2>6, <2>7, <2>8, <2>9 DEF Handle
<1>5. CASE Expire
    <2>1. count' = NoKey /\ px' = NoExpiry /\ starts' = 0 /\ through' = 0
        BY <1>5 DEF Expire
    <2> QED  BY <1>2, <2>1 DEF LetThroughInv
<1>6. CASE UNCHANGED vars  BY <1>1, <1>6 DEF vars, Checked, Passed, Starters
<1> QED  BY <1>3, <1>4, <1>5, <1>6 DEF Next

\* However requests interleave with each other and with expiries of the key, from one
\* expiry to the next each start of the counter lets through the limit and the
\* requests handled at once, and it starts at most once for each of them and once more.
THEOREM LetThroughIsBounded == Spec => []LetThroughBounded
<1>1. Init => LetThroughInv
    <2>1. SUFFICES ASSUME Init PROVE LetThroughInv  OBVIOUS
    <2>2. count = NoKey /\ px = NoExpiry /\ starts = 0 /\ through = 0
        BY <2>1 DEF Init
    <2> QED  BY <2>2, StepCount, Counts DEF LetThroughInv, NoKey, NoExpiry
<1>2. TypeOK /\ LetThroughInv /\ [Next]_vars => LetThroughInv'
    BY LetThroughNext
<1>3. TypeOK /\ LetThroughInv => LetThroughBounded
    <2> SUFFICES ASSUME TypeOK, LetThroughInv PROVE LetThroughBounded
        OBVIOUS
    <2> USE Counts, StepCount DEF TypeOK
    <2>1. through <= N + starts * Each
        <3>1. CASE count = NoKey  BY <3>1, Starts DEF LetThroughInv
        <3>2. CASE count # NoKey  BY <3>2 DEF LetThroughInv
        <3> QED  BY <3>1, <3>2
    <2>2. starts <= N + 1
        <3>1. CASE count = NoKey  BY <3>1 DEF LetThroughInv
        <3>2. CASE px # NoExpiry  BY <3>2 DEF LetThroughInv
        <3>3. CASE count # NoKey /\ px = NoExpiry  BY <3>3 DEF LetThroughInv
        <3> QED  BY <3>1, <3>2, <3>3
    <2> QED  BY <2>1, <2>2 DEF LetThroughBounded, Each, N
<1> QED  BY <1>1, <1>2, <1>3, TypeCorrect, PTL DEF Spec

-----------------------------------------------------------------------------
\* How long a client is refused.

\* The counter is over the limit; the key has lost its time to live besides.
Banned == count > Max
Stuck == Banned /\ px = NoExpiry

\* The steps until a request of the client meets the key without a time to live
\* and gives it one again: those that end the request under way, then those of
\* the next one.
Repair(step) ==
    CASE step = "ttlInsert" -> 1 [] step = "ttlGet" -> 2 [] step = "ttl" -> 3
      [] step = "isOverRate" -> 4 [] step = "add" -> 5 [] step = "isExist" -> 6
      [] step = "idle" -> 7 [] step = "incr" -> 8 [] step = "updateCount" -> 9
      [] step = "insert" -> 10

LEMMA RepairType == ASSUME NEW step \in Step PROVE Repair(step) \in 1 .. 10
BY DEF Step, Repair

\* A step of another request leaves a slot where it is, and a key that has a time
\* to live keeps one while the ban lasts.
LEMMA OthersLeave ==
    ASSUME TypeOK, [Next]_vars, Banned,
           NEW s \in Slot, ~(Request(s) \/ Handle(s))
    PROVE  pc'[s] = pc[s]
<1> USE DEF TypeOK, Move
<1>1. ASSUME NEW t \in Slot, t # s, Request(t) PROVE pc'[s] = pc[s]
    BY <1>1 DEF Request
<1>2. ASSUME NEW t \in Slot, t # s, Handle(t) PROVE pc'[s] = pc[s]
    BY <1>2
    DEF Handle, IsExist, Add, AddInsert, IsOverRate, UpdateCount, UpdateIncr, KeyTTL, KeyTTLGet,
        KeyTTLInsert
<1>3. CASE Expire \/ UNCHANGED vars  BY <1>3 DEF Expire, vars
<1> QED  BY <1>1, <1>2, <1>3 DEF Next

\* While the key is stuck, a step of a request either brings it nearer to the
\* repair, or gives the key a time to live, or starts a new window.
LEMMA RequestRepairs ==
    ASSUME TypeOK, Stuck, NEW s \in Slot, Request(s) \/ Handle(s)
    PROVE  Stuck' => Repair(pc'[s]) < Repair(pc[s])
<1> USE GuardAssumption DEF TypeOK, Move, Stuck, Banned, NoKey, NoExpiry, Repair
<1>0. count # NoKey  OBVIOUS
<1>1. CASE Request(s)  BY <1>1 DEF Request
<1>2. CASE IsExist(s)  BY <1>0, <1>2 DEF IsExist
<1>3. CASE Add(s)  BY <1>0, <1>3 DEF Add
<1>4. CASE AddInsert(s)  BY <1>4 DEF AddInsert, Insert
<1>5. CASE IsOverRate(s)  BY <1>0, <1>5 DEF IsOverRate
<1>6. CASE UpdateCount(s)  BY <1>0, <1>6 DEF UpdateCount
<1>7. CASE UpdateIncr(s)  BY <1>7 DEF UpdateIncr
<1>8. CASE KeyTTL(s)  BY <1>0, <1>8 DEF KeyTTL
<1>9. CASE KeyTTLGet(s)  BY <1>9 DEF KeyTTLGet
<1>10. CASE KeyTTLInsert(s)
    <2>1. px' = Window \div 1000 /\ Window \div 1000 \in Nat
        BY <1>10 DEF KeyTTLInsert, Insert
    <2> QED  BY <2>1
<1> QED
    BY <1>1, <1>2, <1>3, <1>4, <1>5, <1>6, <1>7, <1>8, <1>9, <1>10 DEF Handle

\* Once the key has a time to live, no step takes it from a counter over the limit.
LEMMA ExpiryStays ==
    ASSUME TypeOK, [Next]_vars, Banned, ~Stuck
    PROVE  ~Stuck'
<1> USE GuardAssumption DEF TypeOK, Stuck, Banned, NoKey, NoExpiry
<1>0. count # NoKey /\ px # NoExpiry  OBVIOUS
<1>1. CASE UNCHANGED <<count, px>>  BY <1>0, <1>1
<1>2. ASSUME NEW s \in Slot, AddInsert(s) \/ UpdateIncr(s) \/ KeyTTLInsert(s) PROVE ~Stuck'
    <2>1. CASE AddInsert(s)  BY <2>1 DEF AddInsert, Insert
    <2>2. CASE UpdateIncr(s)  BY <1>0, <2>2 DEF UpdateIncr, Incr
    <2>3. CASE KeyTTLInsert(s)
        <3>1. px' = Window \div 1000 /\ Window \div 1000 \in Nat
            BY <2>3 DEF KeyTTLInsert, Insert
        <3> QED  BY <3>1
    <2> QED  BY <1>2, <2>1, <2>2, <2>3
<1>3. CASE Expire  BY <1>3 DEF Expire
<1> QED
    BY <1>1, <1>2, <1>3
    DEF Next, Request, Handle, IsExist, Add, IsOverRate, UpdateCount, KeyTTL, KeyTTLGet, vars

\* How a ban ends, that of a key without a time to live included, whichever
\* requests, expiries and repairs come in between. A stuck key is repaired by each
\* request of the client: what is left until then is a number from 1 to 10 that
\* its own steps lessen and nobody else's change, and it has such a step to take.
\* A key that has a time to live keeps one until the ban is over, and when it
\* expires the ban is over.
THEOREM BanIsBounded ==
    Spec => /\ [](\A s \in Slot : Repair(pc[s]) \in 1 .. 10)
            /\ [][Stuck /\ Stuck' =>
                     \A s \in Slot :
                        /\ pc'[s] = pc[s] \/ Repair(pc'[s]) < Repair(pc[s])
                        /\ Request(s) \/ Handle(s) => Repair(pc'[s]) < Repair(pc[s])]_vars
            /\ [][Banned /\ ~Stuck => ~Stuck' /\ (Expire => ~Banned')]_vars
<1>1. TypeOK => \A s \in Slot : Repair(pc[s]) \in 1 .. 10
    BY RepairType DEF TypeOK
<1>2. TypeOK /\ [Next]_vars =>
        [Stuck /\ Stuck' =>
            \A s \in Slot :
               /\ pc'[s] = pc[s] \/ Repair(pc'[s]) < Repair(pc[s])
               /\ Request(s) \/ Handle(s) => Repair(pc'[s]) < Repair(pc[s])]_vars
    BY RequestRepairs, OthersLeave DEF Stuck
<1>3. TypeOK /\ [Next]_vars => [Banned /\ ~Stuck => ~Stuck' /\ (Expire => ~Banned')]_vars
    <2>1. ASSUME Expire PROVE ~Banned'
        BY <2>1, GuardAssumption DEF Expire, Banned, NoKey
    <2> QED  BY <2>1, ExpiryStays
<1> QED  BY <1>1, <1>2, <1>3, TypeCorrect, PTL DEF Spec
=============================================================================
