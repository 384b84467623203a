------------------------ MODULE SamplingManagerProofs ------------------------
(***************************************************************************)
(* Proofs about SamplingManager, for every set of triggers, list of logs,  *)
(* set of readings and number of polls.                                    *)
(***************************************************************************)
EXTENDS SamplingManager, FiniteSetTheorems, SequenceTheorems,
        WellFoundedInduction, TLAPS

-----------------------------------------------------------------------------
(* Facts about numbers and buffers *)

(* A non-empty set of natural numbers has a least element.                 *)
LEMMA LeastNat ==
  ASSUME NEW T \in SUBSET Nat, T # {}
  PROVE  \E x \in T : \A y \in T : x <= y
<1>1. \E x \in T : \A y \in T : ~(<<y, x>> \in OpToRel(<, Nat))
  BY NatLessThanWellFounded, WFMin
<1>2. PICK x \in T : \A y \in T : ~(<<y, x>> \in OpToRel(<, Nat))
  BY <1>1
<1>3. ASSUME NEW y \in T, y < x PROVE FALSE
  <2>1. <<y, x>> \in OpToRel(<, Nat)
    BY <1>3 DEF OpToRel
  <2> QED
    BY <2>1, <1>2
<1> QED
  BY <1>3

(* A non-empty set of natural numbers with an upper bound has a greatest   *)
(* element.                                                                *)
LEMMA GreatestNat ==
  ASSUME NEW T \in SUBSET Nat, T # {}, NEW b \in Nat, \A y \in T : y <= b
  PROVE  \E x \in T : \A y \in T : y <= x
<1> DEFINE D == {b - y : y \in T}
<1>1. \A y \in T : b - y \in Nat
  OBVIOUS
<1>2. PICK d \in D : \A e \in D : d <= e
  <2>1. D \in SUBSET Nat
    BY <1>1
  <2>2. D # {}
    OBVIOUS
  <2> QED
    BY <2>1, <2>2, LeastNat
<1>3. PICK x \in T : d = b - x
  OBVIOUS
<1>4. \A y \in T : y <= x
  BY <1>2, <1>3
<1> QED
  BY <1>4

(* Quotient and remainder of a successor.                                  *)
LEMMA QuotientUnique ==
  ASSUME NEW p \in Nat, p > 0, NEW q1 \in Int, NEW q2 \in Int,
         NEW r1 \in 0..(p - 1), NEW r2 \in 0..(p - 1), p * q1 + r1 = p * q2 + r2
  PROVE  q1 = q2 /\ r1 = r2
<1>1. p * (q1 - q2) = r2 - r1
  OBVIOUS
<1>2. CASE q1 - q2 >= 1
  <2>1. p * (q1 - q2) >= p
    BY <1>2
  <2> QED
    BY <2>1, <1>1
<1>3. CASE q1 - q2 <= -1
  <2>1. p * (q1 - q2) <= -p
    BY <1>3
  <2> QED
    BY <2>1, <1>1
<1> QED
  BY <1>1, <1>2, <1>3

(* Quotient and remainder of n + 1, from those of n.                       *)
LEMMA DivSuccessor ==
  ASSUME NEW n \in Nat, NEW p \in Nat, p > 0
  PROVE  /\ n \div p \in Nat /\ n % p \in 0..(p - 1)
         /\ (n % p) + 1 >= p => (n + 1) % p = 0 /\ (n + 1) \div p = (n \div p) + 1
         /\ (n % p) + 1 < p => (n + 1) % p = (n % p) + 1 /\ (n + 1) \div p = n \div p
<1>1. \A m \in Nat : m = p * (m \div p) + (m % p) /\ m % p \in 0..(p - 1) /\ m \div p \in Nat
  OBVIOUS
<1> DEFINE q == n \div p
           r == n % p
           q1 == (n + 1) \div p
           r1 == (n + 1) % p
<1>2. n = p * q + r /\ q \in Nat /\ r \in 0..(p - 1)
  BY <1>1
<1>3. n + 1 = p * q1 + r1 /\ q1 \in Nat /\ r1 \in 0..(p - 1)
  BY <1>1
<1> HIDE DEF q, r, q1, r1
<1>4. ASSUME r + 1 >= p PROVE r1 = 0 /\ q1 = q + 1
  <2>1. r + 1 = p
    BY <1>2, <1>4
  <2>2. p * (q + 1) = p * q + p
    BY <1>2
  <2>3. p * (q + 1) + 0 = p * q1 + r1
    BY <2>1, <2>2, <1>2, <1>3
  <2> QED
    BY <2>3, <1>2, <1>3, QuotientUnique
<1>5. ASSUME r + 1 < p PROVE r1 = r + 1 /\ q1 = q
  <2>1. p * q + (r + 1) = p * q1 + r1 /\ r + 1 \in 0..(p - 1)
    BY <1>2, <1>3, <1>5
  <2> QED
    BY <2>1, <1>2, <1>3, QuotientUnique
<1> QED
  BY <1>2, <1>4, <1>5 DEF q, r, q1, r1

(* push_back keeps the element type and the capacity of a buffer, and the  *)
(* buffer grows by one until it is full.                                   *)
LEMMA PushBackType ==
  ASSUME NEW S, NEW b \in Seq(S), NEW c \in Nat, Len(b) <= c, NEW x \in S
  PROVE  /\ PushBack(b, c, x) \in Seq(S)
         /\ Len(PushBack(b, c, x)) = IF Len(b) < c THEN Len(b) + 1 ELSE Len(b)
<1>1. CASE c = 0
  BY <1>1, LenProperties DEF PushBack
<1>2. CASE c # 0 /\ Len(b) < c
  BY <1>2, AppendProperties DEF PushBack
<1>3. CASE c # 0 /\ Len(b) = c
  <2>1. b # <<>> /\ Tail(b) \in Seq(S) /\ Len(Tail(b)) = Len(b) - 1
    BY <1>3, HeadTailProperties
  <2>2. PushBack(b, c, x) = Append(Tail(b), x)
    BY <1>3 DEF PushBack
  <2> QED
    BY <2>1, <2>2, <1>3, AppendProperties
<1> QED
  BY <1>1, <1>2, <1>3, LenProperties

(* The newest element of a buffer that can hold one is the one pushed last. *)
LEMMA LastPushBack ==
  ASSUME NEW S, NEW b \in Seq(S), NEW c \in Nat \ {0}, Len(b) <= c, NEW x \in S
  PROVE  Last(PushBack(b, c, x)) = x
<1>1. CASE Len(b) < c
  <2>1. PushBack(b, c, x) = Append(b, x)
    BY <1>1 DEF PushBack
  <2> QED
    BY <2>1, AppendProperties DEF Last
<1>2. CASE Len(b) = c
  <2>1. Tail(b) \in Seq(S)
    BY <1>2, HeadTailProperties
  <2>2. PushBack(b, c, x) = Append(Tail(b), x)
    BY <1>2 DEF PushBack
  <2> QED
    BY <2>1, <2>2, AppendProperties DEF Last
<1> QED
  BY <1>1, <1>2, LenProperties

(* Finitely many natural numbers are bounded.                              *)
LEMMA BoundedNat ==
  ASSUME NEW f, NEW n \in Nat, \A i \in 1..n : f[i] \in Nat
  PROVE  \E b \in Nat : \A i \in 1..n : f[i] <= b
<1> DEFINE Bounded(m) == \E b \in Nat : \A i \in 1..m : f[i] <= b
           Bad == {m \in 0..n : ~Bounded(m)}
<1>1. SUFFICES ASSUME Bad # {} PROVE FALSE
  <2>1. n \notin Bad => Bounded(n)
    OBVIOUS
  <2> QED
    BY <2>1
<1>2. PICK m \in Bad : \A k \in Bad : m <= k
  <2>1. Bad \in SUBSET Nat
    OBVIOUS
  <2> QED
    BY <2>1, <1>1, LeastNat
<1>3. m # 0
  <2>1. Bounded(0)
    OBVIOUS
  <2> QED
    BY <2>1
<1>4. Bounded(m - 1)
  <2>1. m - 1 \in 0..n
    BY <1>3
  <2>2. ASSUME m - 1 \in Bad PROVE FALSE
    <3>1. m <= m - 1
      BY <1>2, <2>2
    <3> QED
      BY <3>1
  <2> QED
    BY <2>1, <2>2
<1>5. PICK b \in Nat : \A i \in 1..(m - 1) : f[i] <= b
  BY <1>4
<1>6. f[m] \in Nat
  BY <1>3
<1>7. Bounded(m)
  <2>1. CASE f[m] <= b
    <3>1. \A i \in 1..m : i = m \/ i \in 1..(m - 1)
      BY <1>3
    <3> QED
      BY <3>1, <2>1, <1>5
  <2>2. CASE b < f[m]
    <3>1. \A i \in 1..m : i = m \/ (i \in 1..(m - 1) /\ f[i] \in Nat)
      BY <1>3
    <3>2. \A i \in 1..m : f[i] <= f[m]
      BY <3>1, <2>2, <1>5, <1>6
    <3> QED
      BY <3>2, <1>6
  <2> QED
    BY <2>1, <2>2, <1>6
<1> QED
  BY <1>7

(* The capacity of the sample buffer of a resource is well defined,        *)
(* positive, and no shorter than any resolution asked of the resource.     *)
LEMMA SamplesCapacityType ==
  ASSUME NEW r \in Resource
  PROVE  /\ SamplesCapacity(r) \in Nat \ {0}
         /\ \A k \in LogKeys : k.resource = r => k.resolution <= SamplesCapacity(r)
<1> DEFINE f == [i \in 1..Len(LogTypes) |-> LogTypes[i].resolution]
<1>1. \A i \in 1..Len(LogTypes) : LogTypes[i] \in LogType /\ f[i] \in Nat
  BY LogTypesAssumption DEF LogType
<1>2. PICK b \in Nat : \A i \in 1..Len(LogTypes) : f[i] <= b
  BY <1>1, BoundedNat, LogTypesAssumption
<1>3. Resolutions(r) \in SUBSET Nat /\ 1 \in Resolutions(r)
  BY <1>1, LogTypesAssumption DEF Resolutions
<1>4. b + 1 \in Nat /\ \A y \in Resolutions(r) : y <= b + 1
  BY <1>1, <1>2, LogTypesAssumption DEF Resolutions
<1>5. \E m \in Resolutions(r) : \A n \in Resolutions(r) : n <= m
  BY <1>3, <1>4, GreatestNat
<1>6. /\ SamplesCapacity(r) \in Resolutions(r)
      /\ \A n \in Resolutions(r) : n <= SamplesCapacity(r)
  BY <1>5 DEF SamplesCapacity
<1>7. \A k \in LogKeys : k.resource = r => k.resolution \in Resolutions(r)
  BY LogTypesAssumption DEF LogKeys, LogKey, Resolutions
<1> QED
  BY <1>3, <1>6, <1>7

(* A key of the logs is the key of some declaration; the capacity of its   *)
(* buffer is a natural number, its resolution too.                         *)
LEMMA LogKeyType ==
  ASSUME NEW k \in LogKeys
  PROVE  k.resource \in Resource /\ k.resolution \in Nat /\ LogCapacity(k) \in Nat
<1>1. PICK i \in DOMAIN LogTypes : k = LogKey(LogTypes[i])
  BY DEF LogKeys
<1>2. k.resource \in Resource /\ k.resolution \in Nat
  BY <1>1, LogTypesAssumption DEF LogKey, LogType
<1>3. /\ Declarations(k) \in SUBSET Nat /\ Declarations(k) # {}
      /\ \A j \in Declarations(k) : j <= Len(LogTypes)
  BY <1>1, LogTypesAssumption DEF Declarations
<1>4. \E m \in Declarations(k) : \A j \in Declarations(k) : j <= m
  BY <1>3, LogTypesAssumption, GreatestNat
<1> DEFINE m == CHOOSE m \in Declarations(k) : \A j \in Declarations(k) : j <= m
<1>5. m \in Declarations(k)
  BY <1>4
<1>6. LogTypes[m] \in LogType
  BY <1>5, LogTypesAssumption DEF Declarations
<1>7. \A a \in Nat, c \in Nat : c > 0 => a \div c \in Nat
  OBVIOUS
<1>8. LogSize(LogTypes[m]) \in Nat
  BY <1>6, <1>7 DEF LogSize, LogType
<1> QED
  BY <1>2, <1>8 DEF LogCapacity

-----------------------------------------------------------------------------
(* Type correctness *)

States == UNION {Readings[r] : r \in Resource}

\* What processLogs stores: a mean of some samples.
LogEntries == {StateMean(w, n) : w \in Seq(States), n \in Nat}

LogsType == logs \in [LogKeys -> [buffer : Seq(LogEntries), capacity : Nat, since : Nat]]

TypeInv == TypeOK /\ LogsType

(* Every variable keeps its type: in particular no sample or log buffer    *)
(* outgrows its capacity, and a turn of processTriggers makes at most two  *)
(* calls.                                                                  *)
LEMMA InitType == Init => TypeInv
<1> SUFFICES ASSUME Init PROVE TypeInv
  OBVIOUS
<1> USE DEF Init
<1>1. Cardinality(Triggers) \in Nat
  BY TriggersAssumption, FS_CardinalityType
<1>2. order \in [Triggers -> Nat]
  BY <1>1
<1>3. samples \in [Resource -> Seq(States)] /\ \A r \in Resource : Len(samples[r]) <= SamplesCapacity(r)
  BY SamplesCapacityType, EmptySeq
<1>4. LogsType /\ \A k \in LogKeys : Len(logs[k].buffer) <= logs[k].capacity
  BY LogKeyType, EmptySeq DEF LogsType
<1>5. DOMAIN logs = LogKeys /\ \A k \in LogKeys : logs[k].capacity \in Nat /\ logs[k].since \in Nat
  BY <1>4 DEF LogsType
<1>6. calls \in Seq(Signals) /\ Len(calls) <= 2
  BY EmptySeq
<1> QED
  BY <1>2, <1>3, <1>4, <1>5, <1>6 DEF TypeInv, TypeOK, States

(* Sample extends the run of the triggers that hold and breaks the others. *)
LEMMA SampleHolding ==
  ASSUME Sample
  PROVE  \E holding \in SUBSET Triggers :
           /\ run' = [t \in Triggers |-> IF t \in holding THEN run[t] + 1 ELSE 0]
           /\ fires' = [t \in Triggers |-> IF t \in holding THEN fires[t] ELSE 0]
<1>1. PICK cpu \in Readings["CPU"], ram \in Readings["MEMORY"], hdd \in Readings["DISK"] :
        LET reading == [CPU |-> cpu, MEMORY |-> ram, DISK |-> hdd]
            holding == {t \in Triggers : UnitAsserted(t) /\ Exceeds(reading[t.resource], t)}
        IN  /\ run' = [t \in Triggers |-> IF t \in holding THEN run[t] + 1 ELSE 0]
            /\ fires' = [t \in Triggers |-> IF t \in holding THEN fires[t] ELSE 0]
  BY DEF Sample
<1> DEFINE reading == [CPU |-> cpu, MEMORY |-> ram, DISK |-> hdd]
           holding == {t \in Triggers : UnitAsserted(t) /\ Exceeds(reading[t.resource], t)}
<1>2. holding \in SUBSET Triggers
  OBVIOUS
<1> QED
  BY <1>1, <1>2

(* Sample keeps the types: its buffers get readings only.                  *)
LEMMA SampleType == TypeInv /\ Sample => TypeInv'
<1> SUFFICES ASSUME TypeInv, Sample PROVE TypeInv'
  OBVIOUS
<1> USE DEF TypeInv, TypeOK
<1>1. PICK cpu \in Readings["CPU"], ram \in Readings["MEMORY"], hdd \in Readings["DISK"] :
        samples' = Pushed([CPU |-> cpu, MEMORY |-> ram, DISK |-> hdd])
  BY DEF Sample
<1>2. PICK holding \in SUBSET Triggers :
        /\ run' = [t \in Triggers |-> IF t \in holding THEN run[t] + 1 ELSE 0]
        /\ fires' = [t \in Triggers |-> IF t \in holding THEN fires[t] ELSE 0]
  BY SampleHolding
<1>3. run' \in [Triggers -> Nat] /\ fires' \in [Triggers -> Nat]
  BY <1>2
<1>4. ASSUME NEW r \in Resource
      PROVE  /\ samples'[r] \in Seq(States)
             /\ Len(samples'[r]) <= SamplesCapacity(r)
  <2> DEFINE x == [CPU |-> cpu, MEMORY |-> ram, DISK |-> hdd][r]
  <2>1. x \in States
    BY DEF States, Resource
  <2>2. samples[r] \in Seq(States) /\ Len(samples[r]) <= SamplesCapacity(r)
    BY DEF States
  <2>3. samples'[r] = PushBack(samples[r], SamplesCapacity(r), x)
    BY <1>1 DEF Pushed
  <2>4. SamplesCapacity(r) \in Nat /\ Len(samples[r]) \in Nat
    BY SamplesCapacityType, <2>2, LenProperties
  <2> HIDE DEF x
  <2> QED
    BY <2>1, <2>2, <2>3, <2>4, PushBackType
<1>5. samples' \in [Resource -> Seq(States)]
  BY <1>1, <1>4 DEF Pushed
<1>6. LogsType' /\ UNCHANGED <<logs, calls, order, isSampling, owner, process, triggerStates, sampleNumber,
                          selfStopped>>
  BY DEF Sample, LogsType
<1>7. poller' = "triggers" /\ pending' = Triggers /\ polls' \in Nat
  BY DEF Sample
<1> QED
  BY <1>2, <1>3, <1>4, <1>5, <1>6, <1>7 DEF States

(* ProcessTrigger keeps the types.                                         *)
LEMMA ProcessTriggerType ==
  ASSUME NEW t \in Triggers, TypeInv, ProcessTrigger(t) PROVE TypeInv'
<1> USE DEF TypeInv, TypeOK
<1>1. t.duration \in Nat
  BY TriggersAssumption DEF TriggerType
<1> DEFINE exceeds == Exceeds(Last(samples[t.resource]), t)
           count == Counted(triggerStates[t], exceeds)
           deactivate == ~exceeds /\ triggerStates[t] >= t.duration
           activate == count = t.duration
<1>2. count \in Nat
  BY DEF Counted
<1>3. /\ triggerStates' = [triggerStates EXCEPT ![t] = Rearmed(count, t.duration)]
      /\ fires' = [fires EXCEPT ![t] = IF activate THEN @ + 1 ELSE @]
      /\ calls' = (IF deactivate THEN <<[trigger |-> t, signal |-> "deactivate"]>> ELSE <<>>)
                  \o (IF activate THEN <<[trigger |-> t, signal |-> "activate"]>> ELSE <<>>)
  BY DEF ProcessTrigger
<1> HIDE DEF exceeds, count, deactivate, activate
<1>4. triggerStates' \in [Triggers -> Nat] /\ fires' \in [Triggers -> Nat]
  BY <1>2, <1>3 DEF Rearmed
<1>5. calls' \in Seq(Signals) /\ Len(calls') <= 2
  <2> DEFINE d == [trigger |-> t, signal |-> "deactivate"]
             a == [trigger |-> t, signal |-> "activate"]
  <2>1. d \in Signals /\ a \in Signals
    BY DEF Signals
  <2> DEFINE p == IF deactivate THEN <<d>> ELSE <<>>
             q == IF activate THEN <<a>> ELSE <<>>
  <2>2. calls' = p \o q
    BY <1>3
  <2> HIDE DEF d, a
  <2>3. p \in Seq(Signals) /\ Len(p) <= 1 /\ q \in Seq(Signals) /\ Len(q) <= 1
    BY <2>1
  <2> HIDE DEF p, q
  <2> QED
    BY <2>2, <2>3, ConcatProperties, LenProperties
<1>6. LogsType' /\ pending' \in SUBSET Triggers
  BY DEF ProcessTrigger, LogsType
<1> QED
  BY <1>4, <1>5, <1>6 DEF ProcessTrigger, threadVars

(* ProcessLogs keeps the types: due logs get means of a full window.       *)
LEMMA ProcessLogsType == TypeInv /\ ProcessLogs => TypeInv'
<1> SUFFICES ASSUME TypeInv, ProcessLogs PROVE TypeInv'
  OBVIOUS
<1> USE DEF TypeInv, TypeOK
<1>1. ASSUME NEW k \in LogKeys
      PROVE  /\ logs'[k] \in [buffer : Seq(LogEntries), capacity : Nat, since : Nat]
             /\ Len(logs'[k].buffer) <= logs'[k].capacity
  <2> DEFINE x == StateMean(samples[k.resource], k.resolution)
             l == logs[k]
             b == PushBack(l.buffer, l.capacity, x)
  <2>1. x \in LogEntries
    <3>1. k.resource \in Resource /\ k.resolution \in Nat
      BY LogKeyType
    <3>2. samples[k.resource] \in Seq(States)
      BY <3>1 DEF States
    <3> QED
      BY <3>1, <3>2 DEF LogEntries
  <2>2. /\ logs[k] \in [buffer : Seq(LogEntries), capacity : Nat, since : Nat]
        /\ Len(logs[k].buffer) <= logs[k].capacity
    BY DEF LogsType
  <2>3. \/ logs'[k] = [logs[k] EXCEPT !.buffer = PushBack(@, logs[k].capacity, x), !.since = 0]
        \/ logs'[k] = [logs[k] EXCEPT !.since = @ + 1]
    BY DEF ProcessLogs
  <2> HIDE DEF x
  <2>4. b \in Seq(LogEntries) /\ Len(b) <= l.capacity
    <3>1. logs[k].buffer \in Seq(LogEntries) /\ logs[k].capacity \in Nat /\ Len(logs[k].buffer) \in Nat
      BY <2>2, LenProperties
    <3> QED
      BY <3>1, <2>1, <2>2, PushBackType
  <2>5. CASE logs'[k] = [l EXCEPT !.buffer = PushBack(@, l.capacity, x), !.since = 0]
    <3>1. logs'[k] = [buffer |-> b, capacity |-> l.capacity, since |-> 0]
      BY <2>2, <2>5
    <3> HIDE DEF b
    <3> QED
      BY <3>1, <2>2, <2>4
  <2>6. CASE logs'[k] = [l EXCEPT !.since = @ + 1]
    <3>1. logs'[k] = [buffer |-> l.buffer, capacity |-> l.capacity, since |-> l.since + 1]
      BY <2>2, <2>6
    <3> QED
      BY <3>1, <2>2
  <2> QED
    BY <2>3, <2>5, <2>6
<1>2. LogsType'
  BY <1>1 DEF ProcessLogs, LogsType
<1>3. DOMAIN logs' = LogKeys /\ \A k \in LogKeys : logs'[k].capacity \in Nat /\ logs'[k].since \in Nat
  BY <1>2 DEF LogsType
<1> QED
  BY <1>1, <1>2, <1>3 DEF ProcessLogs, triggerVars

(* Every step of the poller and of the owner keeps the types.              *)
LEMMA StepType == TypeInv /\ [Next]_vars => TypeInv'
<1> SUFFICES ASSUME TypeInv, [Next]_vars PROVE TypeInv'
  OBVIOUS
<1>1. ASSUME UNCHANGED logs PROVE LogsType'
  BY <1>1 DEF TypeInv, LogsType
<1> USE DEF TypeInv, TypeOK, threadVars, triggerVars, dataVars
<1>2. CASE Sample
  BY <1>2, SampleType
<1>3. CASE LeaveLoop
  BY <1>3, <1>1 DEF LeaveLoop
<1>4. CASE CallReturns
  <2>1. Tail(calls) \in Seq(Signals) /\ Len(Tail(calls)) <= 2
    BY <1>4, HeadTailProperties, LenProperties DEF CallReturns
  <2> QED
    BY <2>1, <1>4, <1>1 DEF CallReturns
<1>5. CASE ProcessLogs
  BY <1>5, ProcessLogsType
<1>6. CASE AfterPoll
  <2>1. isSampling' \in BOOLEAN
    BY <1>6, Zenon DEF AfterPoll
  <2>2. sampleNumber' \in Nat
    BY <1>6 DEF AfterPoll
  <2> QED
    BY <2>1, <2>2, <1>6, <1>1 DEF AfterPoll
<1>7. CASE BreakOrSleep
  BY <1>7, <1>1 DEF BreakOrSleep
<1>8. CASE PollerReturns
  BY <1>8, <1>1 DEF PollerReturns
<1>9. ASSUME NEW t \in Triggers, ProcessTrigger(t) PROVE TypeInv'
  BY <1>9, ProcessTriggerType
<1>10. ASSUME NEW t \in Triggers, AbortOnUnit(t) PROVE TypeInv'
  BY <1>10, <1>1 DEF AbortOnUnit
<1>11. CASE StartSampling
  <2>1. /\ poller' \in {"none", "while", "triggers", "callback", "check", "exit", "finished"}
        /\ process' \in {"running", "aborted", "terminated"}
        /\ sampleNumber' \in Nat
    BY <1>11 DEF StartSampling
  <2> QED
    BY <2>1, <1>11, <1>1 DEF StartSampling
<1>12. CASE StopSampling
  BY <1>12, <1>1 DEF StopSampling
<1>13. CASE WaitForEndOfSampling
  BY <1>13, <1>1 DEF WaitForEndOfSampling
<1>14. CASE JoinReturns
  BY <1>14, <1>1 DEF JoinReturns
<1>15. CASE Destroy
  BY <1>15, <1>1 DEF Destroy
<1>16. CASE UNCHANGED vars
  BY <1>16, <1>1 DEF vars
<1> QED
  BY <1>2, <1>3, <1>4, <1>5, <1>6, <1>7, <1>8, <1>9, <1>10, <1>11, <1>12,
     <1>13, <1>14, <1>15, <1>16 DEF Next, Poller, Owner

(* In every behaviour every variable keeps the type of the member it       *)
(* models: buffers stay within the capacities computed from the logs.      *)
THEOREM TypeCorrect == Spec => []TypeOK
<1>1. TypeInv => TypeOK
  BY DEF TypeInv
<1> QED
  BY InitType, StepType, <1>1, PTL DEF Spec

-----------------------------------------------------------------------------
(* Activations *)

\* What a trigger the loop has not visited yet will find.
LatestInv ==
  \A t \in pending : UnitAsserted(t) =>
    (Exceeds(Last(samples[t.resource]), t) <=> run[t] > 0)

\* A broken run has no activations.
UnfiredInv == \A t \in Triggers : t.duration > 0 /\ run[t] = 0 => fires[t] = 0

VisitInv == pending # {} => poller = "triggers"

RunInv == ActivationsPerRun /\ LatestInv /\ UnfiredInv /\ VisitInv

(* Before the first poll no sample has exceeded anything.                  *)
LEMMA InitRun == Init => RunInv
BY TriggersAssumption DEF Init, RunInv, ActivationsPerRun, LatestInv, UnfiredInv,
                          VisitInv, TriggerType

(* Sample counts the exceeding samples of each trigger.                    *)
LEMMA SampleRun == TypeInv /\ RunInv /\ Sample => RunInv'
<1> SUFFICES ASSUME TypeInv, RunInv, Sample PROVE RunInv'
  OBVIOUS
<1>1. PICK cpu \in Readings["CPU"], ram \in Readings["MEMORY"], hdd \in Readings["DISK"] :
        LET reading == [CPU |-> cpu, MEMORY |-> ram, DISK |-> hdd]
            holding == {t \in Triggers : UnitAsserted(t) /\ Exceeds(reading[t.resource], t)}
        IN  /\ samples' = Pushed(reading)
            /\ run' = [t \in Triggers |-> IF t \in holding THEN run[t] + 1 ELSE 0]
            /\ fires' = [t \in Triggers |-> IF t \in holding THEN fires[t] ELSE 0]
  BY DEF Sample
<1> DEFINE reading == [CPU |-> cpu, MEMORY |-> ram, DISK |-> hdd]
           holding == {t \in Triggers : UnitAsserted(t) /\ Exceeds(reading[t.resource], t)}
<1>2. /\ pending = {} /\ pending' = Triggers /\ poller' = "triggers"
      /\ triggerStates' = triggerStates
  BY DEF Sample, RunInv, VisitInv
<1>3. \A t \in Triggers : t.resource \in Resource /\ t.duration \in Nat
  BY TriggersAssumption DEF TriggerType
<1>4. \A t \in Triggers : run[t] \in Nat /\ fires[t] \in Nat /\ triggerStates[t] \in Nat
  BY DEF TypeInv, TypeOK
<1>5. \A r \in Resource : Last(samples'[r]) = reading[r]
  <2> TAKE r \in Resource
  <2>1. reading[r] \in States
    BY DEF States, Resource
  <2>2. samples[r] \in Seq(States) /\ Len(samples[r]) <= SamplesCapacity(r)
    BY DEF States, TypeInv, TypeOK
  <2>3. samples'[r] = PushBack(samples[r], SamplesCapacity(r), reading[r])
    BY <1>1 DEF Pushed
  <2> HIDE DEF reading
  <2> QED
    BY <2>1, <2>2, <2>3, SamplesCapacityType, LastPushBack
<1> HIDE DEF reading
<1>6. /\ \A t \in Triggers : t \in holding => run'[t] = run[t] + 1 /\ fires'[t] = fires[t]
      /\ \A t \in Triggers : t \notin holding => run'[t] = 0 /\ fires'[t] = 0
  BY <1>1 DEF reading
<1>7. LatestInv'
  <2> SUFFICES ASSUME NEW t \in Triggers, UnitAsserted(t)
               PROVE  Exceeds(Last(samples'[t.resource]), t) <=> run'[t] > 0
    BY <1>2 DEF LatestInv
  <2>1. Last(samples'[t.resource]) = reading[t.resource]
    BY <1>3, <1>5
  <2>2. t \in holding <=> Exceeds(reading[t.resource], t)
    OBVIOUS
  <2> HIDE DEF holding
  <2> QED
    BY <2>1, <2>2, <1>4, <1>6
<1> HIDE DEF holding
<1>8. ActivationsPerRun'
  <2> SUFFICES ASSUME NEW t \in Triggers, t.duration > 0
               PROVE  /\ triggerStates[t] < t.duration
                      /\ run'[t] > 0 => run'[t] = t.duration * fires'[t] + triggerStates[t] + 1
    BY <1>2 DEF ActivationsPerRun
  <2>1. triggerStates[t] < t.duration /\ run[t] = t.duration * fires[t] + triggerStates[t]
    BY <1>2 DEF RunInv, ActivationsPerRun
  <2> QED
    BY <2>1, <1>3, <1>4, <1>6
<1>9. UnfiredInv'
  BY <1>4, <1>6 DEF UnfiredInv
<1> QED
  BY <1>2, <1>7, <1>8, <1>9 DEF RunInv, VisitInv

(* The counter of processTriggers agrees with the run of samples.          *)
LEMMA ProcessTriggerRun ==
  ASSUME NEW t \in Triggers, TypeInv, RunInv, ProcessTrigger(t) PROVE RunInv'
<1> DEFINE exceeds == Exceeds(Last(samples[t.resource]), t)
           count == Counted(triggerStates[t], exceeds)
           activate == count = t.duration
<1>1. /\ t \in pending /\ UnitAsserted(t) /\ poller' = poller /\ poller = "triggers"
      /\ pending' = pending \ {t} /\ samples' = samples /\ run' = run
      /\ triggerStates' = [triggerStates EXCEPT ![t] = Rearmed(count, t.duration)]
      /\ fires' = [fires EXCEPT ![t] = IF activate THEN @ + 1 ELSE @]
  BY DEF ProcessTrigger, NextInOrder, threadVars
<1>2. \A u \in Triggers : u.duration \in Nat
  BY TriggersAssumption DEF TriggerType
<1>3. /\ \A u \in Triggers : run[u] \in Nat /\ fires[u] \in Nat /\ triggerStates[u] \in Nat
      /\ DOMAIN triggerStates = Triggers /\ DOMAIN fires = Triggers
  BY DEF TypeInv, TypeOK
<1>4. exceeds <=> run[t] > 0
  BY <1>1 DEF RunInv, LatestInv
<1>5. count = IF run[t] > 0 THEN triggerStates[t] + 1 ELSE 0
  BY <1>4 DEF Counted
<1> HIDE DEF exceeds, count
<1>6. ASSUME t.duration > 0
      PROVE  /\ triggerStates'[t] < t.duration
             /\ run[t] = t.duration * fires'[t] + triggerStates'[t]
             /\ run[t] = 0 => fires'[t] = 0
  <2>1. triggerStates[t] < t.duration
    BY <1>6 DEF RunInv, ActivationsPerRun
  <2>2. CASE run[t] = 0
    <3>1. fires[t] = 0
      BY <2>2, <1>6 DEF RunInv, UnfiredInv
    <3>2. triggerStates'[t] = 0 /\ fires'[t] = 0
      BY <3>1, <2>2, <1>1, <1>2, <1>3, <1>5, <1>6 DEF Rearmed
    <3> QED
      BY <3>2, <2>2, <1>2, <1>6
  <2>3. CASE run[t] > 0
    <3>1. run[t] = t.duration * fires[t] + triggerStates[t] + 1
      BY <2>3, <1>1, <1>6 DEF RunInv, ActivationsPerRun
    <3>2. CASE triggerStates[t] + 1 = t.duration
      <4>1. triggerStates'[t] = 0 /\ fires'[t] = fires[t] + 1
        BY <3>2, <2>3, <1>1, <1>3, <1>5 DEF Rearmed
      <4>2. t.duration * (fires[t] + 1) = t.duration * fires[t] + t.duration
        BY <1>2, <1>3
      <4> QED
        BY <4>1, <4>2, <3>1, <3>2, <2>3, <1>2, <1>3, <1>6
    <3>3. CASE triggerStates[t] + 1 # t.duration
      <4>1. triggerStates'[t] = triggerStates[t] + 1 /\ fires'[t] = fires[t]
        BY <3>3, <2>3, <1>1, <1>3, <1>5 DEF Rearmed
      <4> QED
        BY <4>1, <3>1, <3>3, <2>1, <2>3, <1>2, <1>3
    <3> QED
      BY <3>2, <3>3
  <2> QED
    BY <2>2, <2>3, <1>3
<1>7. \A u \in Triggers \ {t} : triggerStates'[u] = triggerStates[u] /\ fires'[u] = fires[u]
  BY <1>1, <1>3
<1>8. ActivationsPerRun'
  <2> SUFFICES ASSUME NEW u \in Triggers, u.duration > 0
               PROVE  /\ triggerStates'[u] < u.duration
                      /\ u \notin pending' => run'[u] = u.duration * fires'[u] + triggerStates'[u]
                      /\ u \in pending' /\ run'[u] > 0 =>
                           run'[u] = u.duration * fires'[u] + triggerStates'[u] + 1
    BY DEF ActivationsPerRun
  <2>1. CASE u = t
    BY <2>1, <1>1, <1>6
  <2>2. CASE u # t
    BY <2>2, <1>1, <1>7 DEF RunInv, ActivationsPerRun
  <2> QED
    BY <2>1, <2>2
<1>9. UnfiredInv'
  BY <1>1, <1>6, <1>7 DEF RunInv, UnfiredInv
<1>10. LatestInv' /\ VisitInv'
  BY <1>1 DEF RunInv, LatestInv, VisitInv
<1> QED
  BY <1>8, <1>9, <1>10 DEF RunInv

(* Every step keeps counters and runs in agreement.                        *)
LEMMA StepRun == TypeInv /\ RunInv /\ [Next]_vars => RunInv'
<1> SUFFICES ASSUME TypeInv, RunInv, [Next]_vars PROVE RunInv'
  OBVIOUS
<1>1. ASSUME UNCHANGED <<triggerStates, pending, samples, run, fires>>,
             pending = {} \/ poller' = poller
      PROVE  RunInv'
  BY <1>1 DEF RunInv, ActivationsPerRun, LatestInv, UnfiredInv, VisitInv
<1>2. CASE Sample
  BY <1>2, SampleRun
<1>3. ASSUME NEW t \in Triggers, ProcessTrigger(t) PROVE RunInv'
  BY <1>3, ProcessTriggerRun
<1>4. ASSUME poller # "triggers" PROVE pending = {}
  BY <1>4 DEF RunInv, VisitInv
<1> USE DEF threadVars, triggerVars, dataVars
<1>5. CASE LeaveLoop
  BY <1>5, <1>1, <1>4 DEF LeaveLoop
<1>6. CASE CallReturns
  BY <1>6, <1>1 DEF CallReturns
<1>7. CASE ProcessLogs
  BY <1>7, <1>1 DEF ProcessLogs
<1>8. CASE AfterPoll
  BY <1>8, <1>1, <1>4 DEF AfterPoll
<1>9. CASE BreakOrSleep
  BY <1>9, <1>1, <1>4 DEF BreakOrSleep
<1>10. CASE PollerReturns
  BY <1>10, <1>1, <1>4 DEF PollerReturns
<1>11. ASSUME NEW t \in Triggers, AbortOnUnit(t) PROVE RunInv'
  BY <1>11, <1>1 DEF AbortOnUnit
<1>12. CASE StartSampling
  BY <1>12, <1>1, <1>4 DEF StartSampling
<1>13. CASE StopSampling
  BY <1>13, <1>1 DEF StopSampling
<1>14. CASE WaitForEndOfSampling
  BY <1>14, <1>1 DEF WaitForEndOfSampling
<1>15. CASE JoinReturns
  BY <1>15, <1>1, <1>4 DEF JoinReturns
<1>16. CASE Destroy
  BY <1>16, <1>1 DEF Destroy
<1>17. CASE UNCHANGED vars
  BY <1>17, <1>1 DEF vars
<1> QED
  BY <1>2, <1>3, <1>5, <1>6, <1>7, <1>8, <1>9, <1>10, <1>11, <1>12, <1>13,
     <1>14, <1>15, <1>16, <1>17 DEF Next, Poller, Owner

(* processTriggers activates a trigger of positive duration exactly once    *)
(* per `duration` consecutive exceeding samples, in every iteration order   *)
(* of the map and across stops and restarts.                                *)
THEOREM ActivationsCorrect == Spec => []ActivationsPerRun
<1>1. RunInv => ActivationsPerRun
  BY DEF RunInv
<1> QED
  BY InitType, StepType, InitRun, StepRun, <1>1, PTL DEF Spec

-----------------------------------------------------------------------------
(* The life of the poller thread *)

(* Until a subclass stops the sampling by itself, the thread is joinable    *)
(* only while isSampling is set or the owner is waiting for it, so the      *)
(* early return of stopSampling never skips a join that is needed.          *)
LifeInv ==
  ~selfStopped =>
    /\ process # "terminated"
    /\ isSampling => poller \notin {"none", "exit", "finished"} /\ owner \in {"idle", "joining"}
    /\ ~isSampling /\ poller # "none" => owner \in {"joining", "destroying"}

(* At first there is no thread.                                            *)
LEMMA InitLife == Init => LifeInv
BY DEF Init, LifeInv

(* Every step keeps a joinable thread sampling or being joined.            *)
LEMMA StepLife == TypeInv /\ LifeInv /\ [Next]_vars => LifeInv'
<1> SUFFICES ASSUME TypeInv, LifeInv, [Next]_vars PROVE LifeInv'
  OBVIOUS
<1>0. isSampling \in BOOLEAN
  BY DEF TypeInv, TypeOK
<1> USE DEF LifeInv, threadVars, dataVars
<1>1. CASE Sample
  BY <1>1 DEF Sample
<1>2. CASE LeaveLoop
  BY <1>2 DEF LeaveLoop
<1>3. CASE CallReturns
  BY <1>3 DEF CallReturns
<1>4. CASE ProcessLogs
  BY <1>4 DEF ProcessLogs
<1>5. CASE AfterPoll
  BY <1>5 DEF AfterPoll
<1>6. CASE BreakOrSleep
  BY <1>6 DEF BreakOrSleep
<1>7. CASE PollerReturns
  BY <1>7, <1>0 DEF PollerReturns
<1>8. ASSUME NEW t \in Triggers, ProcessTrigger(t) PROVE LifeInv'
  BY <1>8 DEF ProcessTrigger
<1>9. ASSUME NEW t \in Triggers, AbortOnUnit(t) PROVE LifeInv'
  BY <1>9 DEF AbortOnUnit
<1>10. CASE StartSampling
  BY <1>10 DEF StartSampling
<1>11. CASE StopSampling
  BY <1>11 DEF StopSampling
<1>12. CASE WaitForEndOfSampling
  BY <1>12 DEF WaitForEndOfSampling
<1>13. CASE JoinReturns
  BY <1>13, <1>0 DEF JoinReturns
<1>14. CASE Destroy
  BY <1>14, <1>0 DEF Destroy
<1>15. CASE UNCHANGED vars
  BY <1>15 DEF vars
<1> QED
  BY <1>1, <1>2, <1>3, <1>4, <1>5, <1>6, <1>7, <1>8, <1>9, <1>10, <1>11,
     <1>12, <1>13, <1>14, <1>15 DEF Next, Poller, Owner

(* In the class itself no order of startSampling, stopSampling and          *)
(* destruction reaches std::terminate through a joinable thread.            *)
THEOREM NoTerminateHolds == Spec => []NoTerminate
<1>1. LifeInv => NoTerminate
  BY DEF LifeInv, NoTerminate
<1> QED
  BY InitType, StepType, InitLife, StepLife, <1>1, PTL DEF Spec

-----------------------------------------------------------------------------
(* Logs *)

\* Polls the logs have seen.
Done == IF poller = "triggers" THEN polls - 1 ELSE polls

WindowInv ==
  /\ poller = "triggers" => polls > 0
  /\ \A k \in LogKeys : logs[k].since <= Done
  /\ \A r \in Resource :
       Len(samples[r]) = IF polls < SamplesCapacity(r) THEN polls ELSE SamplesCapacity(r)

(* The buffers start out empty.                                            *)
LEMMA InitWindow == Init => WindowInv
<1> SUFFICES ASSUME Init PROVE WindowInv
  OBVIOUS
<1>1. \A r \in Resource : SamplesCapacity(r) \in Nat \ {0}
  BY SamplesCapacityType
<1> QED
  BY <1>1 DEF Init, WindowInv, Done

(* Sample adds one reading to each buffer, up to its capacity.             *)
LEMMA SampleWindow == TypeInv /\ WindowInv /\ Sample => WindowInv'
<1> SUFFICES ASSUME TypeInv, WindowInv, Sample PROVE WindowInv'
  OBVIOUS
<1>1. PICK cpu \in Readings["CPU"], ram \in Readings["MEMORY"], hdd \in Readings["DISK"] :
        samples' = Pushed([CPU |-> cpu, MEMORY |-> ram, DISK |-> hdd])
  BY DEF Sample
<1>2. polls' = polls + 1 /\ poller' = "triggers" /\ logs' = logs /\ polls \in Nat /\ poller = "while"
  BY DEF Sample, TypeInv, TypeOK
<1>3. ASSUME NEW r \in Resource
      PROVE  Len(samples'[r]) = IF polls' < SamplesCapacity(r) THEN polls' ELSE SamplesCapacity(r)
  <2> DEFINE x == [CPU |-> cpu, MEMORY |-> ram, DISK |-> hdd][r]
  <2>1. x \in States
    BY DEF States, Resource
  <2>2. /\ samples[r] \in Seq(States)
        /\ Len(samples[r]) = IF polls < SamplesCapacity(r) THEN polls ELSE SamplesCapacity(r)
    BY DEF States, TypeInv, TypeOK, WindowInv
  <2>3. samples'[r] = PushBack(samples[r], SamplesCapacity(r), x)
    BY <1>1 DEF Pushed
  <2>4. SamplesCapacity(r) \in Nat
    BY SamplesCapacityType
  <2> HIDE DEF x
  <2>5. Len(samples'[r]) = IF Len(samples[r]) < SamplesCapacity(r)
                           THEN Len(samples[r]) + 1 ELSE Len(samples[r])
    <3>1. Len(samples[r]) <= SamplesCapacity(r)
      BY <2>2, <2>4, <1>2
    <3> QED
      BY <3>1, <2>1, <2>2, <2>3, <2>4, PushBackType
  <2> QED
    BY <2>2, <2>4, <2>5, <1>2
<1> QED
  BY <1>2, <1>3 DEF WindowInv, Done

(* ProcessLogs leaves the sample buffers alone.                            *)
LEMMA ProcessLogsWindow == TypeInv /\ WindowInv /\ ProcessLogs => WindowInv'
<1> SUFFICES ASSUME TypeInv, WindowInv, ProcessLogs PROVE WindowInv'
  OBVIOUS
<1>1. /\ poller = "triggers" /\ poller' = "callback" /\ polls' = polls /\ samples' = samples
      /\ polls \in Nat /\ polls > 0
  BY DEF ProcessLogs, TypeInv, TypeOK, WindowInv
<1>2. ASSUME NEW k \in LogKeys PROVE logs'[k].since <= polls
  <2>1. /\ logs[k] \in [buffer : Seq(LogEntries), capacity : Nat, since : Nat]
        /\ logs[k].since <= polls - 1
    BY <1>1 DEF TypeInv, LogsType, WindowInv, Done
  <2>2. \/ logs'[k].since = 0
        \/ logs'[k].since = logs[k].since + 1
    BY <2>1 DEF ProcessLogs
  <2> QED
    BY <2>1, <2>2, <1>1
<1> QED
  BY <1>1, <1>2 DEF WindowInv, Done

(* Every step keeps the length of the buffers a function of the polls.     *)
LEMMA StepWindow == TypeInv /\ WindowInv /\ [Next]_vars => WindowInv'
<1> SUFFICES ASSUME TypeInv, WindowInv, [Next]_vars PROVE WindowInv'
  OBVIOUS
<1>1. ASSUME UNCHANGED <<samples, logs, polls>>,
             poller' = "triggers" <=> poller = "triggers"
      PROVE  WindowInv'
  BY <1>1 DEF WindowInv, Done
<1> USE DEF threadVars, triggerVars, dataVars
<1>2. CASE Sample
  BY <1>2, SampleWindow
<1>3. CASE LeaveLoop
  BY <1>3, <1>1 DEF LeaveLoop
<1>4. CASE CallReturns
  BY <1>4, <1>1 DEF CallReturns
<1>5. CASE ProcessLogs
  BY <1>5, ProcessLogsWindow
<1>6. CASE AfterPoll
  BY <1>6, <1>1 DEF AfterPoll
<1>7. CASE BreakOrSleep
  BY <1>7, <1>1 DEF BreakOrSleep
<1>8. CASE PollerReturns
  BY <1>8, <1>1 DEF PollerReturns
<1>9. ASSUME NEW t \in Triggers, ProcessTrigger(t) PROVE WindowInv'
  BY <1>9, <1>1 DEF ProcessTrigger
<1>10. ASSUME NEW t \in Triggers, AbortOnUnit(t) PROVE WindowInv'
  BY <1>10, <1>1 DEF AbortOnUnit
<1>11. CASE StartSampling
  BY <1>11, <1>1 DEF StartSampling
<1>12. CASE StopSampling
  BY <1>12, <1>1 DEF StopSampling
<1>13. CASE WaitForEndOfSampling
  BY <1>13, <1>1 DEF WaitForEndOfSampling
<1>14. CASE JoinReturns
  BY <1>14, <1>1 DEF JoinReturns
<1>15. CASE Destroy
  BY <1>15, <1>1 DEF Destroy
<1>16. CASE UNCHANGED vars
  BY <1>16, <1>1 DEF vars
<1> QED
  BY <1>2, <1>3, <1>4, <1>5, <1>6, <1>7, <1>8, <1>9, <1>10, <1>11, <1>12,
     <1>13, <1>14, <1>15, <1>16 DEF Next, Poller, Owner

(* Whenever processLogs is about to store an entry, the sample buffer of    *)
(* the resource holds a whole window of `resolution` samples, for every     *)
(* combination of logs that share it.                                       *)
THEOREM WindowFullHolds == Spec => []WindowFull
<1>1. TypeInv /\ WindowInv => WindowFull
  <2> SUFFICES ASSUME TypeInv, WindowInv, poller = "triggers", NEW k \in LogKeys,
                      LogDue(logs[k].since, k.resolution)
               PROVE  Len(samples[k.resource]) >= Period(k)
    BY DEF WindowFull
  <2>1. k.resource \in Resource /\ k.resolution \in Nat
    BY LogKeyType
  <2>2. /\ SamplesCapacity(k.resource) \in Nat \ {0}
        /\ k.resolution <= SamplesCapacity(k.resource)
    BY <2>1, SamplesCapacityType
  <2>3. /\ polls \in Nat /\ polls > 0 /\ logs[k].since \in Nat /\ logs[k].since <= polls - 1
        /\ Len(samples[k.resource]) = IF polls < SamplesCapacity(k.resource)
                                      THEN polls ELSE SamplesCapacity(k.resource)
    BY <2>1 DEF TypeInv, TypeOK, WindowInv, Done
  <2>4. polls >= k.resolution
    BY <2>1, <2>3 DEF LogDue
  <2> QED
    BY <2>1, <2>2, <2>3, <2>4 DEF Period
<1> QED
  BY InitType, StepType, InitWindow, StepWindow, <1>1, PTL DEF Spec

(* No log is due before the first poll.                                    *)
LEMMA InitCadence == Init => LogCadence
<1> SUFFICES ASSUME Init, NEW k \in LogKeys
             PROVE  /\ logs[k].since = 0 % Period(k)
                    /\ Len(logs[k].buffer) = IF 0 \div Period(k) < logs[k].capacity
                                             THEN 0 \div Period(k) ELSE logs[k].capacity
  BY DEF Init, LogCadence
<1>1. k.resolution \in Nat /\ LogCapacity(k) \in Nat
  BY LogKeyType
<1>2. Period(k) \in Nat /\ Period(k) > 0
  BY <1>1 DEF Period
<1>3. 0 % Period(k) = 0 /\ 0 \div Period(k) = 0
  BY <1>2
<1>4. logs[k] = [buffer |-> <<>>, capacity |-> LogCapacity(k), since |-> 0]
  BY DEF Init
<1> QED
  BY <1>1, <1>3, <1>4

(* ProcessLogs writes a log once in as many polls as its resolution.       *)
LEMMA ProcessLogsCadence == TypeInv /\ WindowInv /\ LogCadence /\ ProcessLogs => LogCadence'
<1> SUFFICES ASSUME TypeInv, WindowInv, LogCadence, ProcessLogs PROVE LogCadence'
  OBVIOUS
<1>1. /\ poller = "triggers" /\ poller' = "callback" /\ polls' = polls
      /\ polls \in Nat /\ polls > 0
  BY DEF ProcessLogs, TypeInv, TypeOK, WindowInv
<1> SUFFICES ASSUME NEW k \in LogKeys
             PROVE  /\ logs'[k].since = polls % Period(k)
                    /\ Len(logs'[k].buffer) = IF polls \div Period(k) < logs'[k].capacity
                                              THEN polls \div Period(k) ELSE logs'[k].capacity
  BY <1>1 DEF LogCadence
<1> DEFINE p == Period(k)
           n == polls - 1
           l == logs[k]
           x == StateMean(samples[k.resource], k.resolution)
           b == PushBack(l.buffer, l.capacity, x)
<1>2. k.resource \in Resource /\ k.resolution \in Nat /\ p \in Nat /\ p > 0
  BY LogKeyType DEF Period
<1>3. /\ l \in [buffer : Seq(LogEntries), capacity : Nat, since : Nat]
      /\ Len(l.buffer) <= l.capacity
  BY DEF TypeInv, TypeOK, LogsType
<1>4. /\ l.since = n % p
      /\ Len(l.buffer) = IF n \div p < l.capacity THEN n \div p ELSE l.capacity
  BY <1>1 DEF LogCadence
<1>5. n \in Nat /\ n + 1 = polls
  BY <1>1
<1>6. x \in LogEntries
  <2>1. samples[k.resource] \in Seq(States)
    BY <1>2 DEF States, TypeInv, TypeOK
  <2> QED
    BY <2>1, <1>2 DEF LogEntries
<1>7. LogDue(l.since, k.resolution) <=> l.since + 1 >= p
  BY <1>2, <1>3 DEF LogDue, Period
<1>8. /\ LogDue(l.since, k.resolution) =>
            logs'[k] = [l EXCEPT !.buffer = PushBack(@, l.capacity, x), !.since = 0]
      /\ ~LogDue(l.since, k.resolution) => logs'[k] = [l EXCEPT !.since = @ + 1]
  BY DEF ProcessLogs
<1> HIDE DEF p, n, l, x
<1>9. /\ n \div p \in Nat /\ n % p \in Nat
      /\ (n % p) + 1 >= p => polls % p = 0 /\ polls \div p = (n \div p) + 1
      /\ (n % p) + 1 < p => polls % p = (n % p) + 1 /\ polls \div p = n \div p
  BY <1>2, <1>5, DivSuccessor
<1>10. CASE LogDue(l.since, k.resolution)
  <2>1. logs'[k] = [buffer |-> b, capacity |-> l.capacity, since |-> 0]
    BY <1>3, <1>8, <1>10
  <2>2. Len(b) = IF Len(l.buffer) < l.capacity THEN Len(l.buffer) + 1 ELSE Len(l.buffer)
    BY <1>3, <1>6, PushBackType
  <2>3. polls % p = 0 /\ polls \div p = (n \div p) + 1
    BY <1>4, <1>7, <1>9, <1>10
  <2> HIDE DEF b
  <2>4. Len(b) = IF polls \div p < l.capacity THEN polls \div p ELSE l.capacity
    BY <2>2, <2>3, <1>3, <1>4, <1>9
  <2> QED
    BY <2>1, <2>3, <2>4 DEF p
<1>11. CASE ~LogDue(l.since, k.resolution)
  <2>1. logs'[k] = [buffer |-> l.buffer, capacity |-> l.capacity, since |-> l.since + 1]
    BY <1>3, <1>8, <1>11
  <2>2. polls % p = (n % p) + 1 /\ polls \div p = n \div p
    BY <1>2, <1>3, <1>4, <1>7, <1>9, <1>11
  <2> QED
    BY <2>1, <2>2, <1>4 DEF p
<1> QED
  BY <1>10, <1>11

(* Every step keeps the cadence of the logs.                               *)
LEMMA StepCadence == TypeInv /\ WindowInv /\ LogCadence /\ [Next]_vars => LogCadence'
<1> SUFFICES ASSUME TypeInv, WindowInv, LogCadence, [Next]_vars PROVE LogCadence'
  OBVIOUS
<1>1. ASSUME UNCHANGED <<logs, polls>>, poller' = "triggers" <=> poller = "triggers"
      PROVE  LogCadence'
  BY <1>1 DEF LogCadence
<1> USE DEF threadVars, triggerVars, dataVars
<1>2. CASE Sample
  <2>1. logs' = logs /\ polls' = polls + 1 /\ poller' = "triggers" /\ poller = "while" /\ polls \in Nat
    BY <1>2 DEF Sample, TypeInv, TypeOK
  <2>2. polls' - 1 = polls
    BY <2>1
  <2> QED
    BY <2>1, <2>2 DEF LogCadence
<1>3. CASE LeaveLoop
  BY <1>3, <1>1 DEF LeaveLoop
<1>4. CASE CallReturns
  BY <1>4, <1>1 DEF CallReturns
<1>5. CASE ProcessLogs
  BY <1>5, ProcessLogsCadence
<1>6. CASE AfterPoll
  BY <1>6, <1>1 DEF AfterPoll
<1>7. CASE BreakOrSleep
  BY <1>7, <1>1 DEF BreakOrSleep
<1>8. CASE PollerReturns
  BY <1>8, <1>1 DEF PollerReturns
<1>9. ASSUME NEW t \in Triggers, ProcessTrigger(t) PROVE LogCadence'
  BY <1>9, <1>1 DEF ProcessTrigger
<1>10. ASSUME NEW t \in Triggers, AbortOnUnit(t) PROVE LogCadence'
  BY <1>10, <1>1 DEF AbortOnUnit
<1>11. CASE StartSampling
  BY <1>11, <1>1 DEF StartSampling
<1>12. CASE StopSampling
  BY <1>12, <1>1 DEF StopSampling
<1>13. CASE WaitForEndOfSampling
  BY <1>13, <1>1 DEF WaitForEndOfSampling
<1>14. CASE JoinReturns
  BY <1>14, <1>1 DEF JoinReturns
<1>15. CASE Destroy
  BY <1>15, <1>1 DEF Destroy
<1>16. CASE UNCHANGED vars
  BY <1>16, <1>1 DEF vars
<1> QED
  BY <1>2, <1>3, <1>4, <1>5, <1>6, <1>7, <1>8, <1>9, <1>10, <1>11, <1>12,
     <1>13, <1>14, <1>15, <1>16 DEF Next, Poller, Owner

(* After p polls a log has received p \div resolution entries and keeps the  *)
(* newest ones that fit: no sample is skipped or counted twice, for any      *)
(* resolutions, across stops and restarts.                                   *)
THEOREM LogCadenceHolds == Spec => []LogCadence
BY InitType, StepType, InitWindow, StepWindow, InitCadence, StepCadence, PTL DEF Spec

-----------------------------------------------------------------------------
(* The calls of triggerActivate *)

(* An activation of a trigger of positive duration that the poller still   *)
(* makes belongs to a sample the loop has accounted for: the counter has   *)
(* just been put back, and no further sample is taken before it is made.   *)
CallInv ==
  /\ calls # <<>> => poller = "triggers"
  /\ \A i \in 1 .. Len(calls) :
       LET t == calls[i].trigger
       IN  calls[i].signal = "activate" /\ t.duration > 0 =>
             t \notin pending /\ triggerStates[t] = 0 /\ fires[t] > 0

(* At first no call is made.                                               *)
LEMMA InitCalls == Init => CallInv
BY EmptySeq DEF Init, CallInv

(* The calls of one turn are about its trigger.                            *)
LEMMA CallsOfTurn ==
  ASSUME NEW t \in Triggers, NEW deactivate \in BOOLEAN, NEW activate \in BOOLEAN
  PROVE  LET c == (IF deactivate THEN <<[trigger |-> t, signal |-> "deactivate"]>> ELSE <<>>)
                  \o (IF activate THEN <<[trigger |-> t, signal |-> "activate"]>> ELSE <<>>)
         IN  \A i \in 1 .. Len(c) : c[i].trigger = t /\ (c[i].signal = "activate" => activate)
<1> DEFINE d == [trigger |-> t, signal |-> "deactivate"]
           a == [trigger |-> t, signal |-> "activate"]
<1>1. d \in Signals /\ a \in Signals
  BY DEF Signals
<1>2. d.trigger = t /\ d.signal # "activate" /\ a.trigger = t
  OBVIOUS
<1> HIDE DEF d, a
<1> DEFINE p == IF deactivate THEN <<d>> ELSE <<>>
           q == IF activate THEN <<a>> ELSE <<>>
<1>3. /\ p \in Seq(Signals) /\ Len(p) \in Nat /\ \A i \in 1 .. Len(p) : p[i] = d
      /\ q \in Seq(Signals) /\ Len(q) \in Nat /\ \A i \in 1 .. Len(q) : q[i] = a /\ activate
  <2>1. /\ <<>> \in Seq(Signals) /\ Len(<<>>) = 0
        /\ \A e \in Signals : <<e>> \in Seq(Signals) /\ Len(<<e>>) = 1 /\ <<e>>[1] = e
    OBVIOUS
  <2>2. p \in Seq(Signals) /\ Len(p) \in Nat /\ \A i \in 1 .. Len(p) : p[i] = d
    BY <1>1, <2>1
  <2>3. q \in Seq(Signals) /\ Len(q) \in Nat /\ \A i \in 1 .. Len(q) : q[i] = a /\ activate
    <3>1. CASE activate
      BY <1>1, <2>1, <3>1
    <3>2. CASE ~ activate
      BY <2>1, <3>2
    <3> QED
      BY <3>1, <3>2
  <2> QED
    BY <2>2, <2>3
<1> HIDE DEF p, q
<1>4. \A i \in 1 .. Len(p \o q) : (p \o q)[i] = d \/ ((p \o q)[i] = a /\ activate)
  <2> TAKE i \in 1 .. Len(p \o q)
  <2>1. /\ Len(p \o q) = Len(p) + Len(q)
        /\ (p \o q)[i] = IF i <= Len(p) THEN p[i] ELSE q[i - Len(p)]
    BY <1>3, ConcatProperties
  <2>2. CASE i <= Len(p)
    BY <1>3, <2>1, <2>2
  <2>3. CASE i > Len(p)
    <3>1. i - Len(p) \in 1 .. Len(q)
      BY <1>3, <2>1, <2>3
    <3> QED
      BY <1>3, <2>1, <2>3, <3>1
  <2> QED
    BY <1>3, <2>2, <2>3
<1>5. \A i \in 1 .. Len(p \o q) : (p \o q)[i].trigger = t
                                  /\ ((p \o q)[i].signal = "activate" => activate)
  BY <1>2, <1>4
<1> QED
  BY <1>5 DEF p, q, d, a

(* A turn that activates a trigger puts its counter back.                  *)
LEMMA ProcessTriggerCalls ==
  ASSUME NEW t \in Triggers, TypeInv, ProcessTrigger(t) PROVE CallInv'
<1> DEFINE exceeds == Exceeds(Last(samples[t.resource]), t)
           count == Counted(triggerStates[t], exceeds)
           deactivate == ~exceeds /\ triggerStates[t] >= t.duration
           activate == count = t.duration
<1>1. /\ poller' = "triggers" /\ pending' = pending \ {t}
      /\ triggerStates' = [triggerStates EXCEPT ![t] = Rearmed(count, t.duration)]
      /\ fires' = [fires EXCEPT ![t] = IF activate THEN @ + 1 ELSE @]
      /\ calls' = (IF deactivate THEN <<[trigger |-> t, signal |-> "deactivate"]>> ELSE <<>>)
                  \o (IF activate THEN <<[trigger |-> t, signal |-> "activate"]>> ELSE <<>>)
  BY DEF ProcessTrigger, threadVars
<1>2. \A i \in 1 .. Len(calls') : /\ calls'[i].trigger = t
                                  /\ calls'[i].signal = "activate" => activate
  <2>1. deactivate \in BOOLEAN /\ activate \in BOOLEAN
    OBVIOUS
  <2> HIDE DEF deactivate, activate
  <2> QED
    BY <1>1, <2>1, CallsOfTurn
<1>3. /\ DOMAIN triggerStates = Triggers /\ DOMAIN fires = Triggers /\ fires[t] \in Nat
  BY DEF TypeInv, TypeOK
<1>4. activate => triggerStates'[t] = 0 /\ fires'[t] > 0
  <2> HIDE DEF count
  <2> QED
    BY <1>1, <1>3 DEF Rearmed
<1> HIDE DEF activate
<1> QED
  BY <1>1, <1>2, <1>4 DEF CallInv

(* The calls that remain after one returned were among the calls before.   *)
LEMMA CallReturnsCalls == TypeInv /\ CallInv /\ CallReturns => CallInv'
<1> SUFFICES ASSUME TypeInv, CallInv, CallReturns PROVE CallInv'
  OBVIOUS
<1>1. /\ calls' = Tail(calls) /\ calls # <<>> /\ poller' = poller /\ pending' = pending
      /\ triggerStates' = triggerStates /\ fires' = fires
  BY DEF CallReturns, threadVars
<1>2. calls \in Seq(Signals)
  BY DEF TypeInv, TypeOK
<1>3. /\ Len(calls') = Len(calls) - 1 /\ Len(calls) \in Nat
      /\ \A i \in 1 .. Len(calls') : calls'[i] = calls[i + 1]
  BY <1>1, <1>2, HeadTailProperties, LenProperties
<1>4. ASSUME NEW i \in 1 .. Len(calls')
      PROVE  i + 1 \in 1 .. Len(calls) /\ calls'[i] = calls[i + 1]
  BY <1>3
<1> QED
  BY <1>1, <1>4 DEF CallInv

(* Every step keeps the calls those of the newest sample.                  *)
LEMMA StepCalls == TypeInv /\ RunInv /\ CallInv /\ [Next]_vars => CallInv'
<1> SUFFICES ASSUME TypeInv, RunInv, CallInv, [Next]_vars PROVE CallInv'
  OBVIOUS
<1>0. ASSUME calls = <<>>, calls' = <<>> PROVE CallInv'
  BY <1>0, EmptySeq DEF CallInv
<1>1. ASSUME UNCHANGED <<calls, triggerStates, pending, fires>>, poller' = poller
      PROVE  CallInv'
  BY <1>1 DEF CallInv
<1>2. poller # "triggers" => calls = <<>>
  BY DEF CallInv
<1> USE DEF threadVars, triggerVars, dataVars
<1>3. CASE Sample
  BY <1>3, <1>0, <1>2 DEF Sample
<1>4. CASE LeaveLoop
  BY <1>4, <1>0, <1>2 DEF LeaveLoop
<1>5. CASE CallReturns
  BY <1>5, CallReturnsCalls
<1>6. CASE ProcessLogs
  BY <1>6, <1>0 DEF ProcessLogs
<1>7. CASE AfterPoll
  BY <1>7, <1>0, <1>2 DEF AfterPoll
<1>8. CASE BreakOrSleep
  BY <1>8, <1>0, <1>2 DEF BreakOrSleep
<1>9. CASE PollerReturns
  BY <1>9, <1>0, <1>2 DEF PollerReturns
<1>10. ASSUME NEW t \in Triggers, ProcessTrigger(t) PROVE CallInv'
  BY <1>10, ProcessTriggerCalls
<1>11. ASSUME NEW t \in Triggers, AbortOnUnit(t) PROVE CallInv'
  BY <1>11, <1>1 DEF AbortOnUnit
<1>12. CASE StartSampling
  <2>1. CASE poller = "none"
    BY <1>12, <2>1, <1>0, <1>2 DEF StartSampling
  <2>2. CASE poller # "none"
    BY <1>12, <2>2, <1>1 DEF StartSampling
  <2> QED
    BY <2>1, <2>2
<1>13. CASE StopSampling
  BY <1>13, <1>1 DEF StopSampling
<1>14. CASE WaitForEndOfSampling
  BY <1>14, <1>1 DEF WaitForEndOfSampling
<1>15. CASE JoinReturns
  BY <1>15, <1>0, <1>2 DEF JoinReturns
<1>16. CASE Destroy
  BY <1>16, <1>1 DEF Destroy
<1>17. CASE UNCHANGED vars
  BY <1>17, <1>1 DEF vars
<1> QED
  BY <1>3, <1>4, <1>5, <1>6, <1>7, <1>8, <1>9, <1>10, <1>11, <1>12, <1>13,
     <1>14, <1>15, <1>16, <1>17 DEF Next, Poller, Owner

(* A multiple of a positive number, and of at least that number.           *)
LEMMA PositiveMultiple ==
  ASSUME NEW d \in Nat, NEW f \in Nat, d > 0, f > 0
  PROVE  d * f >= d /\ d * f > 0 /\ (d * f) % d = 0
<1>1. d * f = d * (f - 1) + d /\ d * (f - 1) >= 0
  OBVIOUS
<1>2. d * f \in Nat
  OBVIOUS
<1> DEFINE n == d * f
<1>3. n \in Nat /\ n = d * (n \div d) + (n % d) /\ n % d \in 0 .. (d - 1) /\ n \div d \in Int
  BY <1>2
<1>4. d * f + 0 = d * (n \div d) + (n % d)
  BY <1>2, <1>3
<1>5. 0 \in 0 .. (d - 1)
  OBVIOUS
<1> HIDE DEF n
<1>6. n % d = 0
  BY <1>3, <1>4, <1>5, QuotientUnique
<1> QED
  BY <1>1, <1>2, <1>6 DEF n

(* Every call of triggerActivate that is under way comes at the end of a   *)
(* period: the newest samples that exceed the trigger are a positive       *)
(* multiple of its duration.                                               *)
LEMMA ActivationEndsPeriod ==
  ASSUME TypeInv, RunInv, CallInv, NEW i \in 1 .. Len(calls),
         calls[i].signal = "activate", calls[i].trigger.duration > 0
  PROVE  LET t == calls[i].trigger
         IN  t \in Triggers /\ run[t] >= t.duration /\ run[t] > 0 /\ run[t] % t.duration = 0
<1> DEFINE t == calls[i].trigger
<1>1. calls[i] \in Signals
  BY ElementOfSeq DEF TypeInv, TypeOK
<1>2. t \in Triggers /\ t.duration \in Nat /\ t.duration > 0
  BY <1>1, TriggersAssumption DEF Signals, TriggerType
<1>3. t \notin pending /\ triggerStates[t] = 0 /\ fires[t] > 0 /\ fires[t] \in Nat
  BY <1>2 DEF CallInv, TypeInv, TypeOK
<1>4. run[t] = t.duration * fires[t] + 0
  BY <1>2, <1>3 DEF RunInv, ActivationsPerRun
<1> HIDE DEF t
<1>5. run[t] = t.duration * fires[t]
  BY <1>2, <1>3, <1>4
<1>6. /\ t.duration * fires[t] >= t.duration /\ t.duration * fires[t] > 0
      /\ (t.duration * fires[t]) % t.duration = 0
  BY <1>2, <1>3, PositiveMultiple
<1>7. t \in Triggers /\ run[t] >= t.duration /\ run[t] > 0 /\ run[t] % t.duration = 0
  BY <1>2, <1>5, <1>6
<1> QED
  BY <1>7 DEF t

-----------------------------------------------------------------------------
(* The refinement of TriggerAlarm *)

(* A number is a multiple of d exactly when what is left of it above some  *)
(* multiple of d is d itself.                                              *)
LEMMA MultipleAbove ==
  ASSUME NEW d \in Nat, d > 0, NEW f \in Nat, NEW c \in 1 .. d
  PROVE  (d * f + c) % d = 0 <=> c = d
<1> DEFINE n == d * f + c
           q == n \div d
           r == n % d
<1>1. n \in Nat
  OBVIOUS
<1>2. n = d * q + r /\ q \in Int /\ r \in 0 .. (d - 1)
  BY <1>1
<1>3. n = d * f + c
  OBVIOUS
<1> HIDE DEF n, q, r
<1>4. CASE c = d
  <2>1. d * (f + 1) = d * f + d
    OBVIOUS
  <2>2. d * (f + 1) + 0 = d * q + r /\ 0 \in 0 .. (d - 1) /\ f + 1 \in Int
    BY <1>2, <1>3, <1>4, <2>1
  <2>3. r = 0
    BY <2>2, <1>2, QuotientUnique
  <2> QED
    BY <2>3, <1>4 DEF n, r
<1>5. CASE c # d
  <2>1. d * f + c = d * q + r /\ c \in 0 .. (d - 1)
    BY <1>2, <1>3, <1>5
  <2>2. r = c
    BY <2>1, <1>2, QuotientUnique
  <2> QED
    BY <2>2, <1>5 DEF n, r
<1> QED
  BY <1>4, <1>5

(* At first nothing has exceeded anything and no callback is due.          *)
LEMMA InitAlarm == Init => Alarm!Init
BY DEF Init, Alarm!Init

(* A sample is a poll: the loop and the callbacks of the last are over.    *)
LEMMA SampleIsPoll == RunInv /\ CallInv /\ Sample => Alarm!Poll
<1> SUFFICES ASSUME RunInv, CallInv, Sample PROVE Alarm!Poll
  OBVIOUS
<1>1. poller = "while" /\ pending' = Triggers /\ calls' = calls
  BY DEF Sample
<1>2. pending = {} /\ calls = <<>>
  BY <1>1 DEF RunInv, VisitInv, CallInv
<1>3. PICK holding \in SUBSET Triggers :
        run' = [t \in Triggers |-> IF t \in holding THEN run[t] + 1 ELSE 0]
  BY SampleHolding
<1> QED
  BY <1>1, <1>2, <1>3 DEF Alarm!Poll

(* A turn of processTriggers finds the counter at the duration exactly     *)
(* when the run of samples is a multiple of it, and never at the duration  *)
(* when the run is broken.                                                 *)
LEMMA CounterAtDuration ==
  ASSUME TypeInv, RunInv, NEW t \in pending, t.duration > 0
  PROVE  LET count == Counted(triggerStates[t], run[t] > 0)
         IN  /\ count = t.duration <=> Alarm!PeriodEnds(t)
             /\ ~(triggerStates[t] >= t.duration)
<1>1. /\ t \in Triggers /\ t.duration \in Nat /\ triggerStates[t] \in Nat
      /\ run[t] \in Nat /\ fires[t] \in Nat
  BY TriggersAssumption DEF TypeInv, TypeOK, TriggerType
<1>2. triggerStates[t] < t.duration
  BY <1>1 DEF RunInv, ActivationsPerRun
<1>3. CASE run[t] > 0
  <2>1. run[t] = t.duration * fires[t] + triggerStates[t] + 1
    BY <1>1, <1>3 DEF RunInv, ActivationsPerRun
  <2>2. triggerStates[t] + 1 \in 1 .. t.duration
    BY <1>1, <1>2
  <2>3. (t.duration * fires[t] + (triggerStates[t] + 1)) % t.duration = 0
          <=> triggerStates[t] + 1 = t.duration
    BY <1>1, <2>2, MultipleAbove
  <2>4. run[t] = t.duration * fires[t] + (triggerStates[t] + 1)
    BY <1>1, <2>1
  <2> QED
    BY <1>2, <1>1, <1>3, <2>3, <2>4 DEF Counted, Alarm!PeriodEnds
<1>4. CASE run[t] = 0
  BY <1>1, <1>2, <1>4 DEF Counted, Alarm!PeriodEnds
<1> QED
  BY <1>1, <1>3, <1>4

(* Sequences of at most two calls, put together.                           *)
LEMMA CallsMade ==
  ASSUME NEW S, NEW d \in S, NEW a \in S
  PROVE  /\ <<d>> \o <<a>> = <<d, a>> /\ <<d>> \o <<>> = <<d>>
         /\ <<>> \o <<a>> = <<a>> /\ <<>> \o <<>> = <<>>
<1>1. /\ <<>> \in Seq(S)
      /\ \A e \in S : <<e>> \in Seq(S) /\ Len(<<e>>) = 1 /\ <<e>>[1] = e
  OBVIOUS
<1>2. \A e, f \in S : /\ <<e, f>> \in Seq(S) /\ Len(<<e, f>>) = 2
                       /\ <<e, f>>[1] = e /\ <<e, f>>[2] = f
  OBVIOUS
<1> DEFINE s == <<d>> \o <<a>>
           t == <<d, a>>
<1>3. s \in Seq(S) /\ Len(s) = 2 /\ s[1] = d /\ s[2] = a
  BY <1>1, ConcatProperties
<1>4. t \in Seq(S) /\ Len(t) = 2 /\ t[1] = d /\ t[2] = a
  BY <1>2
<1> HIDE DEF s, t
<1>5. \A i \in 1 .. Len(s) : s[i] = t[i]
  BY <1>3, <1>4
<1>6. s = t
  BY <1>3, <1>4, <1>5, SeqEqual
<1>7. <<d>> \o <<>> = <<d>> /\ <<>> \o <<a>> = <<a>> /\ <<>> \o <<>> = <<>>
  BY <1>1, ConcatEmptySeq
<1> QED
  BY <1>6, <1>7 DEF s, t

(* A turn of processTriggers reports its trigger.                          *)
LEMMA TurnIsReport ==
  ASSUME NEW t \in Triggers, TypeInv, RunInv, ProcessTrigger(t) PROVE Alarm!Report(t)
<1> DEFINE d == [trigger |-> t, signal |-> "deactivate"]
           a == [trigger |-> t, signal |-> "activate"]
           exceeds == Exceeds(Last(samples[t.resource]), t)
           count == Counted(triggerStates[t], exceeds)
           deactivate == ~exceeds /\ triggerStates[t] >= t.duration
           activate == count = t.duration
<1>1. /\ t \in pending /\ UnitAsserted(t) /\ calls = <<>>
      /\ pending' = pending \ {t} /\ run' = run
      /\ calls' = (IF deactivate THEN <<d>> ELSE <<>>) \o (IF activate THEN <<a>> ELSE <<>>)
  BY DEF ProcessTrigger, NextInOrder
<1>2. exceeds <=> run[t] > 0
  BY <1>1 DEF RunInv, LatestInv
<1>3. t.duration \in Nat /\ triggerStates[t] \in Nat /\ run[t] \in Nat
  BY TriggersAssumption DEF TriggerType, TypeInv, TypeOK
<1>4. /\ Alarm!Due(t) = IF t.duration = 0 THEN IF run[t] = 0 THEN <<d, a>> ELSE <<>>
                        ELSE IF Alarm!PeriodEnds(t) THEN <<a>> ELSE <<>>
  BY DEF Alarm!Due
<1>5. t.duration = 0 => (deactivate <=> run[t] = 0) /\ (activate <=> run[t] = 0)
  BY <1>2, <1>3 DEF Counted
<1>6. t.duration # 0 => ~deactivate /\ (activate <=> Alarm!PeriodEnds(t))
  <2>1. count = Counted(triggerStates[t], run[t] > 0)
    BY <1>2 DEF Counted
  <2> HIDE DEF count
  <2> QED
    BY <1>1, <1>3, <2>1, CounterAtDuration
<1>7. d \in Signals /\ a \in Signals
  BY DEF Signals
<1> HIDE DEF d, a, exceeds, count, deactivate, activate
<1>8. /\ <<d>> \o <<a>> = <<d, a>> /\ <<d>> \o <<>> = <<d>>
      /\ <<>> \o <<a>> = <<a>> /\ <<>> \o <<>> = <<>>
  BY <1>7, CallsMade
<1>9. calls' = Alarm!Due(t)
  <2>1. CASE t.duration = 0 /\ run[t] = 0
    BY <1>1, <1>4, <1>5, <1>8, <2>1, Zenon
  <2>2. CASE t.duration = 0 /\ run[t] # 0
    BY <1>1, <1>4, <1>5, <1>8, <2>2, Zenon
  <2>3. CASE t.duration # 0 /\ Alarm!PeriodEnds(t)
    BY <1>1, <1>4, <1>6, <1>8, <2>3, Zenon
  <2>4. CASE t.duration # 0 /\ ~Alarm!PeriodEnds(t)
    BY <1>1, <1>4, <1>6, <1>8, <2>4, Zenon
  <2> QED
    BY <2>1, <2>2, <2>3, <2>4
<1> QED
  BY <1>1, <1>9 DEF Alarm!Report

(* Every step is a step of TriggerAlarm or none of its business: neither   *)
(* a restart nor an abort touches what has been counted.                   *)
LEMMA StepAlarm ==
  TypeInv /\ RunInv /\ CallInv /\ [Next]_vars => [Alarm!Next]_(Alarm!vars)
<1> SUFFICES ASSUME TypeInv, RunInv, CallInv, [Next]_vars
             PROVE  [Alarm!Next]_(Alarm!vars)
  OBVIOUS
<1>1. ASSUME UNCHANGED <<run, pending, calls>> PROVE UNCHANGED Alarm!vars
  BY <1>1 DEF Alarm!vars
<1>2. CASE Sample
  BY <1>2, SampleIsPoll DEF Alarm!Next
<1>3. CASE CallReturns
  BY <1>3 DEF CallReturns, Alarm!Return, Alarm!Next
<1>4. ASSUME NEW t \in Triggers, ProcessTrigger(t) PROVE Alarm!Next
  BY <1>4, TurnIsReport DEF Alarm!Next
<1>5. CASE \/ LeaveLoop \/ ProcessLogs \/ AfterPoll \/ BreakOrSleep \/ PollerReturns
           \/ \E t \in Triggers : AbortOnUnit(t)
  BY <1>1, <1>5 DEF LeaveLoop, ProcessLogs, AfterPoll, BreakOrSleep, PollerReturns,
                    AbortOnUnit, triggerVars
<1>6. CASE Owner
  BY <1>1, <1>6 DEF Owner, StartSampling, StopSampling, WaitForEndOfSampling, JoinReturns,
                    Destroy, dataVars, triggerVars
<1>7. CASE UNCHANGED vars
  BY <1>1, <1>7 DEF vars, triggerVars
<1> QED
  BY <1>2, <1>3, <1>4, <1>5, <1>6, <1>7 DEF Next, Poller

(* The sampling manager implements TriggerAlarm: whatever the triggers,    *)
(* their durations and the order of the map, counting up to the duration   *)
(* and starting over activates a trigger for every full duration the       *)
(* samples exceed it and at no other time, and a poll waits for every      *)
(* callback of the last.                                                   *)
THEOREM AlarmRefined == Spec => AlarmImplemented
BY InitType, StepType, InitRun, StepRun, InitCalls, StepCalls, InitAlarm, StepAlarm, PTL
DEF Spec, AlarmImplemented, Alarm!Spec

\* Every callback made for a trigger of positive duration is a call of
\* triggerActivate ("for 0 s" is a trigger that fires without an exceeding
\* sample, and is deactivated just before).
OnlyActivations ==
  \A i \in 1 .. Len(calls) : calls[i].trigger.duration > 0 => calls[i].signal = "activate"

(* A report of a trigger of positive duration makes no deactivation, and a *)
(* callback that returns leaves none behind.                               *)
LEMMA AlarmOnlyActivates ==
  ASSUME TypeInv, OnlyActivations, [Alarm!Next]_(Alarm!vars)
  PROVE  OnlyActivations'
<1>1. CASE Alarm!Poll
  BY <1>1 DEF Alarm!Poll, OnlyActivations
<1>2. CASE Alarm!Return
  <2>1. calls' = Tail(calls) /\ calls # <<>> /\ calls \in Seq(Signals)
    BY <1>2 DEF Alarm!Return, TypeInv, TypeOK
  <2>2. /\ Len(calls') = Len(calls) - 1 /\ Len(calls) \in Nat
        /\ \A i \in 1 .. Len(calls') : calls'[i] = calls[i + 1]
    BY <2>1, HeadTailProperties, LenProperties
  <2>3. \A i \in 1 .. Len(calls') : i + 1 \in 1 .. Len(calls)
    BY <2>2
  <2> QED
    BY <2>2, <2>3 DEF OnlyActivations
<1>3. ASSUME NEW t \in Triggers, Alarm!Report(t) PROVE OnlyActivations'
  <2> DEFINE a == [trigger |-> t, signal |-> "activate"]
             d == [trigger |-> t, signal |-> "deactivate"]
  <2>1. t.duration > 0 => t.duration # 0
    OBVIOUS
  <2>2. \/ calls' = <<a>>
        \/ calls' = <<>>
        \/ (calls' = <<d, a>> /\ ~ (t.duration > 0))
    BY <1>3, <2>1, Zenon DEF Alarm!Report, Alarm!Due
  <2>3. a.signal = "activate" /\ a.trigger = t /\ d.trigger = t
    OBVIOUS
  <2> HIDE DEF a, d
  <2>4. /\ \A i \in 1 .. Len(<<a>>) : <<a>>[i] = a
        /\ \A i \in 1 .. Len(<<d, a>>) : <<d, a>>[i] \in {d, a}
    OBVIOUS
  <2>5. CASE calls' = <<a>> \/ calls' = <<>>
    BY <2>3, <2>4, <2>5, EmptySeq DEF OnlyActivations
  <2>6. CASE calls' = <<d, a>> /\ ~ (t.duration > 0)
    BY <2>3, <2>4, <2>6 DEF OnlyActivations
  <2> QED
    BY <2>2, <2>5, <2>6
<1>4. CASE UNCHANGED Alarm!vars
  BY <1>4 DEF Alarm!vars, OnlyActivations
<1> QED
  BY <1>1, <1>2, <1>3, <1>4 DEF Alarm!Next

(* triggerDeactivate is dead code for a trigger of positive duration: its  *)
(* counter goes back to 0 in the poll that brings it to the duration, so   *)
(* the next poll never finds it there.                                     *)
THEOREM NeverDeactivated == Spec => []OnlyActivations
<1>1. Init => OnlyActivations
  BY EmptySeq DEF Init, OnlyActivations
<1>2. TypeInv /\ RunInv /\ CallInv /\ OnlyActivations /\ [Next]_vars => OnlyActivations'
  BY StepAlarm, AlarmOnlyActivates
<1> QED
  BY <1>1, <1>2, InitType, StepType, InitRun, StepRun, InitCalls, StepCalls, PTL DEF Spec

-----------------------------------------------------------------------------
(* A trigger of an unknown unit *)

(* With such a trigger only one poll is ever begun, and its loop does not  *)
(* get past that trigger.                                                  *)
BadUnitInv ==
  (\E t \in Triggers : ~UnitAsserted(t)) =>
    /\ \A k \in LogKeys : logs[k].buffer = <<>>
    /\ \/ polls = 0 /\ poller \in {"none", "while", "exit", "finished"}
       \/ /\ polls = 1 /\ poller = "triggers"
          /\ \A t \in Triggers : ~UnitAsserted(t) => t \in pending

(* Every step keeps the poller in front of that trigger.                   *)
LEMMA StepBadUnit == TypeInv /\ BadUnitInv /\ [Next]_vars => BadUnitInv'
<1> SUFFICES ASSUME TypeInv, BadUnitInv, [Next]_vars, NEW b \in Triggers, ~UnitAsserted(b)
             PROVE  BadUnitInv'
  BY DEF BadUnitInv
<1>1. ASSUME UNCHANGED <<logs, polls, pending>>,
             \/ poller' = poller
             \/ poller # "triggers" /\ poller' \in {"none", "while", "exit", "finished"}
      PROVE  BadUnitInv'
  BY <1>1 DEF BadUnitInv
<1> USE DEF threadVars, triggerVars, dataVars
<1>2. CASE Sample
  <2>1. polls = 0 /\ polls' = 1 /\ poller' = "triggers" /\ pending' = Triggers /\ logs' = logs
    BY <1>2 DEF Sample, BadUnitInv
  <2> QED
    BY <2>1 DEF BadUnitInv
<1>3. CASE LeaveLoop
  BY <1>3, <1>1 DEF LeaveLoop
<1>4. CASE CallReturns
  BY <1>4, <1>1 DEF CallReturns
<1>5. CASE ProcessLogs
  BY <1>5 DEF ProcessLogs, BadUnitInv
<1>6. CASE AfterPoll
  BY <1>6 DEF AfterPoll, BadUnitInv
<1>7. CASE BreakOrSleep
  BY <1>7 DEF BreakOrSleep, BadUnitInv
<1>8. CASE PollerReturns
  BY <1>8, <1>1 DEF PollerReturns
<1>9. ASSUME NEW t \in Triggers, ProcessTrigger(t) PROVE BadUnitInv'
  <2>1. /\ UnitAsserted(t) /\ pending' = pending \ {t} /\ UNCHANGED <<logs, polls, poller>>
        /\ poller = "triggers"
    BY <1>9 DEF ProcessTrigger
  <2> QED
    BY <2>1 DEF BadUnitInv
<1>10. ASSUME NEW t \in Triggers, AbortOnUnit(t) PROVE BadUnitInv'
  BY <1>10, <1>1 DEF AbortOnUnit
<1>11. CASE StartSampling
  <2>1. CASE poller = "none"
    BY <1>11, <2>1, <1>1 DEF StartSampling
  <2>2. CASE poller # "none"
    BY <1>11, <2>2, <1>1 DEF StartSampling
  <2> QED
    BY <2>1, <2>2
<1>12. CASE StopSampling
  BY <1>12, <1>1 DEF StopSampling
<1>13. CASE WaitForEndOfSampling
  BY <1>13, <1>1 DEF WaitForEndOfSampling
<1>14. CASE JoinReturns
  BY <1>14, <1>1 DEF JoinReturns
<1>15. CASE Destroy
  BY <1>15, <1>1 DEF Destroy
<1>16. CASE UNCHANGED vars
  BY <1>16, <1>1 DEF vars
<1> QED
  BY <1>2, <1>3, <1>4, <1>5, <1>6, <1>7, <1>8, <1>9, <1>10, <1>11, <1>12,
     <1>13, <1>14, <1>15, <1>16 DEF Next, Poller, Owner

(* A trigger whose unit operator> does not accept stops everything in the  *)
(* first poll, whatever the other triggers and the iteration order: no log *)
(* entry is ever written.                                                  *)
THEOREM BadUnitStops == Spec => []BadUnitEndsFirstPoll
<1>1. Init => BadUnitInv
  BY DEF Init, BadUnitInv
<1>2. BadUnitInv => BadUnitEndsFirstPoll
  BY DEF BadUnitInv, BadUnitEndsFirstPoll
<1> QED
  BY <1>1, <1>2, InitType, StepType, StepBadUnit, PTL DEF Spec

-----------------------------------------------------------------------------
(* The way to the end of the poller *)

(* The steps the poller has still to make before it returns, at most, once *)
(* isSampling is cleared: of a turn and its two calls for each trigger not *)
(* yet visited, and the phases of the loop behind.                         *)
Left ==
  CASE poller = "triggers" -> 4 + 3 * Cardinality(pending) + Len(calls)
    [] poller = "callback" -> 3
    [] poller \in {"check", "while"} -> 2
    [] poller = "exit" -> 1
    [] OTHER -> 0

\* Left is a number; nothing pending and no call is left outside the loop.
LEMMA LeftType ==
  ASSUME TypeInv
  PROVE  /\ IsFiniteSet(pending) /\ Cardinality(pending) \in Nat /\ Len(calls) \in Nat
         /\ Left \in Nat
<1>1. pending \in SUBSET Triggers /\ calls \in Seq(Signals)
  BY DEF TypeInv, TypeOK
<1>2. IsFiniteSet(pending) /\ Cardinality(pending) \in Nat
  BY <1>1, TriggersAssumption, FS_Subset, FS_CardinalityType
<1>3. Len(calls) \in Nat
  BY <1>1, LenProperties
<1> QED
  BY <1>2, <1>3 DEF Left

\* A turn of processTriggers makes fewer than three calls.
LEMMA TurnLeaves ==
  ASSUME TypeInv, TypeInv', NEW t \in Triggers, ProcessTrigger(t)
  PROVE  Left' < Left
<1>1. /\ t \in pending /\ pending' = pending \ {t} /\ calls = <<>>
      /\ poller = "triggers" /\ poller' = "triggers"
  BY DEF ProcessTrigger, NextInOrder, threadVars
<1>2. Len(calls') \in Nat /\ Len(calls') <= 2 /\ Len(calls) = 0
  <2>1. calls' \in Seq(Signals) /\ Len(calls') <= 2
    BY Zenon DEF TypeInv, TypeOK
  <2>2. Len(calls') \in Nat /\ Len(calls) = 0
    BY <1>1, <2>1, LenProperties, EmptySeq
  <2> QED
    BY <2>1, <2>2, Zenon
<1>3. Cardinality(pending') = Cardinality(pending) - 1 /\ Cardinality(pending) \in Nat
  BY <1>1, LeftType, FS_RemoveElement
<1>4. /\ Left = 4 + 3 * Cardinality(pending) + Len(calls)
      /\ Left' = 4 + 3 * Cardinality(pending') + Len(calls')
  BY <1>1 DEF Left
<1>5. \A c, d, n \in Nat : d <= 2 /\ c = 0 => 4 + 3 * (n - 1) + d < 4 + 3 * n + c
  OBVIOUS
<1> QED
  BY <1>2, <1>3, <1>4, <1>5

\* With isSampling cleared each step of the poller leaves fewer.
LEMMA PollerLeaves ==
  ASSUME TypeInv, TypeInv', CallInv, ~ isSampling, Poller
  PROVE  /\ Left' < Left \/ (process' = "aborted" /\ Left' = Left)
         /\ ~ isSampling' /\ polls' = polls
<1> USE DEF threadVars, triggerVars
<1>1. CASE LeaveLoop
  BY <1>1 DEF LeaveLoop, Left
<1>2. CASE CallReturns
  <2>1. poller = "triggers" /\ poller' = "triggers" /\ pending' = pending /\ polls' = polls
    BY <1>2 DEF CallReturns, CallInv
  <2>2. calls \in Seq(Signals) /\ calls # <<>> /\ calls' = Tail(calls)
    BY <1>2 DEF CallReturns, TypeInv, TypeOK
  <2>3. Len(calls') = Len(calls) - 1 /\ Len(calls) \in Nat /\ Len(calls) >= 1
    BY <2>2, HeadTailProperties, LenProperties, EmptySeq
  <2>4. /\ Left = 4 + 3 * Cardinality(pending) + Len(calls)
        /\ Left' = 4 + 3 * Cardinality(pending) + Len(calls')
    BY <2>1 DEF Left
  <2>5. Left' < Left
    BY <2>3, <2>4, LeftType
  <2> QED
    BY <1>2, <2>1, <2>5 DEF CallReturns
<1>3. CASE ProcessLogs
  <2>1. Left = 4 + 3 * Cardinality(pending) + Len(calls) /\ Left' = 3
    BY <1>3 DEF ProcessLogs, Left
  <2>2. Left' < Left
    BY <2>1, LeftType
  <2> QED
    BY <1>3, <2>2 DEF ProcessLogs
<1>4. CASE AfterPoll
  BY <1>4 DEF AfterPoll, Left
<1>5. CASE BreakOrSleep
  BY <1>5 DEF BreakOrSleep, Left
<1>6. CASE PollerReturns
  BY <1>6 DEF PollerReturns, Left
<1>7. ASSUME NEW t \in Triggers, ProcessTrigger(t) PROVE Left' < Left /\ ~ isSampling' /\ polls' = polls
  BY <1>7, TurnLeaves DEF ProcessTrigger
<1>8. ASSUME NEW t \in Triggers, AbortOnUnit(t)
      PROVE  process' = "aborted" /\ Left' = Left /\ ~ isSampling' /\ polls' = polls
  BY <1>8 DEF AbortOnUnit, Left
<1> QED
  BY <1>1, <1>2, <1>3, <1>4, <1>5, <1>6, <1>7, <1>8 DEF Poller, Sample

(* While the owner joins a poller that has been told to stop nobody tells  *)
(* it to go on, it begins no poll, and each of its steps takes it nearer   *)
(* to its end: at most two calls a trigger and the rest of one turn of the *)
(* loop, so the join waits for nothing but these steps.                    *)
THEOREM StopNeedsNoPoll ==
  Spec => [][~ isSampling /\ owner \in {"joining", "destroying"} =>
               /\ ~ isSampling' /\ polls' = polls
               /\ Left' < Left \/ (Left' = Left /\ (JoinReturns \/ process' = "aborted"))]_vars
<1>1. TypeInv /\ TypeInv' /\ CallInv /\ [Next]_vars
        => [~ isSampling /\ owner \in {"joining", "destroying"} =>
              /\ ~ isSampling' /\ polls' = polls
              /\ Left' < Left \/ (Left' = Left /\ (JoinReturns \/ process' = "aborted"))]_vars
  <2> SUFFICES ASSUME TypeInv, TypeInv', CallInv, Next, ~ isSampling,
                      owner \in {"joining", "destroying"}
               PROVE  /\ ~ isSampling' /\ polls' = polls
                      /\ Left' < Left \/ (Left' = Left /\ (JoinReturns \/ process' = "aborted"))
    OBVIOUS
  <2>1. CASE Poller
    BY <2>1, PollerLeaves
  <2>2. CASE JoinReturns
    BY <2>2 DEF JoinReturns, dataVars, Left
  <2> QED
    BY <2>1, <2>2 DEF Next, Owner, StartSampling, StopSampling, WaitForEndOfSampling, Destroy
<1> QED
  BY <1>1, InitType, StepType, InitRun, StepRun, InitCalls, StepCalls, PTL DEF Spec
=============================================================================
