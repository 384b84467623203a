----------------------- MODULE LinuxResProviderProofs -----------------------
(***************************************************************************)
(* Proofs about LinuxResProvider, for counters of any width, any steps of  *)
(* the machine between two readings that are shorter than that width, and  *)
(* any number of readings.                                                 *)
(***************************************************************************)
EXTENDS LinuxResProvider, TLAPS

-----------------------------------------------------------------------------
(* Arithmetic of counters *)

(* A counter that advances wraps at most once.                             *)
LEMMA PlusCounter ==
  ASSUME NEW a \in Counter, NEW d \in Counter
  PROVE  /\ Plus(a, d) \in Counter
         /\ Plus(a, d) = IF a + d < Word THEN a + d ELSE a + d - Word
BY WordAssumption DEF Counter, Plus

(* The difference of two counters, as the hardware takes it.               *)
LEMMA MinusCounter ==
  ASSUME NEW a \in Counter, NEW b \in Counter
  PROVE  /\ Minus(a, b) \in Counter
         /\ Minus(a, b) = IF b <= a THEN a - b ELSE a - b + Word
BY WordAssumption DEF Counter, Minus

(* It gives back how far the counter got, whether it wrapped or not; and a *)
(* counter that wrapped is below how far it got and below its last value.  *)
LEMMA Advanced ==
  ASSUME NEW a \in Counter, NEW d \in Counter
  PROVE  /\ Minus(Plus(a, d), a) = d
         /\ Plus(a, d) < a => Plus(a, d) < d
         /\ Plus(a, d) >= a => Plus(a, d) = a + d
         /\ Plus(a, d) = a <=> d = 0
<1>1. a \in Nat /\ d \in Nat /\ Word \in Nat /\ a < Word /\ d < Word
  BY WordAssumption DEF Counter
<1>2. CASE a + d < Word
  BY <1>1, <1>2, PlusCounter, MinusCounter
<1>3. CASE a + d >= Word
  BY <1>1, <1>3, PlusCounter, MinusCounter
<1> QED
  BY <1>1, <1>2, <1>3

(* The difference is known from what it is up to multiples of the width.   *)
LEMMA MinusUnique ==
  ASSUME NEW a \in Counter, NEW b \in Counter, NEW e \in Counter, NEW m \in Int,
         a - b = e + Word * m
  PROVE  Minus(a, b) = e
<1>1. Word \in Nat /\ Word > 0 /\ a \in 0 .. Word - 1 /\ b \in 0 .. Word - 1 /\ e \in 0 .. Word - 1
  BY WordAssumption DEF Counter
<1> DEFINE w == Word * m
<1>2. m >= 1 => w >= Word
  BY <1>1
<1>3. m <= -2 => w <= -2 * Word
  BY <1>1
<1>4. w \in Int /\ (m = 0 => w = 0) /\ (m = -1 => w = -Word)
  BY <1>1
<1> HIDE DEF w
<1>5. a - b = e + w
  BY DEF w
<1>6. m \in {-1, 0}
  BY <1>1, <1>2, <1>3, <1>4, <1>5
<1>7. Minus(a, b) = IF b <= a THEN a - b ELSE a - b + Word
  BY MinusCounter
<1> QED
  BY <1>1, <1>4, <1>5, <1>6, <1>7

(* Also when both readings are multiplied before, each cut to the width:   *)
(* the bytes of two sector counts differ by the bytes of the sectors       *)
(* between them.                                                           *)
LEMMA AdvancedBytes ==
  ASSUME NEW a \in Counter, NEW d \in Counter, SectorSize \in Nat, d * SectorSize < Word
  PROVE  LET Bytes(n) == (n * SectorSize) % Word
         IN  /\ Bytes(a) \in Counter /\ Bytes(Plus(a, d)) \in Counter
             /\ Minus(Bytes(Plus(a, d)), Bytes(a)) = d * SectorSize
<1> DEFINE Bytes(n) == (n * SectorSize) % Word
           b == Plus(a, d)
<1>1. /\ a \in Nat /\ d \in Nat /\ b \in Nat /\ Word \in Nat /\ Word > 0
      /\ a * SectorSize \in Nat /\ b * SectorSize \in Nat /\ d * SectorSize \in Nat
  BY PlusCounter, WordAssumption DEF Counter
<1>2. \A m \in Nat : /\ m = Word * (m \div Word) + (m % Word)
                     /\ m % Word \in Counter /\ m \div Word \in Nat
  BY WordAssumption DEF Counter
<1> DEFINE q1 == (a * SectorSize) \div Word
           q2 == (b * SectorSize) \div Word
<1>3. /\ a * SectorSize = Word * q1 + Bytes(a) /\ Bytes(a) \in Counter /\ q1 \in Nat
      /\ b * SectorSize = Word * q2 + Bytes(b) /\ Bytes(b) \in Counter /\ q2 \in Nat
  BY <1>1, <1>2
<1>4. PICK k \in {0, 1} : b = a + d - k * Word
  BY <1>1, PlusCounter
<1> HIDE DEF b, q1, q2
<1> DEFINE A == a * SectorSize    B == b * SectorSize    D == d * SectorSize
           w1 == Word * q1          w2 == Word * q2          w3 == Word * (k * SectorSize)
           m == q1 - q2 - k * SectorSize
<1>5. B = A + D - w3
  BY <1>1, <1>4
<1>6. m \in Int /\ Word * m = w1 - w2 - w3
  BY <1>1, <1>3, <1>4
<1>7. A = w1 + Bytes(a) /\ B = w2 + Bytes(b)
  BY <1>3
<1>8. /\ A \in Int /\ B \in Int /\ D \in Counter /\ w1 \in Int /\ w2 \in Int /\ w3 \in Int
      /\ Bytes(a) \in Counter /\ Bytes(b) \in Counter
  BY <1>1, <1>3, <1>4 DEF Counter
<1> HIDE DEF A, B, D, w1, w2, w3, m, Bytes
<1>9. Bytes(b) - Bytes(a) = D + Word * m
  BY <1>5, <1>6, <1>7, <1>8 DEF Counter
<1>10. Minus(Bytes(b), Bytes(a)) = D
  BY <1>6, <1>8, <1>9, MinusUnique
<1> QED
  BY <1>8, <1>10 DEF Bytes, b, D

(* Quotients of integers are doubles, and none is the undefined one.       *)
LEMMA QuotientDouble ==
  ASSUME NEW n \in Int, NEW d \in Int
  PROVE  IsDouble(Quotient(n, d)) /\ Quotient(n, d) # Undefined
BY DEF IsDouble, Quotient, Number, NaN, Infinite, Undefined

LEMMA OtherDoubles ==
  /\ IsDouble(NaN) /\ IsDouble(Failed) /\ IsDouble(Undefined) /\ Failed # Undefined
  /\ Undefined.kind = "undefined"
BY DEF IsDouble, NaN, Failed, Number, Undefined

-----------------------------------------------------------------------------
(* What the members hold between two calls *)

KernelType ==
  /\ stat \in [1 .. 4 -> Counter] /\ times \in [1 .. 3 -> Counter]
  /\ diskstats \in [1 .. 2 -> Counter] /\ io \in [1 .. 2 -> Counter]
  /\ sda \in BOOLEAN /\ clock \in Int

\* Before the constructor nothing was read, and sda is there for it.
Untouched ==
  ~ constructed =>
    /\ sda /\ truth.kind = "none"
    /\ lastTotal = [i \in 1 .. 4 |-> Unset] /\ lastHddSystem = [i \in 1 .. 2 |-> Unset]

\* After it the members hold the counters as the last call of each getter saw them.
Members ==
  constructed =>
    /\ lastTotal = stat /\ lastTimes = times /\ numProcessors \in Nat
    /\ lastHddSelf = io /\ hddSystemLastMeasureTime = clock /\ hddSelfLastMeasureTime = clock
    /\ lastHddSystem = [i \in 1 .. 2 |-> IF sda THEN (diskstats[i] * SectorSize) % Word ELSE Unset]

\* Readings are doubles.
Doubles ==
  /\ IsDouble(cpu.system) /\ IsDouble(cpu.self)
  /\ IsDouble(ram.total) /\ IsDouble(ram.used) /\ IsDouble(ram.self)
  /\ \A i \in 1 .. 2 : IsDouble(hdd.system[i]) /\ IsDouble(hdd.self[i])

MembersInv == KernelType /\ Untouched /\ Members

(* Counters advance in their width.                                        *)
LEMMA AddCounters ==
  ASSUME NEW n \in Nat, NEW a \in [1 .. n -> Counter], NEW d \in [1 .. n -> Counter]
  PROVE  /\ Add(a, d) \in [1 .. n -> Counter]
         /\ \A i \in 1 .. n : Add(a, d)[i] = Plus(a[i], d[i])
BY PlusCounter DEF Add

(* A kind of processor time advances by less than its width.               *)
LEMMA CpuStepType ==
  ASSUME NEW d \in CpuSteps
  PROVE  d \in [1 .. 4 -> Counter] /\ Busy(d) \in Counter /\ Busy(d) + d[4] \in Counter
<1>1. d \in [1 .. 4 -> Nat] /\ d[1] + d[2] + d[3] + d[4] < Word /\ Word \in Nat
  BY StepsAssumption, WordAssumption
<1>2. d[1] \in Nat /\ d[2] \in Nat /\ d[3] \in Nat /\ d[4] \in Nat
  BY <1>1
<1>3. \A i \in 1 .. 4 : d[i] \in Counter
  BY <1>1, <1>2 DEF Counter
<1> QED
  BY <1>1, <1>2, <1>3 DEF Busy, Counter

(* The constructor reads everything.                                       *)
LEMMA InitMembers == Init => MembersInv
<1> SUFFICES ASSUME Init PROVE MembersInv
  OBVIOUS
<1>1. Word \in Nat /\ Word > 0 /\ 0 \in Counter /\ Word - 1 \in Counter
  BY WordAssumption DEF Counter
<1>2. KernelType
  BY <1>1 DEF Init, KernelType
<1>3. Untouched
  BY DEF Init, Untouched
<1>4. Members
  BY DEF Init, Members
<1> QED
  BY <1>2, <1>3, <1>4 DEF MembersInv

LEMMA ConstructMembers == MembersInv /\ Construct => MembersInv'
<1> SUFFICES ASSUME MembersInv, Construct PROVE MembersInv'
  OBVIOUS
<1>1. UNCHANGED kernel /\ constructed' /\ sda
  BY DEF Construct, MembersInv, Untouched
<1>2. KernelType' /\ Untouched'
  BY <1>1 DEF MembersInv, KernelType, Untouched, kernel
<1>3. Members'
  BY <1>1, SizesAssumption DEF Construct, initSystemCpuUsage, initSelfCpuUsage, initHddUsage,
                               kernel, Members
<1> QED
  BY <1>2, <1>3 DEF MembersInv

(* A reading of the processor keeps its values for the next one.           *)
LEMMA CpuMembers ==
  ASSUME MembersInv, NEW d \in CpuSteps, NEW p \in ProcSteps, getCpuState(d, p)
  PROVE  MembersInv'
<1>1. p \in [1 .. 3 -> Counter] /\ d \in [1 .. 4 -> Counter]
  BY StepsAssumption, CpuStepType
<1>2. stat' \in [1 .. 4 -> Counter] /\ times' \in [1 .. 3 -> Counter]
  BY <1>1, AddCounters DEF getCpuState, MembersInv, KernelType
<1>3. KernelType'
  BY <1>2 DEF getCpuState, MembersInv, KernelType
<1>4. Untouched' /\ Members'
  BY DEF getCpuState, Call, cpuLast, hddLast, MembersInv, Untouched, Members
<1> QED
  BY <1>3, <1>4 DEF MembersInv

(* So does one of the disk, also when sda is gone.                         *)
LEMMA HddMembers ==
  ASSUME MembersInv, NEW d \in DiskSteps, NEW s \in DiskSteps, NEW ms \in ClockSteps,
         NEW there \in BOOLEAN, getHddState(d, s, ms, there)
  PROVE  MembersInv'
<1>1. d \in [1 .. 2 -> Counter] /\ s \in [1 .. 2 -> Counter] /\ ms \in Int
  BY StepsAssumption
<1>2. diskstats' \in [1 .. 2 -> Counter] /\ io' \in [1 .. 2 -> Counter]
  BY <1>1, AddCounters DEF getHddState, MembersInv, KernelType
<1>3. KernelType'
  BY <1>1, <1>2 DEF getHddState, MembersInv, KernelType
<1>4. Untouched' /\ Members'
  BY DEF getHddState, Call, cpuLast, hddLast, SectorBytes, MembersInv, Untouched, Members
<1> QED
  BY <1>3, <1>4 DEF MembersInv

(* Every step keeps MembersInv.                                            *)
LEMMA StepMembers == MembersInv /\ [Next]_vars => MembersInv'
<1> SUFFICES ASSUME MembersInv, [Next]_vars PROVE MembersInv'
  OBVIOUS
<1>1. ASSUME NEW total \in MemorySizes, NEW free \in MemorySizes, NEW rss \in MemorySizes \cup {-1},
             getRamState(total, free, rss)
      PROVE  MembersInv'
  BY <1>1 DEF getRamState, Call, kernel, cpuLast, hddLast, MembersInv, KernelType, Untouched, Members
<1>2. CASE UNCHANGED vars
  BY <1>2 DEF vars, kernel, cpuLast, hddLast, MembersInv, KernelType, Untouched, Members
<1> QED
  BY <1>1, <1>2, ConstructMembers, CpuMembers, HddMembers DEF Next

-----------------------------------------------------------------------------
(* The readings *)

(* The processor usage is computed from the interval since the last call,  *)
(* unless a counter wrapped in it.                                         *)
LEMMA SystemCpuReading ==
  ASSUME KernelType, lastTotal = stat, NEW d \in CpuSteps, NEW total, total = Add(stat, d)
  PROVE  \/ getSystemCpuUsage(total) = Quotient(100 * Busy(d), Busy(d) + d[4])
         \/ getSystemCpuUsage(total) = Failed /\ \E i \in 1 .. 4 : total[i] < d[i]
<1>1. /\ d \in [1 .. 4 -> Counter] /\ stat \in [1 .. 4 -> Counter]
      /\ Busy(d) \in Counter /\ Busy(d) + d[4] \in Counter
  BY CpuStepType DEF KernelType
<1>2. \A i \in 1 .. 4 : total[i] = Plus(stat[i], d[i])
  BY <1>1 DEF Add
<1>3. \A i \in 1 .. 4 : /\ d[i] \in Counter
                        /\ Minus(total[i], lastTotal[i]) = d[i]
                        /\ total[i] < lastTotal[i] => total[i] < d[i]
  BY <1>1, <1>2, Advanced
<1>4. CASE \E i \in 1 .. 4 : total[i] < lastTotal[i]
  BY <1>3, <1>4 DEF getSystemCpuUsage
<1>5. CASE ~ \E i \in 1 .. 4 : total[i] < lastTotal[i]
  <2> DEFINE Since(i) == Minus(total[i], lastTotal[i])
             busy == Plus(Since(1), Plus(Since(2), Since(3)))
  <2>1. Since(1) = d[1] /\ Since(2) = d[2] /\ Since(3) = d[3] /\ Since(4) = d[4]
    BY <1>3
  <2>2. /\ d[1] \in Nat /\ d[2] \in Nat /\ d[3] \in Nat /\ d[4] \in Nat /\ Word \in Nat
        /\ d[1] + d[2] + d[3] < Word /\ d[1] + d[2] + d[3] + d[4] < Word
    BY <1>1, <1>3, WordAssumption DEF Busy, Counter
  <2>3. Plus(d[2], d[3]) = d[2] + d[3] /\ d[2] + d[3] \in Counter
    <3>1. d[2] + d[3] \in Counter /\ d[2] + d[3] < Word /\ d[2] \in Counter /\ d[3] \in Counter
      BY <1>3, <2>2 DEF Counter
    <3> QED
      BY <3>1, PlusCounter
  <2>4. Plus(d[1], d[2] + d[3]) = Busy(d)
    BY <1>3, <2>2, <2>3, PlusCounter DEF Busy
  <2>5. busy = Busy(d)
    BY <2>1, <2>3, <2>4
  <2>6. Plus(busy, Since(4)) = Busy(d) + d[4]
    BY <1>1, <1>3, <2>1, <2>2, <2>5, PlusCounter DEF Busy
  <2>7. getSystemCpuUsage(total) = Quotient(100 * busy, Plus(busy, Since(4)))
    BY <1>5 DEF getSystemCpuUsage
  <2> QED
    BY <2>5, <2>6, <2>7
<1> QED
  BY <1>4, <1>5

(* So is the monitor's own; an interval of no length gives -1.             *)
LEMMA SelfCpuReading ==
  ASSUME KernelType, lastTimes = times, NEW p \in ProcSteps, NEW t, t = Add(times, p)
  PROVE  \/ /\ getSelfCpuUsage(t) = Quotient(100 * (p[2] + p[3]), p[1] * numProcessors)
            /\ p[1] > 0
         \/ /\ getSelfCpuUsage(t) = Failed
            /\ p[1] = 0 \/ \E i \in 1 .. 3 : t[i] < p[i]
<1>1. p \in [1 .. 3 -> Counter] /\ times \in [1 .. 3 -> Counter]
  BY StepsAssumption DEF KernelType
<1>2. \A i \in 1 .. 3 : t[i] = Plus(times[i], p[i])
  BY <1>1 DEF Add
<1>3. \A i \in 1 .. 3 : /\ p[i] \in Nat /\ t[i] \in Nat /\ times[i] \in Nat
                        /\ t[i] < times[i] => t[i] < p[i]
                        /\ t[i] >= times[i] => t[i] = times[i] + p[i]
                        /\ t[i] = times[i] <=> p[i] = 0
  <2> SUFFICES ASSUME NEW i \in 1 .. 3
               PROVE  /\ p[i] \in Nat /\ t[i] \in Nat /\ times[i] \in Nat
                      /\ t[i] < times[i] => t[i] < p[i]
                      /\ t[i] >= times[i] => t[i] = times[i] + p[i]
                      /\ t[i] = times[i] <=> p[i] = 0
    OBVIOUS
  <2>1. p[i] \in Counter /\ times[i] \in Counter /\ t[i] \in Counter
    BY <1>1, <1>2, PlusCounter
  <2> QED
    BY <1>2, <2>1, Advanced, WordAssumption DEF Counter
<1>4. CASE t[1] <= lastTimes[1] \/ t[2] < lastTimes[2] \/ t[3] < lastTimes[3]
  <2>1. getSelfCpuUsage(t) = Failed
    BY <1>4 DEF getSelfCpuUsage
  <2>2. t[1] <= times[1] => t[1] = times[1] \/ t[1] < times[1]
    BY <1>3
  <2> QED
    BY <1>3, <1>4, <2>1, <2>2
<1>5. CASE ~ (t[1] <= lastTimes[1] \/ t[2] < lastTimes[2] \/ t[3] < lastTimes[3])
  <2>1. t[1] - times[1] = p[1] /\ t[2] - times[2] = p[2] /\ t[3] - times[3] = p[3] /\ p[1] > 0
    BY <1>3, <1>5
  <2>2. getSelfCpuUsage(t) = Quotient(100 * ((t[2] - lastTimes[2]) + (t[3] - lastTimes[3])),
                                      (t[1] - lastTimes[1]) * numProcessors)
    BY <1>5 DEF getSelfCpuUsage
  <2> QED
    BY <2>1, <2>2
<1> QED
  BY <1>4, <1>5

(* The disk rates are the traffic of the interval over its length.         *)
LEMMA HddReading ==
  ASSUME MembersInv, NEW d \in DiskSteps, NEW s \in DiskSteps, NEW ms \in ClockSteps,
         NEW there \in BOOLEAN, getHddState(d, s, ms, there), NEW i \in 1 .. 2
  PROVE  /\ hdd'.self[i] = Quotient(s[i], ms)
         /\ hdd'.system[i] = IF sda /\ there THEN Quotient(d[i] * SectorSize, ms) ELSE Undefined
         /\ s[i] \in Int /\ d[i] * SectorSize \in Int /\ ms \in Int
<1>1. /\ constructed /\ sda' = there /\ clock' = clock + ms
      /\ diskstats' = Add(diskstats, d) /\ io' = Add(io, s) /\ lastHddSelf' = io'
      /\ lastHddSystem'[i] = IF there THEN (diskstats'[i] * SectorSize) % Word ELSE Unset
  BY DEF getHddState, Call, SectorBytes
<1>2. /\ lastHddSelf = io /\ hddSystemLastMeasureTime = clock /\ hddSelfLastMeasureTime = clock
      /\ lastHddSystem[i] = IF sda THEN (diskstats[i] * SectorSize) % Word ELSE Unset
  BY <1>1 DEF MembersInv, Members
<1>3. /\ d \in [1 .. 2 -> Counter] /\ s \in [1 .. 2 -> Counter] /\ ms \in Int
      /\ SectorSize \in Nat /\ d[i] * SectorSize < Word
      /\ diskstats \in [1 .. 2 -> Counter] /\ io \in [1 .. 2 -> Counter] /\ clock \in Int
  BY StepsAssumption DEF MembersInv, KernelType
<1>4. diskstats'[i] = Plus(diskstats[i], d[i]) /\ io'[i] = Plus(io[i], s[i])
  BY <1>1, <1>3 DEF Add
<1>5. clock' - clock = ms
  BY <1>1, <1>3
<1>6. /\ hdd'.system[i] = Rate(lastHddSystem'[i], lastHddSystem[i], clock' - clock)
      /\ hdd'.self[i] = Rate(io'[i], io[i], clock' - clock)
  BY <1>1, <1>2 DEF getHddState
<1>7. \A n \in Counter : n # Unset
  BY WordAssumption DEF Counter, Unset
<1>8. hdd'.self[i] = Quotient(s[i], ms)
  <2>1. io[i] \in Counter /\ s[i] \in Counter /\ io'[i] \in Counter
    BY <1>3, <1>4, PlusCounter
  <2>2. Minus(io'[i], io[i]) = s[i]
    BY <1>4, <2>1, Advanced
  <2> QED
    BY <1>5, <1>6, <1>7, <2>1, <2>2 DEF Rate
<1>9. hdd'.system[i] = IF sda /\ there THEN Quotient(d[i] * SectorSize, ms) ELSE Undefined
  <2> DEFINE now == (diskstats'[i] * SectorSize) % Word
             last == (diskstats[i] * SectorSize) % Word
  <2>1. now \in Counter /\ last \in Counter /\ Minus(now, last) = d[i] * SectorSize
    BY <1>3, <1>4, AdvancedBytes
  <2> QED
    BY <1>1, <1>2, <1>5, <1>6, <1>7, <2>1 DEF Rate
<1>10. s[i] \in Int /\ d[i] * SectorSize \in Int
  <2>1. s[i] \in Int /\ d[i] \in Int
    BY <1>3, WordAssumption DEF Counter
  <2> QED
    BY <1>3, <2>1
<1> QED
  BY <1>3, <1>8, <1>9, <1>10

\* What the runs ask of the readings.
Readings == CpuOfThisInterval /\ SelfCpuOfThisInterval /\ RateOfThisInterval
              /\ UndefinedOnlyWithoutSda

ReadingsInv == MembersInv /\ Doubles /\ Readings

(* A reading of the processor is one of its interval.                      *)
LEMMA CpuReadings ==
  ASSUME ReadingsInv, NEW d \in CpuSteps, NEW p \in ProcSteps, getCpuState(d, p)
  PROVE  Doubles' /\ Readings'
<1>1. /\ constructed /\ stat' = Add(stat, d) /\ times' = Add(times, p)
      /\ cpu' = [system |-> getSystemCpuUsage(stat'), self |-> getSelfCpuUsage(times')]
      /\ truth' = [kind |-> "cpu", stat |-> d, times |-> p]
      /\ UNCHANGED <<numProcessors, ram, hdd>>
  BY DEF getCpuState, Call
<1>2. KernelType /\ lastTotal = stat /\ lastTimes = times /\ numProcessors \in Nat
  BY <1>1 DEF ReadingsInv, MembersInv, Members
<1>3. \/ cpu'.system = Quotient(100 * Busy(d), Busy(d) + d[4])
      \/ cpu'.system = Failed /\ \E i \in 1 .. 4 : stat'[i] < d[i]
  BY <1>1, <1>2, SystemCpuReading
<1>4. \/ /\ cpu'.self = Quotient(100 * (p[2] + p[3]), p[1] * numProcessors)
         /\ p[1] > 0
      \/ /\ cpu'.self = Failed
         /\ p[1] = 0 \/ \E i \in 1 .. 3 : times'[i] < p[i]
  BY <1>1, <1>2, SelfCpuReading
<1>5. IsDouble(cpu'.system) /\ IsDouble(cpu'.self)
  <2>1. Busy(d) \in Int /\ Busy(d) + d[4] \in Int
    BY CpuStepType, WordAssumption DEF Counter
  <2>2. p[1] \in Int /\ p[2] \in Int /\ p[3] \in Int
    BY StepsAssumption, WordAssumption DEF Counter
  <2>3. 100 * Busy(d) \in Int /\ 100 * (p[2] + p[3]) \in Int /\ p[1] * numProcessors \in Int
    BY <1>2, <2>1, <2>2
  <2> QED
    BY <1>3, <1>4, <2>1, <2>3, QuotientDouble, OtherDoubles
<1>6. Doubles'
  BY <1>1, <1>5 DEF ReadingsInv, Doubles
<1>7. CpuOfThisInterval' /\ SelfCpuOfThisInterval'
  BY <1>1, <1>3, <1>4 DEF CpuOfThisInterval, SelfCpuOfThisInterval, Busy
<1>8. RateOfThisInterval' /\ UndefinedOnlyWithoutSda'
  BY <1>1 DEF RateOfThisInterval, UndefinedOnlyWithoutSda
<1> QED
  BY <1>6, <1>7, <1>8 DEF Readings

(* So is a reading of the disk.                                            *)
LEMMA HddReadings ==
  ASSUME ReadingsInv, NEW d \in DiskSteps, NEW s \in DiskSteps, NEW ms \in ClockSteps,
         NEW there \in BOOLEAN, getHddState(d, s, ms, there)
  PROVE  Doubles' /\ Readings'
<1>1. \A i \in 1 .. 2 :
        /\ hdd'.self[i] = Quotient(s[i], ms)
        /\ hdd'.system[i] = IF sda /\ there THEN Quotient(d[i] * SectorSize, ms) ELSE Undefined
        /\ s[i] \in Int /\ d[i] * SectorSize \in Int /\ ms \in Int
  BY HddReading DEF ReadingsInv
<1>2. /\ truth' = [kind |-> "hdd", disk |-> d, io |-> s, ms |-> ms, there |-> <<sda, there>>]
      /\ UNCHANGED <<cpu, ram>>
  BY DEF getHddState
<1>3. \A i \in 1 .. 2 : /\ IsDouble(hdd'.self[i]) /\ hdd'.self[i] # Undefined
                        /\ IsDouble(hdd'.system[i])
                        /\ sda /\ there => hdd'.system[i] # Undefined
  BY <1>1, QuotientDouble, OtherDoubles
<1>4. Doubles'
  BY <1>2, <1>3 DEF ReadingsInv, Doubles
<1>5. RateOfThisInterval'
  BY <1>1, <1>2, OtherDoubles DEF RateOfThisInterval
<1>6. UndefinedOnlyWithoutSda'
  BY <1>2, <1>3 DEF UndefinedOnlyWithoutSda
<1>7. CpuOfThisInterval' /\ SelfCpuOfThisInterval'
  BY <1>2 DEF CpuOfThisInterval, SelfCpuOfThisInterval
<1> QED
  BY <1>4, <1>5, <1>6, <1>7 DEF Readings

(* Sizes of memory come out as doubles.                                    *)
LEMMA RamReadings ==
  ASSUME ReadingsInv, NEW total \in MemorySizes, NEW free \in MemorySizes,
         NEW rss \in MemorySizes \cup {-1}, getRamState(total, free, rss)
  PROVE  Doubles' /\ Readings'
<1>1. total \in Counter /\ free \in Counter /\ rss \in Int /\ total \in Int
  BY SizesAssumption, WordAssumption DEF Counter
<1>2. Minus(total, free) \in Int /\ 1024 * 1024 \in Int /\ 1024 \in Int
  BY <1>1, MinusCounter, WordAssumption DEF Counter
<1>3. ram' = RamState(total, free, rss) /\ truth'.kind = "ram" /\ UNCHANGED <<cpu, hdd>>
  BY DEF getRamState
<1>4. IsDouble(ram'.total) /\ IsDouble(ram'.used) /\ IsDouble(ram'.self)
  BY <1>1, <1>2, <1>3, QuotientDouble DEF RamState
<1>5. Doubles'
  BY <1>3, <1>4 DEF ReadingsInv, Doubles
<1>6. Readings'
  BY <1>3 DEF Readings, CpuOfThisInterval, SelfCpuOfThisInterval, RateOfThisInterval,
              UndefinedOnlyWithoutSda
<1> QED
  BY <1>5, <1>6

(* Before the first getter there is nothing to be right about; every step  *)
(* keeps ReadingsInv.                                                      *)
LEMMA InitReadings == Init => ReadingsInv
<1> SUFFICES ASSUME Init PROVE ReadingsInv
  OBVIOUS
<1>1. Doubles
  BY OtherDoubles DEF Init, Doubles
<1>2. Readings
  BY DEF Init, Readings, CpuOfThisInterval, SelfCpuOfThisInterval, RateOfThisInterval,
         UndefinedOnlyWithoutSda
<1> QED
  BY <1>1, <1>2, InitMembers DEF ReadingsInv

LEMMA StepReadings == ReadingsInv /\ [Next]_vars => ReadingsInv'
<1> SUFFICES ASSUME ReadingsInv, [Next]_vars PROVE ReadingsInv'
  OBVIOUS
<1>1. MembersInv'
  BY StepMembers DEF ReadingsInv
<1>2. CASE Construct
  <2>1. truth.kind = "none" /\ UNCHANGED <<truth, cpu, ram, hdd>>
    BY <1>2 DEF Construct, ReadingsInv, MembersInv, Untouched
  <2>2. Doubles'
    BY <2>1 DEF ReadingsInv, Doubles
  <2>3. Readings'
    BY <2>1 DEF Readings, CpuOfThisInterval, SelfCpuOfThisInterval, RateOfThisInterval,
                UndefinedOnlyWithoutSda
  <2> QED
    BY <1>1, <2>2, <2>3 DEF ReadingsInv
<1>3. CASE UNCHANGED vars
  <2>1. UNCHANGED <<truth, cpu, ram, hdd, stat, times, numProcessors>>
    BY <1>3 DEF vars, kernel, cpuLast
  <2>2. Doubles'
    BY <2>1 DEF ReadingsInv, Doubles
  <2>3. Readings'
    BY <2>1 DEF ReadingsInv, Readings, CpuOfThisInterval, SelfCpuOfThisInterval,
                RateOfThisInterval, UndefinedOnlyWithoutSda
  <2> QED
    BY <1>1, <2>2, <2>3 DEF ReadingsInv
<1> QED
  BY <1>1, <1>2, <1>3, CpuReadings, HddReadings, RamReadings DEF Next, ReadingsInv

-----------------------------------------------------------------------------
(* Theorems *)

(* Counters stay in their width and every reading is a double.             *)
THEOREM TypeCorrect == Spec => []TypeOK
<1>1. MembersInv => /\ lastTotal \in [1 .. 4 -> Counter \cup {Unset}]
                    /\ lastHddSystem \in [1 .. 2 -> Counter \cup {Unset}]
  <2> SUFFICES ASSUME MembersInv
               PROVE  /\ lastTotal \in [1 .. 4 -> Counter \cup {Unset}]
                      /\ lastHddSystem \in [1 .. 2 -> Counter \cup {Unset}]
    OBVIOUS
  <2>1. CASE ~ constructed
    BY <2>1 DEF MembersInv, Untouched
  <2>2. CASE constructed
    <3>1. lastTotal = stat /\ stat \in [1 .. 4 -> Counter]
      BY <2>2 DEF MembersInv, Members, KernelType
    <3>2. ASSUME NEW i \in 1 .. 2 PROVE (diskstats[i] * SectorSize) % Word \in Counter
      <4>1. diskstats[i] * SectorSize \in Int
        BY StepsAssumption, WordAssumption DEF MembersInv, KernelType, Counter
      <4> QED
        BY <4>1, WordAssumption DEF Counter
    <3>3. lastHddSystem =
            [i \in 1 .. 2 |-> IF sda THEN (diskstats[i] * SectorSize) % Word ELSE Unset]
      BY <2>2 DEF MembersInv, Members
    <3> QED
      BY <3>1, <3>2, <3>3
  <2> QED
    BY <2>1, <2>2
<1>2. ReadingsInv => TypeOK
  BY <1>1 DEF ReadingsInv, MembersInv, KernelType, Doubles, TypeOK
<1> QED
  BY InitReadings, StepReadings, <1>2, PTL DEF Spec

(* The processor usage reported is that of the interval since the last     *)
(* reading; one over which a counter wrapped is -1 and costs no other.     *)
THEOREM SystemCpuExact == Spec => []CpuOfThisInterval
<1>1. ReadingsInv => CpuOfThisInterval
  BY DEF ReadingsInv, Readings
<1> QED
  BY InitReadings, StepReadings, <1>1, PTL DEF Spec

(* The monitor's own usage is that of the interval too, and the code never *)
(* divides by an interval of no length.                                    *)
THEOREM SelfCpuExact == Spec => []SelfCpuOfThisInterval
<1>1. ReadingsInv => SelfCpuOfThisInterval
  BY DEF ReadingsInv, Readings
<1> QED
  BY InitReadings, StepReadings, <1>1, PTL DEF Spec

(* The disk rates are the traffic of the interval over its length, also    *)
(* when the counters, or the bytes computed from them, have wrapped.       *)
THEOREM RatesExact == Spec => []RateOfThisInterval
<1>1. ReadingsInv => RateOfThisInterval
  BY DEF ReadingsInv, Readings
<1> QED
  BY InitReadings, StepReadings, <1>1, PTL DEF Spec

(* A variable nothing was read into reaches a reading only when sda was    *)
(* gone at that reading or the one before.                                 *)
THEOREM UndefinedNeedsMissingDisk == Spec => []UndefinedOnlyWithoutSda
<1>1. ReadingsInv => UndefinedOnlyWithoutSda
  BY DEF ReadingsInv, Readings
<1> QED
  BY InitReadings, StepReadings, <1>1, PTL DEF Spec
==============================================================================
