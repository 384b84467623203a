---------------------- MODULE WindowsResProviderProofs ----------------------
(***************************************************************************)
(* Proofs about WindowsResProvider, for counters of any width, any traffic *)
(* and any number of readings, with every call that may fail failing in    *)
(* any of them.                                                            *)
(***************************************************************************)
EXTENDS WindowsResProvider, TLAPS

-----------------------------------------------------------------------------
(* Arithmetic of counters *)

(* Both operations give counters, whatever the sign of the step.           *)
LEMMA PlusStep ==
  ASSUME NEW a \in Counter, NEW d \in Int, -Word < d, d < Word
  PROVE  /\ Plus(a, d) \in Counter
         /\ Plus(a, d) \in {a + d, a + d - Word, a + d + Word}
BY WordAssumption DEF Counter, Plus

LEMMA MinusCounter ==
  ASSUME NEW a \in Counter, NEW b \in Counter
  PROVE  Minus(a, b) = IF b <= a THEN a - b ELSE a - b + Word
BY WordAssumption DEF Counter, Minus

(* The unsigned difference is the step, or a width more when the step was  *)
(* one back.                                                               *)
LEMMA StepOf ==
  ASSUME NEW a \in Counter, NEW d \in Int, -Word < d, d < Word
  PROVE  Minus(Plus(a, d), a) = IF d < 0 THEN d + Word ELSE d
<1> DEFINE b == Plus(a, d)
<1>1. /\ b \in Counter /\ b \in {a + d, a + d - Word, a + d + Word}
      /\ a \in 0 .. Word - 1 /\ b \in 0 .. Word - 1 /\ Word \in Nat
  BY PlusStep, WordAssumption DEF Counter
<1>2. Minus(b, a) = IF a <= b THEN b - a ELSE b - a + Word
  BY <1>1, MinusCounter
<1> HIDE DEF b
<1>3. Minus(b, a) = IF d < 0 THEN d + Word ELSE d
  BY <1>1, <1>2
<1> QED
  BY <1>3 DEF b

LEMMA Quotients ==
  /\ \A n, d : Quotient(n, d) # Undefined
  /\ \A n : Quotient(n, 0) \in {NaN, Infinite}
  /\ Failed # Undefined
BY DEF Quotient, Number, NaN, Infinite, Undefined, Failed

-----------------------------------------------------------------------------
(* What the members hold between two calls *)

Bytes == [1 .. 2 -> Nat]
Since == [bytes : Bytes, ms : Int, known : BOOLEAN]

MachineType ==
  /\ times \in [1 .. 3 -> Counter] /\ clock \in Nat /\ disk \in Bytes /\ io \in Bytes
  /\ sinceSelf \in Since /\ sinceSystem \in Since

\* Values read into the members with a time of measurement are those that since
\* counts from, and there is such a time when since says so.  It is the time at now.
CountedFrom(last, lastTime, now, at, since) ==
  /\ since.known => lastTime # Unset
  /\ lastTime # Unset =>
       /\ lastTime \in Nat /\ at = lastTime + since.ms
       /\ \A i \in 1 .. 2 : last[i] \in Nat /\ now[i] = last[i] + since.bytes[i]

SelfCounted   == CountedFrom(lastHddSelf, hddSelfLastMeasureTime, io, clock, sinceSelf)
SystemCounted == CountedFrom(lastHddSystem, hddSystemLastMeasureTime, disk, clock, sinceSystem)

\* Before the constructor no value was read.
Untouched ==
  ~ constructed =>
    /\ truth.kind = "none" /\ hddSelfLastMeasureTime = Unset /\ hddSystemLastMeasureTime = Unset

\* After it the processor times are those of the last call.
CpuMembers == constructed => lastTimes = times /\ numProcessors \in Nat

MembersInv ==
  MachineType /\ Untouched /\ CpuMembers /\ (constructed => SelfCounted /\ SystemCounted)

\* What the run asks of the readings.
Readings == RateSinceLastGood /\ UndefinedOnlyOnce /\ SelfCpuOfThisInterval

ReadingsInv == MembersInv /\ Readings

LEMMA InitReadings == Init => ReadingsInv
<1> SUFFICES ASSUME Init PROVE ReadingsInv
  OBVIOUS
<1>1. MachineType
  BY WordAssumption DEF Init, MachineType, Counter, Bytes, Since, Now
<1>2. Untouched /\ CpuMembers /\ (constructed => SelfCounted /\ SystemCounted)
  BY DEF Init, Untouched, CpuMembers
<1>3. Readings
  BY DEF Init, Readings, RateSinceLastGood, UndefinedOnlyOnce, SelfCpuOfThisInterval
<1> QED
  BY <1>1, <1>2, <1>3 DEF ReadingsInv, MembersInv

(* The constructor has both times of measurement or none; without them     *)
(* nothing is counted.                                                     *)
LEMMA ConstructReadings ==
  ASSUME ReadingsInv, NEW ioRead \in BOOLEAN, NEW diskRead \in BOOLEAN, Construct(ioRead, diskRead)
  PROVE  ReadingsInv'
<1>1. /\ UNCHANGED <<times, disk, io, clock, cpu, hddSelf, hddSystem, truth>>
      /\ constructed' /\ lastTimes' = times' /\ numProcessors' \in Nat
      /\ truth.kind = "none" /\ hddSelfLastMeasureTime = Unset /\ hddSystemLastMeasureTime = Unset
  BY SizesAssumption DEF Construct, initSelfCpuUsage, kernel, ReadingsInv, MembersInv, Untouched
<1>2. Now \in Since /\ \A i \in 1 .. 2 : Now.bytes[i] = 0
  BY DEF Now, Since, Bytes
<1>3. /\ sinceSelf' = [Now EXCEPT !.known = ioRead /\ diskRead] /\ sinceSelf' \in Since
      /\ sinceSystem' = [Now EXCEPT !.known = ioRead /\ diskRead] /\ sinceSystem' \in Since
  BY <1>2 DEF Construct, Since
<1>4. /\ MachineType' /\ Untouched' /\ CpuMembers' /\ Readings'
      /\ io \in Bytes /\ disk \in Bytes /\ clock \in Nat
  BY <1>1, <1>3 DEF ReadingsInv, MembersInv, MachineType, Untouched, CpuMembers, Readings,
                    RateSinceLastGood, UndefinedOnlyOnce, SelfCpuOfThisInterval
<1>5. CASE ioRead /\ diskRead
  <2>1. /\ hddSelfLastMeasureTime' = clock /\ hddSystemLastMeasureTime' = clock
        /\ lastHddSelf' = io /\ lastHddSystem' = disk
    BY <1>5 DEF Construct, initHddUsage
  <2>2. /\ sinceSelf'.ms = 0 /\ \A i \in 1 .. 2 : sinceSelf'.bytes[i] = 0
        /\ sinceSystem'.ms = 0 /\ \A i \in 1 .. 2 : sinceSystem'.bytes[i] = 0
    BY <1>2, <1>3 DEF Now, Since
  <2>3. SelfCounted' /\ SystemCounted'
    BY <1>1, <1>4, <2>1, <2>2 DEF SelfCounted, SystemCounted, CountedFrom, Unset, Bytes
  <2> QED
    BY <1>4, <2>3 DEF ReadingsInv, MembersInv
<1>6. CASE ~ (ioRead /\ diskRead)
  <2>1. hddSelfLastMeasureTime' = Unset /\ hddSystemLastMeasureTime' = Unset
    BY <1>1, <1>6 DEF Construct, initHddUsage
  <2>2. ~ sinceSelf'.known /\ ~ sinceSystem'.known
    BY <1>2, <1>3, <1>6 DEF Since
  <2>3. SelfCounted' /\ SystemCounted'
    BY <2>1, <2>2 DEF SelfCounted, SystemCounted, CountedFrom
  <2> QED
    BY <1>4, <2>3 DEF ReadingsInv, MembersInv
<1> QED
  BY <1>5, <1>6

(* The process's own usage is computed from the interval since the last    *)
(* call.                                                                   *)
LEMMA SelfCpuReading ==
  ASSUME MembersInv, constructed, NEW p \in ProcSteps, NEW t, t = [i \in 1 .. 3 |-> Plus(times[i], p[i])]
  PROVE  /\ t \in [1 .. 3 -> Counter]
         /\ getSelfCpuUsage(t) =
              Quotient(100 * (p[2] + p[3]), (IF p[1] < 0 THEN p[1] + Word ELSE p[1]) * numProcessors)
<1>1. /\ p[1] \in Int /\ -Word < p[1] /\ p[1] < Word /\ p[2] \in Nat /\ p[3] \in Nat
      /\ p[2] + p[3] < Word /\ Word \in Nat
  BY StepsAssumption, WordAssumption
<1>2. \A i \in 1 .. 3 : p[i] \in Int /\ -Word < p[i] /\ p[i] < Word
  BY <1>1
<1>3. \A i \in 1 .. 3 : times[i] \in Counter /\ lastTimes[i] = times[i]
  BY DEF MembersInv, MachineType, CpuMembers
<1>4. \A i \in 1 .. 3 : /\ t[i] \in Counter
                        /\ Minus(t[i], lastTimes[i]) = IF p[i] < 0 THEN p[i] + Word ELSE p[i]
  BY <1>2, <1>3, PlusStep, StepOf
<1>5. Plus(p[2], p[3]) = p[2] + p[3]
  BY <1>1, WordAssumption DEF Plus
<1>6. /\ Minus(t[1], lastTimes[1]) = IF p[1] < 0 THEN p[1] + Word ELSE p[1]
      /\ Minus(t[2], lastTimes[2]) = p[2] /\ Minus(t[3], lastTimes[3]) = p[3]
  BY <1>1, <1>4
<1> QED
  BY <1>4, <1>5, <1>6 DEF getSelfCpuUsage

LEMMA CpuReadings ==
  ASSUME ReadingsInv, NEW p \in ProcSteps, getCpuState(p)
  PROVE  ReadingsInv'
<1>1. /\ constructed /\ constructed' /\ times' = [i \in 1 .. 3 |-> Plus(times[i], p[i])]
      /\ cpu'.self = getSelfCpuUsage(times') /\ lastTimes' = times'
      /\ truth' = [kind |-> "cpu", times |-> p]
      /\ UNCHANGED <<disk, io, clock, numProcessors, lastHddSelf, hddSelfLastMeasureTime, lastHddSystem,
                     hddSystemLastMeasureTime, sinceSelf, sinceSystem>>
  BY DEF getCpuState, Call, selfLast, systemLast
<1>2. /\ times' \in [1 .. 3 -> Counter]
      /\ cpu'.self = Quotient(100 * (p[2] + p[3]),
                              (IF p[1] < 0 THEN p[1] + Word ELSE p[1]) * numProcessors)
  BY <1>1, SelfCpuReading DEF ReadingsInv
<1>3. MembersInv'
  BY <1>1, <1>2 DEF ReadingsInv, MembersInv, MachineType, Untouched, CpuMembers, SelfCounted,
                    SystemCounted, CountedFrom
<1>4. p[1] \in Int /\ numProcessors \in Nat
  BY <1>1, StepsAssumption DEF ReadingsInv, MembersInv, CpuMembers
<1>5. p[1] = 0 => cpu'.self \in {NaN, Infinite}
  <2>1. p[1] = 0 => (IF p[1] < 0 THEN p[1] + Word ELSE p[1]) * numProcessors = 0
    BY <1>4
  <2> QED
    BY <1>2, <2>1, Quotients
<1>6. SelfCpuOfThisInterval'
  BY <1>1, <1>2, <1>4, <1>5 DEF SelfCpuOfThisInterval
<1>7. RateSinceLastGood' /\ UndefinedOnlyOnce'
  BY <1>1 DEF RateSinceLastGood, UndefinedOnlyOnce
<1> QED
  BY <1>3, <1>6, <1>7 DEF ReadingsInv, Readings

-----------------------------------------------------------------------------
(* One disk reading, for either pair of members *)

(* What has gone by grows with the traffic and the time.                   *)
LEMMA LaterSince ==
  ASSUME NEW since \in Since, NEW s \in Bytes, NEW ms \in Int
  PROVE  /\ Later(since, s, ms) \in Since /\ Later(since, s, ms).known = since.known
         /\ Later(since, s, ms).ms = since.ms + ms
         /\ \A i \in 1 .. 2 : Later(since, s, ms).bytes[i] = since.bytes[i] + s[i]
<1> DEFINE sum == <<since.bytes[1] + s[1], since.bytes[2] + s[2]>>
<1>1. sum \in Bytes /\ \A i \in 1 .. 2 : sum[i] = since.bytes[i] + s[i]
  BY DEF Since, Bytes
<1> HIDE DEF sum
<1>2. Later(since, s, ms) = [since EXCEPT !.bytes = sum, !.ms = since.ms + ms]
  BY DEF Later, sum
<1>3. [since EXCEPT !.bytes = sum, !.ms = since.ms + ms]
        = [bytes |-> sum, ms |-> since.ms + ms, known |-> since.known]
  <2> DEFINE first == [since EXCEPT !.bytes = sum]
  <2>1. first \in Since /\ first.bytes = sum /\ first.ms = since.ms /\ first.known = since.known
    BY <1>1 DEF Since
  <2> HIDE DEF first
  <2>2. [first EXCEPT !.ms = since.ms + ms]
          = [bytes |-> sum, ms |-> since.ms + ms, known |-> since.known]
    BY <2>1 DEF Since
  <2> QED
    BY <2>2 DEF first
<1>4. since.ms + ms \in Int /\ since.known \in BOOLEAN
  BY DEF Since
<1>5. Later(since, s, ms) = [bytes |-> sum, ms |-> since.ms + ms, known |-> since.known]
  BY <1>2, <1>3
<1>6. Later(since, s, ms) \in Since
  BY <1>1, <1>4, <1>5 DEF Since
<1> QED
  BY <1>1, <1>5, <1>6

(* A reading that succeeds divides all that has gone by since the members  *)
(* were read, and has no value only when they were not.                    *)
LEMMA RatesOfInterval ==
  ASSUME NEW last, NEW lastTime, NEW now \in Bytes, NEW since \in Since, NEW s \in Bytes,
         NEW ms \in Int, clock \in Nat, clock' = clock + ms,
         CountedFrom(last, lastTime, now, clock, since), NEW i \in 1 .. 2
  PROVE  LET rate == Rates([j \in 1 .. 2 |-> now[j] + s[j]], last, lastTime)[i]
         IN  /\ rate \in {Quotient(Later(since, s, ms).bytes[i], Later(since, s, ms).ms), Undefined}
             /\ rate = Undefined => ~ since.known
<1> DEFINE next == [j \in 1 .. 2 |-> now[j] + s[j]]
<1>1. CASE lastTime = Unset
  BY <1>1 DEF Rates, CountedFrom
<1>2. CASE lastTime # Unset
  <2>1. /\ lastTime \in Nat /\ since.ms \in Int /\ clock = lastTime + since.ms
        /\ last[i] \in Nat /\ since.bytes[i] \in Nat /\ now[i] = last[i] + since.bytes[i]
        /\ s[i] \in Nat
    BY <1>2 DEF CountedFrom, Since, Bytes
  <2>2. Rates(next, last, lastTime)[i] = Quotient(next[i] - last[i], clock' - lastTime)
    BY <1>2, <2>1 DEF Rates, Rate, Unset
  <2>3. next[i] - last[i] = since.bytes[i] + s[i] /\ clock' - lastTime = since.ms + ms
    BY <2>1
  <2>4. /\ Later(since, s, ms).bytes[i] = since.bytes[i] + s[i]
        /\ Later(since, s, ms).ms = since.ms + ms
    BY LaterSince
  <2>5. Rates(next, last, lastTime)[i]
          = Quotient(Later(since, s, ms).bytes[i], Later(since, s, ms).ms)
    BY <2>2, <2>3, <2>4
  <2> QED
    BY <2>5, Quotients
<1> QED
  BY <1>1, <1>2

(* One that fails leaves the members, and more has gone by since.          *)
LEMMA FailedStaysCounted ==
  ASSUME NEW last, NEW lastTime, NEW now \in Bytes, NEW since \in Since, NEW s \in Bytes,
         NEW ms \in Int, NEW at \in Nat, CountedFrom(last, lastTime, now, at, since)
  PROVE  CountedFrom(last, lastTime, [j \in 1 .. 2 |-> now[j] + s[j]], at + ms, Later(since, s, ms))
<1>1. CASE lastTime = Unset
  BY <1>1, LaterSince DEF CountedFrom
<1>2. CASE lastTime # Unset
  <2>1. /\ lastTime \in Nat /\ since.ms \in Int /\ at = lastTime + since.ms
        /\ \A i \in 1 .. 2 : /\ last[i] \in Nat /\ since.bytes[i] \in Nat /\ s[i] \in Nat
                             /\ now[i] = last[i] + since.bytes[i]
    BY <1>2 DEF CountedFrom, Since, Bytes
  <2>2. at + ms = lastTime + (since.ms + ms)
    BY <2>1
  <2>3. \A i \in 1 .. 2 : now[i] + s[i] = last[i] + (since.bytes[i] + s[i])
    BY <2>1
  <2> QED
    BY <1>2, <2>1, <2>2, <2>3, LaterSince DEF CountedFrom
<1> QED
  BY <1>1, <1>2

(* One that succeeds counts from here.                                     *)
LEMMA NowIsCounted ==
  ASSUME NEW now \in Bytes, NEW at \in Nat
  PROVE  Now \in Since /\ CountedFrom(now, at, now, at, Now)
<1>1. Now \in Since /\ Now.ms = 0 /\ \A i \in 1 .. 2 : Now.bytes[i] = 0
  BY DEF Now, Since, Bytes
<1> QED
  BY <1>1 DEF CountedFrom, Unset, Bytes

(* A disk reading keeps both pairs counted, and is the rate of what each   *)
(* counts.                                                                 *)
LEMMA HddReadings ==
  ASSUME ReadingsInv, NEW d \in DiskSteps, NEW s \in DiskSteps, NEW ms \in ClockSteps,
         NEW diskRead \in BOOLEAN, NEW ioRead \in BOOLEAN, getHddState(d, s, ms, diskRead, ioRead)
  PROVE  ReadingsInv'
<1> DEFINE self == Later(sinceSelf, s, ms)
           system == Later(sinceSystem, d, ms)
<1>1. d \in Bytes /\ s \in Bytes /\ ms \in Int
  BY StepsAssumption DEF Bytes
<1>2. /\ constructed /\ constructed'
      /\ disk' = [j \in 1 .. 2 |-> disk[j] + d[j]] /\ io' = [j \in 1 .. 2 |-> io[j] + s[j]]
      /\ clock' = clock + ms /\ clock' >= 0
      /\ truth' = [kind |-> "hdd", system |-> system, self |-> self]
      /\ sinceSystem' = IF diskRead THEN Now ELSE system
      /\ sinceSelf' = IF ioRead THEN Now ELSE self
      /\ UNCHANGED <<times, lastTimes, numProcessors, cpu>>
  BY DEF getHddState, Call, cpuLast
<1>3. MachineType /\ SelfCounted /\ SystemCounted
  BY <1>2 DEF ReadingsInv, MembersInv
<1>4. disk' \in Bytes /\ io' \in Bytes /\ clock \in Nat /\ clock' \in Nat
  BY <1>1, <1>2, <1>3 DEF MachineType, Bytes
<1>5. self \in Since /\ system \in Since /\ Now \in Since
  BY <1>1, <1>3, <1>4, LaterSince, NowIsCounted DEF MachineType
<1>6. MachineType' /\ Untouched' /\ CpuMembers'
  BY <1>2, <1>3, <1>4, <1>5 DEF MachineType, Untouched, ReadingsInv, MembersInv, CpuMembers
<1>7. SelfCounted'
  <2>1. CASE ioRead
    BY <1>2, <1>4, <2>1, NowIsCounted DEF getHddState, getHddSelfUsage, SelfCounted
  <2>2. CASE ~ ioRead
    <3>1. CountedFrom(lastHddSelf, hddSelfLastMeasureTime, io', clock', self)
      BY <1>1, <1>2, <1>3, <1>4, FailedStaysCounted DEF SelfCounted, MachineType
    <3> QED
      BY <1>2, <2>2, <3>1 DEF getHddState, getHddSelfUsage, selfLast, SelfCounted
  <2> QED
    BY <2>1, <2>2
<1>8. SystemCounted'
  <2>1. CASE diskRead
    BY <1>2, <1>4, <2>1, NowIsCounted DEF getHddState, getHddSystemUsage, SystemCounted
  <2>2. CASE ~ diskRead
    <3>1. CountedFrom(lastHddSystem, hddSystemLastMeasureTime, disk', clock', system)
      BY <1>1, <1>2, <1>3, <1>4, FailedStaysCounted DEF SystemCounted, MachineType
    <3> QED
      BY <1>2, <2>2, <3>1 DEF getHddState, getHddSystemUsage, systemLast, SystemCounted
  <2> QED
    BY <2>1, <2>2
<1>9. \A i \in 1 .. 2 : /\ hddSelf'[i] \in {Quotient(self.bytes[i], self.ms), Failed, Undefined}
                        /\ hddSelf'[i] = Undefined => ~ self.known
  <2>1. CASE ioRead
    <3>1. hddSelf' = Rates(io', lastHddSelf, hddSelfLastMeasureTime)
      BY <2>1 DEF getHddState, getHddSelfUsage
    <3>2. ASSUME NEW i \in 1 .. 2
          PROVE  LET rate == Rates([j \in 1 .. 2 |-> io[j] + s[j]], lastHddSelf, hddSelfLastMeasureTime)[i]
                 IN  /\ rate \in {Quotient(self.bytes[i], self.ms), Undefined}
                     /\ rate = Undefined => ~ sinceSelf.known
      BY <1>1, <1>2, <1>3, <1>4, RatesOfInterval DEF SelfCounted, MachineType
    <3>3. self.known = sinceSelf.known
      BY <1>1, <1>3, LaterSince DEF MachineType
    <3> QED
      BY <1>2, <3>1, <3>2, <3>3
  <2>2. CASE ~ ioRead
    BY <2>2, Quotients DEF getHddState, getHddSelfUsage
  <2> QED
    BY <2>1, <2>2
<1>10. \A i \in 1 .. 2 : /\ hddSystem'[i] \in {Quotient(system.bytes[i], system.ms), Failed, Undefined}
                         /\ hddSystem'[i] = Undefined => ~ system.known
  <2>1. CASE diskRead
    <3>1. hddSystem' = Rates(disk', lastHddSystem, hddSystemLastMeasureTime)
      BY <2>1 DEF getHddState, getHddSystemUsage
    <3>2. ASSUME NEW i \in 1 .. 2
          PROVE  LET rate == Rates([j \in 1 .. 2 |-> disk[j] + d[j]], lastHddSystem, hddSystemLastMeasureTime)[i]
                 IN  /\ rate \in {Quotient(system.bytes[i], system.ms), Undefined}
                     /\ rate = Undefined => ~ sinceSystem.known
      BY <1>1, <1>2, <1>3, <1>4, RatesOfInterval DEF SystemCounted, MachineType
    <3>3. system.known = sinceSystem.known
      BY <1>1, <1>3, LaterSince DEF MachineType
    <3> QED
      BY <1>2, <3>1, <3>2, <3>3
  <2>2. CASE ~ diskRead
    BY <2>2, Quotients DEF getHddState, getHddSystemUsage
  <2> QED
    BY <2>1, <2>2
<1>11. RateSinceLastGood' /\ UndefinedOnlyOnce'
  BY <1>2, <1>9, <1>10 DEF RateSinceLastGood, UndefinedOnlyOnce
<1>12. SelfCpuOfThisInterval'
  BY <1>2 DEF SelfCpuOfThisInterval
<1> QED
  BY <1>2, <1>6, <1>7, <1>8, <1>11, <1>12 DEF ReadingsInv, MembersInv, Readings

(* Every step keeps ReadingsInv.                                           *)
LEMMA StepReadings == ReadingsInv /\ [Next]_vars => ReadingsInv'
<1> SUFFICES ASSUME ReadingsInv, [Next]_vars PROVE ReadingsInv'
  OBVIOUS
<1> USE DEF ReadingsInv, MembersInv, MachineType, Untouched, CpuMembers, SelfCounted, SystemCounted,
            CountedFrom, Readings, RateSinceLastGood, UndefinedOnlyOnce, SelfCpuOfThisInterval
<1>1. ASSUME NEW total \in MemorySizes, NEW free \in MemorySizes, NEW rss \in MemorySizes,
             getRamState(total, free, rss)
      PROVE  ReadingsInv'
  BY <1>1 DEF getRamState, Call, kernel, cpuLast, selfLast, systemLast
<1>2. CASE UNCHANGED vars
  BY <1>2 DEF vars, kernel, cpuLast, selfLast, systemLast
<1> QED
  BY <1>1, <1>2, ConstructReadings, CpuReadings, HddReadings DEF Next

-----------------------------------------------------------------------------
(* Theorems *)

(* A disk reading that succeeds covers all the traffic and time since the  *)
(* last one that did, whichever of the calls in between failed.            *)
THEOREM RatesCoverTheGap == Spec => []RateSinceLastGood
<1>1. ReadingsInv => RateSinceLastGood
  BY DEF ReadingsInv, Readings
<1> QED
  BY InitReadings, StepReadings, <1>1, PTL DEF Spec

(* A member without a value reaches a reading only when the constructor    *)
(* could not set it, and then only the first that succeeds.                *)
THEOREM UndefinedAtMostOnce == Spec => []UndefinedOnlyOnce
<1>1. ReadingsInv => UndefinedOnlyOnce
  BY DEF ReadingsInv, Readings
<1> QED
  BY InitReadings, StepReadings, <1>1, PTL DEF Spec

(* The process's own usage is exact when the clock moved forward, no       *)
(* number when it stood still and a width too small when it was set back.  *)
THEOREM SelfCpuKnown == Spec => []SelfCpuOfThisInterval
<1>1. ReadingsInv => SelfCpuOfThisInterval
  BY DEF ReadingsInv, Readings
<1> QED
  BY InitReadings, StepReadings, <1>1, PTL DEF Spec
=============================================================================
