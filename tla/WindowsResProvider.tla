------------------------ MODULE WindowsResProvider ------------------------
(***************************************************************************)
(* WindowsResProvider: the same readings as LinuxResProvider, taken from   *)
(* calls of Win32 and PDH that may fail.  A failed disk reading is         *)
(* reported as -1 and leaves the members alone; a failed call in the       *)
(* constructor leaves members without a value.  One getter is one step,    *)
(* with what the machine did since the getter before.                      *)
(***************************************************************************)
EXTENDS CounterReadings

CONSTANTS
  ProcSteps,     \* how far <<time of day, kernel time, user time>> may get between readings
  DiskSteps,     \* the same for <<read, written>> bytes
  ClockSteps,    \* milliseconds between two readings, negative when the clock is set back
  Processors,    \* the numbers of processors
  MemorySizes,   \* sizes of memory, total, free or resident
  MaxReadings    \* bound on the number of getter calls

(* Between two readings the time of day moves by less than the width of    *)
(* its counter, forward or back; the times of the process and the bytes    *)
(* only grow.                                                              *)
ASSUME StepsAssumption ==
  /\ \A p \in ProcSteps :
       /\ p \in [1 .. 3 -> Int] /\ -Word < p[1] /\ p[1] < Word
       /\ p[2] \in Nat /\ p[3] \in Nat /\ p[2] + p[3] < Word
  /\ DiskSteps \subseteq [1 .. 2 -> Nat] /\ ClockSteps \subseteq Int

ASSUME SizesAssumption == Processors \subseteq Nat

VARIABLES
  times,         \* the time of day and GetProcessTimes: kernel, user
  disk, io,      \* the counters of PhysicalDrive0 and of this process: read, written
  clock,         \* system_clock in milliseconds
  pdh,           \* does the PDH counter give a value?
  lastTimes, numProcessors,
  lastHddSystem, lastHddSelf, hddSystemLastMeasureTime, hddSelfLastMeasureTime,
  constructed,
  cpu, ram, hddSystem, hddSelf,  \* the states the getters returned last
  truth,         \* what happened in the interval of a processor reading
  sinceSelf, sinceSystem,  \* traffic and time since the values in the members were read
  readings

kernel  == <<times, disk, io, clock, pdh>>
cpuLast == <<lastTimes, numProcessors>>
selfLast   == <<lastHddSelf, hddSelfLastMeasureTime>>
systemLast == <<lastHddSystem, hddSystemLastMeasureTime>>
vars == <<kernel, cpuLast, selfLast, systemLast, constructed, cpu, ram, hddSystem, hddSelf, truth,
          sinceSelf, sinceSystem, readings>>

-----------------------------------------------------------------------------
\* Mutant: the unsigned differences are taken as they are.
getSelfCpuUsageSigned(t) ==
  Quotient(100 * (t[2] - lastTimes[2] + t[3] - lastTimes[3]), (t[1] - lastTimes[1]) * numProcessors)

(* getSystemCpuUsage: whether PDH gave a value is not tested.              *)
getSystemCpuUsage == IF pdh THEN Quotient(50, 1) ELSE Undefined

(* getSelfCpuUsage: unsigned differences and no test of any of them.       *)
getSelfCpuUsage(t) ==
  LET Since(i) == Minus(t[i], lastTimes[i])
  IN Quotient(100 * Plus(Since(2), Since(3)), Since(1) * numProcessors)

(* The rate of one direction; a member never set makes it undefined.       *)
Rate(now, last, ms) ==
  IF last = Unset THEN Undefined ELSE Quotient(now - last, ms)

Rates(now, last, lastTime) ==
  IF lastTime = Unset THEN <<Undefined, Undefined>>
  ELSE [i \in 1 .. 2 |-> Rate(now[i], last[i], clock' - lastTime)]

(* What has gone by since the values in the members were read; known says  *)
(* that they were.                                                         *)
Now == [bytes |-> <<0, 0>>, ms |-> 0, known |-> TRUE]
Later(since, d, ms) ==
  [since EXCEPT !.bytes = <<@[1] + d[1], @[2] + d[2]>>, !.ms = @ + ms]

-----------------------------------------------------------------------------
Init ==
  /\ times \in {<<0, 0, 0>>, <<Word - 1, Word - 1, 0>>}
  /\ disk = <<0, 1>> /\ io = <<1, 0>> /\ clock = 10 /\ pdh \in BOOLEAN
  /\ lastTimes = <<Unset, Unset, Unset>> /\ numProcessors = Unset
  /\ lastHddSystem = <<Unset, Unset>> /\ lastHddSelf = <<Unset, Unset>>
  /\ hddSystemLastMeasureTime = Unset /\ hddSelfLastMeasureTime = Unset
  /\ constructed = FALSE
  /\ cpu = [system |-> NaN, self |-> NaN]
  /\ ram = [total |-> NaN, used |-> NaN, self |-> NaN]
  /\ hddSystem = <<NaN, NaN>> /\ hddSelf = <<NaN, NaN>>
  /\ truth = [kind |-> "none"] /\ sinceSelf = Now /\ sinceSystem = Now /\ readings = 0

\* Mutant: the constructor leaves the disk values to the first reading.
ConstructWithoutDisk(ioRead, diskRead) ==
  /\ ~ constructed
  /\ constructed' = TRUE
  /\ numProcessors' \in Processors /\ lastTimes' = times
  /\ sinceSelf' = [Now EXCEPT !.known = ioRead /\ diskRead]
  /\ sinceSystem' = [Now EXCEPT !.known = ioRead /\ diskRead]
  /\ UNCHANGED <<selfLast, systemLast, kernel, cpu, ram, hddSystem, hddSelf, truth, readings>>

(* The constructor.  initHddUsage stops at the first call that fails, and  *)
(* both measure times are set at its end only.                             *)
initSelfCpuUsage == numProcessors' \in Processors /\ lastTimes' = times
initHddUsage(ioRead, diskRead) ==
  /\ lastHddSelf' = IF ioRead THEN io ELSE lastHddSelf
  /\ lastHddSystem' = IF ioRead /\ diskRead THEN disk ELSE lastHddSystem
  /\ IF ioRead /\ diskRead
       THEN hddSystemLastMeasureTime' = clock /\ hddSelfLastMeasureTime' = clock
       ELSE UNCHANGED <<hddSystemLastMeasureTime, hddSelfLastMeasureTime>>

Construct(ioRead, diskRead) ==
  /\ ~ constructed
  /\ constructed' = TRUE
  /\ initSelfCpuUsage /\ initHddUsage(ioRead, diskRead)
  /\ sinceSelf' = [Now EXCEPT !.known = ioRead /\ diskRead]
  /\ sinceSystem' = [Now EXCEPT !.known = ioRead /\ diskRead]
  /\ UNCHANGED <<kernel, cpu, ram, hddSystem, hddSelf, truth, readings>>

Call == constructed /\ readings < MaxReadings /\ readings' = readings + 1

(* getCpuState: the share PDH computes between two collections of its      *)
(* query, and the process's own time since the call before.                *)
getCpuState(p) ==
  /\ Call
  /\ times' = [i \in 1 .. 3 |-> Plus(times[i], p[i])]
  /\ cpu' = [system |-> getSystemCpuUsage, self |-> getSelfCpuUsage(times')]
  /\ lastTimes' = times'
  /\ truth' = [kind |-> "cpu", times |-> p]
  /\ UNCHANGED <<disk, io, clock, pdh, numProcessors, selfLast, systemLast, constructed, ram, hddSelf,
                 hddSystem, sinceSelf, sinceSystem>>

\* Mutant: the time of a failed reading is taken all the same.
getHddSelfUsageTakesTime(ioRead) ==
  /\ hddSelf' = IF ioRead THEN Rates(io', lastHddSelf, hddSelfLastMeasureTime)
                 ELSE <<Failed, Failed>>
  /\ lastHddSelf' = IF ioRead THEN io' ELSE lastHddSelf
  /\ hddSelfLastMeasureTime' = clock'

(* getHddSelfUsage and getHddSystemUsage, each with the outcome of its call. *)
getHddSelfUsage(ioRead) ==
  IF ioRead
    THEN /\ hddSelf' = Rates(io', lastHddSelf, hddSelfLastMeasureTime)
         /\ lastHddSelf' = io' /\ hddSelfLastMeasureTime' = clock'
    ELSE hddSelf' = <<Failed, Failed>> /\ UNCHANGED selfLast

getHddSystemUsage(diskRead) ==
  IF diskRead
    THEN /\ hddSystem' = Rates(disk', lastHddSystem, hddSystemLastMeasureTime)
         /\ lastHddSystem' = disk' /\ hddSystemLastMeasureTime' = clock'
    ELSE hddSystem' = <<Failed, Failed>> /\ UNCHANGED systemLast

(* getHddState, with the traffic d and s and the time ms since the last;   *)
(* the machine's clock is never before 1970.                               *)
getHddState(d, s, ms, diskRead, ioRead) ==
  /\ Call
  /\ disk' = [i \in 1 .. 2 |-> disk[i] + d[i]] /\ io' = [i \in 1 .. 2 |-> io[i] + s[i]]
  /\ clock' = clock + ms /\ clock' >= 0
  /\ getHddSystemUsage(diskRead) /\ getHddSelfUsage(ioRead)
  /\ truth' = [kind |-> "hdd", system |-> Later(sinceSystem, d, ms), self |-> Later(sinceSelf, s, ms)]
  /\ sinceSystem' = IF diskRead THEN Now ELSE truth'.system
  /\ sinceSelf' = IF ioRead THEN Now ELSE truth'.self
  /\ UNCHANGED <<times, pdh, cpuLast, constructed, cpu, ram>>

(* getRamState: the three sizes are what the system says.                  *)
getRamState(total, free, rss) ==
  /\ Call
  /\ ram' = [total |-> Quotient(total, 1000000), used |-> Quotient(Minus(total, free), 1000000),
             self |-> Quotient(rss, 1000000)]
  /\ truth' = [kind |-> "ram"]
  /\ UNCHANGED <<kernel, cpuLast, selfLast, systemLast, constructed, cpu, hddSelf, hddSystem,
                 sinceSelf, sinceSystem>>

Next ==
  \/ \E ioRead, diskRead \in BOOLEAN : Construct(ioRead, diskRead)
  \/ \E p \in ProcSteps : getCpuState(p)
  \/ \E total, free, rss \in MemorySizes : free <= total /\ getRamState(total, free, rss)
  \/ \E d, s \in DiskSteps, ms \in ClockSteps, diskRead, ioRead \in BOOLEAN :
       getHddState(d, s, ms, diskRead, ioRead)

Spec == Init /\ [][Next]_vars

-----------------------------------------------------------------------------
(* A disk reading that succeeds covers all the traffic and all the time    *)
(* since the last one that did: a failed one in between is not lost and    *)
(* not counted twice.                                                      *)
RateSinceLastGood ==
  truth.kind = "hdd" => \A i \in 1 .. 2 :
    /\ hddSelf[i] \in {Quotient(truth.self.bytes[i], truth.self.ms), Failed, Undefined}
    /\ hddSystem[i] \in {Quotient(truth.system.bytes[i], truth.system.ms), Failed, Undefined}

(* A member without a value reaches a reading only when the constructor    *)
(* could not read it, and then only the first successful one.              *)
UndefinedOnlyOnce ==
  truth.kind = "hdd" => \A i \in 1 .. 2 :
    /\ hddSelf[i] = Undefined => ~ truth.self.known
    /\ hddSystem[i] = Undefined => ~ truth.system.known

(* The process's own usage is exact whenever the clock moved forward since *)
(* the last call.  Unlike LinuxResProvider nothing marks the other cases:  *)
(* a clock that stood still gives no number, and a clock set back a usage  *)
(* far too small, not -1.                                                  *)
SelfCpuOfThisInterval ==
  truth.kind = "cpu" =>
    LET used == 100 * (truth.times[2] + truth.times[3])
        ms   == truth.times[1]
    IN  /\ ms > 0 => cpu.self = Quotient(used, ms * numProcessors)
        /\ ms = 0 => cpu.self \in {NaN, Infinite}
        /\ ms < 0 => cpu.self = Quotient(used, (ms + Word) * numProcessors)
=============================================================================
