------------------------- MODULE LinuxResProvider -------------------------
(***************************************************************************)
(* LinuxResProvider: usage of processor, memory and disk from counters of  *)
(* /proc.  Every getter reads the counters, reports the difference to the  *)
(* values it read the time before and keeps the new ones in the members    *)
(* last...  Only the sampling thread calls the getters, one at a time, so  *)
(* a getter is one step; what the machine did since the getter before is   *)
(* part of that step (Steps of processor time, of disk traffic, of the     *)
(* clock, which may be set back).                                          *)
(*                                                                         *)
(* Not modelled: files that cannot be opened (the code does not test       *)
(* fopen), lines longer than the buffer, readings above 2^63 (stoll).      *)
(***************************************************************************)
EXTENDS CounterReadings

CONSTANTS
  CpuSteps,      \* how far the four counters of /proc/stat may get between two readings
  ProcSteps,     \* the same for <<times(), stime, utime>>
  DiskSteps,     \* the same for <<read, written>> in sectors or characters
  ClockSteps,    \* milliseconds between two readings, negative when the clock is set back
  SectorSize,    \* /sys/block/sda/queue/hw_sector_size
  Processors,    \* the numbers of "processor" lines in /proc/cpuinfo
  MemorySizes,   \* sizes of memory, total, free or resident
  MaxReadings    \* bound on the number of getter calls

(* Between two readings no counter gets round its whole width: not the     *)
(* processor time of all kinds together, not the bytes of the disk.        *)
ASSUME StepsAssumption ==
  /\ \A d \in CpuSteps : d \in [1 .. 4 -> Nat] /\ d[1] + d[2] + d[3] + d[4] < Word
  /\ \A d \in ProcSteps : d \in [1 .. 3 -> Counter]
  /\ SectorSize \in Nat
  /\ \A d \in DiskSteps : d \in [1 .. 2 -> Counter] /\ \A i \in 1 .. 2 : d[i] * SectorSize < Word
  /\ ClockSteps \subseteq Int

ASSUME SizesAssumption == Processors \subseteq Nat /\ MemorySizes \subseteq Counter

VARIABLES
  stat,          \* /proc/stat: user, nice, system and idle time
  times,         \* times(): now, stime, utime
  diskstats, io, \* /proc/diskstats of sda and /proc/self/io: read, written
  sda,           \* is there a line of sda in /proc/diskstats?
  clock,         \* system_clock in milliseconds
  lastTotal, lastTimes, numProcessors,
  lastHddSystem, lastHddSelf, hddSystemLastMeasureTime, hddSelfLastMeasureTime,
  constructed,
  cpu, ram, hdd, \* the states the getters returned last
  truth,         \* what happened in the interval of that reading
  readings

kernel  == <<stat, times, diskstats, io, sda, clock>>
cpuLast == <<lastTotal, lastTimes, numProcessors>>
hddLast == <<lastHddSystem, lastHddSelf, hddSystemLastMeasureTime, hddSelfLastMeasureTime>>
vars    == <<kernel, cpuLast, hddLast, constructed, cpu, ram, hdd, truth, readings>>

Add(a, b) == [i \in DOMAIN a |-> Plus(a[i], b[i])]

-----------------------------------------------------------------------------
(* getSystemCpuUsage: a counter below its last value is an overflow.       *)
getSystemCpuUsage(total) ==
  LET Since(i) == Minus(total[i], lastTotal[i])
      busy     == Plus(Since(1), Plus(Since(2), Since(3)))
  IN IF \E i \in 1 .. 4 : total[i] < lastTotal[i] THEN Failed
     ELSE Quotient(100 * busy, Plus(busy, Since(4)))

\* Mutant: only time running backwards is an overflow.
getSelfCpuUsageSameTick(t) ==
  IF t[1] < lastTimes[1] \/ t[2] < lastTimes[2] \/ t[3] < lastTimes[3] THEN Failed
  ELSE Quotient(100 * ((t[2] - lastTimes[2]) + (t[3] - lastTimes[3])),
                (t[1] - lastTimes[1]) * numProcessors)

(* getSelfCpuUsage: no time since the last call counts as overflow too.    *)
getSelfCpuUsage(t) ==
  IF t[1] <= lastTimes[1] \/ t[2] < lastTimes[2] \/ t[3] < lastTimes[3] THEN Failed
  ELSE Quotient(100 * ((t[2] - lastTimes[2]) + (t[3] - lastTimes[3])),
                (t[1] - lastTimes[1]) * numProcessors)

\* Mutant: the difference is a signed one.
RateSigned(now, last, ms) ==
  IF now = Unset \/ last = Unset THEN Undefined ELSE Quotient(now - last, ms)

(* The rate of one direction: bytes, or Unset when no line was found.      *)
Rate(now, last, ms) ==
  IF now = Unset \/ last = Unset THEN Undefined ELSE Quotient(Minus(now, last), ms)

\* Mutant: the product is not cut to the width of the variable.
SectorBytesWide(sectors) ==
  [i \in 1 .. 2 |-> IF sda' THEN sectors[i] * SectorSize ELSE Unset]

(* The bytes of sda, in the unsigned arithmetic of readBytes *= sector size. *)
SectorBytes(sectors) ==
  [i \in 1 .. 2 |-> IF sda' THEN (sectors[i] * SectorSize) % Word ELSE Unset]

(* getRamState: the pages of sysinfo, and VmRSS of /proc/self/status, -1   *)
(* when there is no such line.                                             *)
RamState(total, free, rss) ==
  [total |-> Quotient(total, 1024 * 1024), used |-> Quotient(Minus(total, free), 1024 * 1024),
   self |-> Quotient(rss, 1024)]

-----------------------------------------------------------------------------
Init ==
  /\ stat \in {<<0, 0, 0, 0>>, <<Word - 1, 0, Word - 1, 0>>, <<0, 0, Word - 1, Word - 1>>}
  /\ times \in {<<0, 0, 0>>, <<Word - 1, Word - 1, 0>>}
  /\ diskstats \in {<<0, Word - 1>>} /\ io \in {<<Word - 1, 0>>}
  /\ sda = TRUE /\ clock = 0
  /\ lastTotal = <<Unset, Unset, Unset, Unset>> /\ lastTimes = <<Unset, Unset, Unset>>
  /\ numProcessors = Unset
  /\ lastHddSystem = <<Unset, Unset>> /\ lastHddSelf = <<Unset, Unset>>
  /\ hddSystemLastMeasureTime = Unset /\ hddSelfLastMeasureTime = Unset
  /\ constructed = FALSE
  /\ cpu = [system |-> NaN, self |-> NaN]
  /\ hdd = [system |-> <<NaN, NaN>>, self |-> <<NaN, NaN>>]
  /\ ram = [total |-> NaN, used |-> NaN, self |-> NaN]
  /\ truth = [kind |-> "none"] /\ readings = 0

\* Mutant: the constructor does not take the first disk reading.
ConstructWithoutDisk ==
  /\ ~ constructed
  /\ constructed' = TRUE
  /\ numProcessors' \in Processors
  /\ lastTotal' = stat /\ lastTimes' = times
  /\ UNCHANGED <<hddLast, kernel, cpu, ram, hdd, truth, readings>>

(* The constructor takes the first values of every counter.  Its calls of  *)
(* getHddSystemUsage, getHddSelfUsage and getCpuState return usages that   *)
(* nobody sees.                                                            *)
initSystemCpuUsage == lastTotal' = stat
initSelfCpuUsage   == lastTimes' = times /\ numProcessors' \in Processors
initHddUsage ==
  /\ lastHddSystem' = [i \in 1 .. 2 |-> (diskstats[i] * SectorSize) % Word]
  /\ lastHddSelf' = io
  /\ hddSystemLastMeasureTime' = clock /\ hddSelfLastMeasureTime' = clock

Construct ==
  /\ ~ constructed
  /\ constructed' = TRUE
  /\ initSystemCpuUsage /\ initSelfCpuUsage /\ initHddUsage
  /\ UNCHANGED <<kernel, cpu, ram, hdd, truth, readings>>

Call == constructed /\ readings < MaxReadings /\ readings' = readings + 1

\* Mutant: a reading that overflowed is returned before the members are set.
getCpuStateReturnsEarly(d, p) ==
  /\ Call
  /\ stat' = Add(stat, d) /\ times' = Add(times, p)
  /\ cpu' = [system |-> getSystemCpuUsage(stat'), self |-> getSelfCpuUsage(times')]
  /\ lastTotal' = IF cpu'.system = Failed THEN lastTotal ELSE stat'
  /\ lastTimes' = times'
  /\ truth' = [kind |-> "cpu", stat |-> d, times |-> p]
  /\ UNCHANGED <<diskstats, io, sda, clock, numProcessors, hddLast, constructed, ram, hdd>>

(* getCpuState, called when the counters have moved on by d and p.         *)
getCpuState(d, p) ==
  /\ Call
  /\ stat' = Add(stat, d) /\ times' = Add(times, p)
  /\ cpu' = [system |-> getSystemCpuUsage(stat'), self |-> getSelfCpuUsage(times')]
  /\ lastTotal' = stat' /\ lastTimes' = times'
  /\ truth' = [kind |-> "cpu", stat |-> d, times |-> p]
  /\ UNCHANGED <<diskstats, io, sda, clock, numProcessors, hddLast, constructed, ram, hdd>>

(* getHddState: the traffic since the last call over the time since then.  *)
(* When sda is gone its bytes are never read, and what the two variables   *)
(* hold is kept for the next call.                                         *)
getHddState(d, s, ms, there) ==
  /\ Call
  /\ diskstats' = Add(diskstats, d) /\ io' = Add(io, s)
  /\ sda' = there /\ clock' = clock + ms
  /\ lastHddSystem' = SectorBytes(diskstats')
  /\ lastHddSelf' = io'
  /\ hddSystemLastMeasureTime' = clock' /\ hddSelfLastMeasureTime' = clock'
  /\ hdd' = [system |-> [i \in 1 .. 2 |-> Rate(lastHddSystem'[i], lastHddSystem[i],
                                               clock' - hddSystemLastMeasureTime)],
             self   |-> [i \in 1 .. 2 |-> Rate(lastHddSelf'[i], lastHddSelf[i],
                                               clock' - hddSelfLastMeasureTime)]]
  /\ truth' = [kind |-> "hdd", disk |-> d, io |-> s, ms |-> ms, there |-> <<sda, there>>]
  /\ UNCHANGED <<stat, times, cpuLast, constructed, cpu, ram>>

getRamState(total, free, rss) ==
  /\ Call
  /\ ram' = RamState(total, free, rss)
  /\ truth' = [kind |-> "ram"]
  /\ UNCHANGED <<kernel, cpuLast, hddLast, constructed, cpu, hdd>>

Next ==
  \/ Construct
  \/ \E total, free \in MemorySizes, rss \in MemorySizes \cup {-1} :
       free <= total /\ getRamState(total, free, rss)
  \/ \E d \in CpuSteps, p \in ProcSteps : getCpuState(d, p)
  \/ \E d, s \in DiskSteps, ms \in ClockSteps, there \in BOOLEAN : getHddState(d, s, ms, there)

Spec == Init /\ [][Next]_vars

-----------------------------------------------------------------------------
(* Counters stay in their width, readings are doubles.                     *)
TypeOK ==
  /\ stat \in [1 .. 4 -> Counter] /\ times \in [1 .. 3 -> Counter]
  /\ diskstats \in [1 .. 2 -> Counter] /\ io \in [1 .. 2 -> Counter]
  /\ lastTotal \in [1 .. 4 -> Counter \cup {Unset}] /\ lastHddSystem \in [1 .. 2 -> Counter \cup {Unset}]
  /\ IsDouble(cpu.system) /\ IsDouble(cpu.self)
  /\ IsDouble(ram.total) /\ IsDouble(ram.used) /\ IsDouble(ram.self)
  /\ \A i \in 1 .. 2 : IsDouble(hdd.system[i]) /\ IsDouble(hdd.self[i])

Busy(d) == d[1] + d[2] + d[3]

(* The processor usage reported is that of the interval since the reading  *)
(* before, whatever the counters did earlier; a reading over which one of  *)
(* them wrapped is -1 and costs that reading only, not the one after it.   *)
CpuOfThisInterval ==
  truth.kind = "cpu" =>
    \/ cpu.system = Quotient(100 * Busy(truth.stat), Busy(truth.stat) + truth.stat[4])
    \/ /\ cpu.system = Failed
       /\ \E i \in 1 .. 4 : stat[i] < truth.stat[i]

(* The monitor's own usage: never a division by an interval of no length   *)
(* (two calls in one clock tick give -1), and never more than the process  *)
(* used.                                                                   *)
SelfCpuOfThisInterval ==
  truth.kind = "cpu" /\ numProcessors > 0 =>
    \/ cpu.self = Quotient(100 * (truth.times[2] + truth.times[3]), truth.times[1] * numProcessors)
         /\ truth.times[1] > 0
    \/ /\ cpu.self = Failed
       /\ truth.times[1] = 0 \/ \E i \in 1 .. 3 : times[i] < truth.times[i]

(* The disk rate reported is the traffic of the interval over its length,  *)
(* also when the counter wrapped in it; the rate is no number only when    *)
(* the clock did not move and is negative only when it was set back.       *)
RateOfThisInterval ==
  truth.kind = "hdd" =>
    \A i \in 1 .. 2 :
      /\ hdd.self[i] = Quotient(truth.io[i], truth.ms)
      /\ hdd.system[i].kind # "undefined"
           => hdd.system[i] = Quotient(truth.disk[i] * SectorSize, truth.ms)

(* A value nothing was read into reaches a reading only when sda was gone  *)
(* at that reading or at the one before; the first reading after the       *)
(* constructor is sound.                                                   *)
UndefinedOnlyWithoutSda ==
  truth.kind = "hdd" =>
    /\ \A i \in 1 .. 2 : hdd.system[i] = Undefined => ~ (truth.there[1] /\ truth.there[2])
    /\ hdd.self[1] # Undefined /\ hdd.self[2] # Undefined
=============================================================================
