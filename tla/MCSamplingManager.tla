-------------------------- MODULE MCSamplingManager --------------------------
(* Values of the constants of SamplingManager for TLC. *)
EXTENDS SamplingManager

Trigger(r, f, v, u, d) == [resource |-> r, fluctuationType |-> f, value |-> v,
                           unitType |-> u, duration |-> d]
Log(r, d, n) == [resource |-> r, duration |-> d, resolution |-> n]

CpuOver70 == Trigger("CPU", "OVER", 70, "PERCENT", 2)
RamUnder75 == Trigger("MEMORY", "UNDER", 75, "PERCENT", 3)
CpuOver80AtOnce == Trigger("CPU", "OVER", 80, "PERCENT", 0)
HddOver9 == Trigger("DISK", "OVER", 9, "MB", 1)

Cpu(p) == [cpuInUsePercentage |-> p]
Ram(total, used) == [totalRamMB |-> total, ramInUseMB |-> used]
Hdd(read, write) == [hddInUseKBsRead |-> read, hddInUseKBsWrite |-> write]

MCReadings == [CPU |-> {Cpu(70), Cpu(85)}, MEMORY |-> {Ram(1000, 500), Ram(1000, 800)},
               DISK |-> {Hdd(100, 100)}]

\* Base run: durations 2, 3 and 0, resolutions 1 and 2 on one resource, 2 and 0 on others.
BaseTriggers == {CpuOver70, RamUnder75, CpuOver80AtOnce}
BaseLogs == <<Log("CPU", 2, 2), Log("CPU", 3, 1), Log("MEMORY", 1, 2),
              Log("DISK", 5, 0)>>

\* A trigger the assertions of operator> reject, among others.
BadUnitTriggers == {HddOver9, CpuOver70, Trigger("CPU", "OVER", 5, "MB", 1)}
DiskReadings == [CPU |-> {Cpu(70)}, MEMORY |-> {Ram(1000, 500)},
                 DISK |-> {Hdd(100, 9001), Hdd(9000, 100)}]
==============================================================================
