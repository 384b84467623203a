------------------------------ MODULE MCMonitor ------------------------------
(* Values of the constants of Monitor for TLC. *)
EXTENDS Monitor

Trigger(r, f, v, u, d) == [resource |-> r, fluctuationType |-> f, value |-> v,
                           unitType |-> u, duration |-> d]

CpuOver70 == Trigger("CPU", "OVER", 70, "PERCENT", 1)
RamOver75 == Trigger("MEMORY", "OVER", 75, "PERCENT", 2)

TwoTriggers == {CpuOver70, RamOver75}
OneTrigger == {CpuOver70}
\* Of one resource: one that needs no time and, with that, is deactivated, and
\* one that in five polls can last, break off and last again.
ZeroAndTwo == {Trigger("CPU", "OVER", 70, "PERCENT", 0),
               Trigger("CPU", "OVER", 70, "PERCENT", 2)}
CpuLog == <<[resource |-> "CPU", duration |-> 2, resolution |-> 1]>>
NoLogs == <<>>

Cpu == {[cpuInUsePercentage |-> 70], [cpuInUsePercentage |-> 85]}
Ram == {[totalRamMB |-> 1000, ramInUseMB |-> 500], [totalRamMB |-> 1000, ramInUseMB |-> 800]}
Hdd == {[hddInUseKBsRead |-> 100, hddInUseKBsWrite |-> 100]}
TwoReadings == [CPU |-> Cpu, MEMORY |-> Ram, DISK |-> Hdd]
CpuReadings == [CPU |-> Cpu, MEMORY |-> {[totalRamMB |-> 1000, ramInUseMB |-> 500]},
                DISK |-> Hdd]

AndKind == {"Predicate_1and2"}
ElementKind == {"Predicate_1element"}
AllKinds == {"Predicate_1or2and3", "Predicate_1and2", "Predicate_1element"}
=============================================================================
