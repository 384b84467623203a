--------------------------- MODULE ResourceStates ---------------------------
(***************************************************************************)
(* The plain data of the monitor: what a configuration declares            *)
(* (TriggerType, LogType), what a provider reads (CpuState, RamState,      *)
(* HddState), when a reading satisfies a trigger (the operator> of the     *)
(* three state classes) and the mean the sampler stores in its logs.       *)
(*                                                                         *)
(* Values are integers (percents, MB, KB/s): the doubles of the code are   *)
(* compared and averaged, and a quotient is kept as an exact fraction.     *)
(* The "monitor" (this process) fields of the three classes follow the     *)
(* system fields everywhere and are never compared, so they are left out.  *)
(***************************************************************************)
EXTENDS Integers, Sequences, SequencesExt

Resource == {"CPU", "MEMORY", "DISK"}
FluctuationType == {"UNDER", "OVER"}
ResourceUnit == {"PERCENT", "MB", "GB"}

\* Two TriggerTypes are the same map key exactly when they are equal records.
TriggerType == [resource : Resource, fluctuationType : FluctuationType,
                unitType : ResourceUnit, value : Nat, duration : Nat]

LogType == [resource : Resource, duration : Nat, resolution : Nat]

\* operator== and hash of LogType look at the resource and the resolution only.
LogKey(l) == [resource |-> l.resource, resolution |-> l.resolution]

CpuState == [cpuInUsePercentage : Int]
RamState == [totalRamMB : Nat, ramInUseMB : Int]
HddState == [hddInUseKBsRead : Int, hddInUseKBsWrite : Int]

StateOf == [CPU |-> CpuState, MEMORY |-> RamState, DISK |-> HddState]

-----------------------------------------------------------------------------
(* operator> : does the reading s satisfy the trigger t?  a/b stands for the *)
(* double quotient, so a/b > v is a > v*b (b > 0).                           *)

Beyond(t, a, b) == IF t.fluctuationType = "OVER" THEN a > t.value * b
                                                 ELSE a < t.value * b

CpuExceeds(s, t) == Beyond(t, s.cpuInUsePercentage, 1)

\* currPercentageUsed() is -1 when the total is unknown.
RamExceeds(s, t) ==
  \/ t.unitType = "PERCENT" /\ s.totalRamMB # 0 /\ Beyond(t, s.ramInUseMB * 100, s.totalRamMB)
  \/ t.unitType = "PERCENT" /\ s.totalRamMB = 0 /\ Beyond(t, -1, 1)
  \/ t.unitType = "MB" /\ Beyond(t, s.totalRamMB, 1)
  \/ t.unitType = "GB" /\ Beyond(t, s.totalRamMB, 1000)

HddExceeds(s, t) ==
  LET maxInUse == IF s.hddInUseKBsRead < s.hddInUseKBsWrite
                  THEN s.hddInUseKBsWrite ELSE s.hddInUseKBsRead
  IN  Beyond(t, maxInUse, IF t.unitType = "MB" THEN 1000 ELSE 1000000)

\* The assertions at the head of CpuState::operator> and HddState::operator>.
UnitAsserted(t) == /\ t.resource = "CPU"  => t.unitType = "PERCENT"
                   /\ t.resource = "DISK" => t.unitType # "PERCENT"

Exceeds(s, t) == \/ t.resource = "CPU"    /\ CpuExceeds(s, t)
                 \/ t.resource = "MEMORY" /\ RamExceeds(s, t)
                 \/ t.resource = "DISK"   /\ HddExceeds(s, t)

-----------------------------------------------------------------------------
(* Means.  A fraction is a pair <<numerator, denominator>>.                  *)

(* The loop of get{Cpu,Ram,Hdd}SamplesMean over one field: it starts from    *)
(* the newest sample and goes backwards over at most n samples; each turn    *)
(* adds a sample (operator+=) and divides the sum so far by n (operator/=).  *)
SamplesMean(values, n) ==
  LET turns == IF n < Len(values) THEN n ELSE Len(values)
      newest == Len(values)
      acc[i \in 1..newest] ==
        IF i = 1 THEN <<values[newest], 1>>
        ELSE <<acc[i-1][1] + values[newest - i + 1] * acc[i-1][2], acc[i-1][2] * n>>
  IN  acc[IF turns < 1 THEN 1 ELSE turns]

\* operator+= and operator/= of RamState leave totalRamMB alone.
StateMean(samples, n) ==
  [f \in DOMAIN Last(samples) |->
      IF f = "totalRamMB" THEN <<Last(samples)[f], 1>>
      ELSE SamplesMean([i \in DOMAIN samples |-> samples[i][f]], n)]
=============================================================================
