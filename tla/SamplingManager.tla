--------------------------- MODULE SamplingManager ---------------------------
(***************************************************************************)
(* class SamplingManager: a poller thread samples the three resources,     *)
(* advances the trigger counters (calling triggerActivate and              *)
(* triggerDeactivate), folds samples into the logs and calls               *)
(* afterPollCallback; the owner thread starts, stops and destroys it.      *)
(*                                                                         *)
(* The poller's own data (samples, triggerStates, logs) has one writer.  A *)
(* callback runs inside the poller: ProcessTrigger queues the calls it     *)
(* makes in calls and the poller goes on when they have returned.          *)
(***************************************************************************)
EXTENDS ResourceStates, FiniteSets

CONSTANTS Triggers,   \* the TriggerTypes given to the constructor
          LogTypes,   \* the LogTypes given to the constructor, in that order
          Readings,   \* what the provider may return, per resource
          SelfStop,   \* may afterPollCallback clear isSampling (a subclass may)?
          MaxPolls    \* bound on the number of polls

ASSUME TriggersAssumption == IsFiniteSet(Triggers) /\ Triggers \subseteq TriggerType
ASSUME LogTypesAssumption == /\ Len(LogTypes) \in Nat
                             /\ DOMAIN LogTypes = 1..Len(LogTypes)
                             /\ \A i \in 1..Len(LogTypes) : LogTypes[i] \in LogType
ASSUME ReadingsAssumption == /\ DOMAIN Readings = Resource
                             /\ \A r \in Resource : \A s \in Readings[r] : s \in StateOf[r]
ASSUME BoundsAssumption == SelfStop \in BOOLEAN /\ MaxPolls \in Nat

VARIABLES isSampling,     \* std::atomic_bool isSampling
          poller,         \* pollerThread: "none" (not joinable) or where it is
          owner,          \* where the owning thread is
          process,        \* "running", "aborted" (assert) or "terminated"
          samples,        \* cpuSamples, ramSamples, hddSamples
          triggerStates,  \* TriggerType -> count
          order,          \* iteration order of the unordered_map triggerStates
          pending,        \* triggers the loop of processTriggers has not visited
          calls,          \* callback calls the poller is making
          logs,           \* cpuLog, ramLog, hddLog
          sampleNumber,   \* sampleNumber of the running pollingFunction
          polls,          \* history: polls made since construction
          run,            \* history: length of the current run of exceeding samples
          fires,          \* history: activations in that run
          selfStopped     \* history: an afterPollCallback has cleared isSampling

threadVars  == <<isSampling, poller, owner, process>>
triggerVars == <<triggerStates, pending, calls, fires>>
vars == <<threadVars, samples, triggerVars, order, logs, sampleNumber, polls, run,
                 selfStopped>>

-----------------------------------------------------------------------------
(* Buffers *)

\* Mutant: the buffer grows like a vector.
PushBackGrowing(buffer, capacity, x) == Append(buffer, x)

\* boost::circular_buffer::push_back: overwrites the oldest, ignores when capacity is 0.
PushBack(buffer, capacity, x) ==
  IF capacity = 0 THEN buffer
  ELSE IF Len(buffer) < capacity THEN Append(buffer, x)
  ELSE Append(Tail(buffer), x)

LogKeys == {LogKey(LogTypes[i]) : i \in DOMAIN LogTypes}

\* Mutant: without std::max the resolution of the last log wins.
SamplesCapacityOfLast(r) ==
  LET mine == {i \in DOMAIN LogTypes : LogTypes[i].resource = r}
  IN  IF mine = {} THEN 1
      ELSE LogTypes[CHOOSE i \in mine : \A j \in mine : j <= i].resolution

\* initializeSamplesBuffers: the longest resolution asked of the resource, at least 1.
Resolutions(r) == {1} \cup {LogTypes[i].resolution :
                               i \in {j \in DOMAIN LogTypes : LogTypes[j].resource = r}}

SamplesCapacity(r) == CHOOSE m \in Resolutions(r) : \A n \in Resolutions(r) : n <= m

LogSize(l) == IF l.resolution > 0 THEN l.duration \div l.resolution ELSE 1

\* initializeLoggingBuffers assigns to the map: the last LogType with a key decides.
Declarations(k) == {i \in DOMAIN LogTypes : LogKey(LogTypes[i]) = k}

LogCapacity(k) ==
  LogSize(LogTypes[CHOOSE i \in Declarations(k) : \A j \in Declarations(k) : j <= i])

-----------------------------------------------------------------------------
Init ==
  /\ isSampling = FALSE /\ poller = "none" /\ owner = "idle" /\ process = "running"
  /\ samples = [r \in Resource |-> <<>>]
  /\ triggerStates = [t \in Triggers |-> 0]
  /\ order \in {f \in [Triggers -> 1..Cardinality(Triggers)] :
                  \A t, u \in Triggers : f[t] = f[u] => t = u}
  /\ pending = {} /\ calls = <<>>
  /\ logs = [k \in LogKeys |-> [buffer |-> <<>>, capacity |-> LogCapacity(k), since |-> 0]]
  /\ sampleNumber = 0 /\ polls = 0
  /\ run = [t \in Triggers |-> 0] /\ fires = [t \in Triggers |-> 0] /\ selfStopped = FALSE

Running == process = "running"

-----------------------------------------------------------------------------
(* pollingFunction, the poller thread *)

Pushed(reading) ==
  [r \in Resource |-> PushBack(samples[r], SamplesCapacity(r), reading[r])]

(* while (isSampling): one reading of each resource is pushed.  The three    *)
(* buffers are read by this thread only, so the three calls are one step.    *)
Sample ==
  /\ Running /\ poller = "while" /\ isSampling /\ polls < MaxPolls
  /\ \E cpu \in Readings["CPU"], ram \in Readings["MEMORY"], hdd \in Readings["DISK"] :
       LET reading == [CPU |-> cpu, MEMORY |-> ram, DISK |-> hdd]
           holding == {t \in Triggers : UnitAsserted(t) /\ Exceeds(reading[t.resource], t)}
       IN  /\ samples' = Pushed(reading)
           /\ run' = [t \in Triggers |-> IF t \in holding THEN run[t] + 1 ELSE 0]
           /\ fires' = [t \in Triggers |-> IF t \in holding THEN fires[t] ELSE 0]
  /\ polls' = polls + 1 /\ pending' = Triggers /\ poller' = "triggers"
  /\ UNCHANGED <<isSampling, owner, process, triggerStates, order, calls, logs, sampleNumber,
                 selfStopped>>

\* Mutant: the loop does not look at isSampling before it samples again.
LeaveLoopDeaf ==
  /\ Running /\ poller = "while" /\ ~isSampling
  /\ UNCHANGED vars

LeaveLoop ==
  /\ Running /\ poller = "while" /\ ~isSampling
  /\ poller' = "exit"
  /\ UNCHANGED <<isSampling, owner, process, samples, triggerVars, order, logs,
                 sampleNumber, polls, run, selfStopped>>

\* The element of triggerStates the loop of processTriggers reaches next.
NextInOrder(t) == t \in pending /\ \A u \in pending : order[t] <= order[u]

\* Mutant: a sample that does not exceed leaves the counter as it is.
CountedWithoutReset(count, exceeds) == IF exceeds THEN count + 1 ELSE count

\* triggerState.second after the comparison with the sample.
Counted(count, exceeds) == IF exceeds THEN count + 1 ELSE 0

\* Mutant: firing leaves the counter at the duration.
RearmedWithoutReset(count, duration) == count

\* triggerState.second after the check that fires the trigger.
Rearmed(count, duration) == IF count = duration THEN 0 ELSE count

(* One turn of the loop of processTriggers, and fireTrigger.                 *)
ProcessTrigger(t) ==
  /\ Running /\ poller = "triggers" /\ calls = <<>> /\ NextInOrder(t) /\ UnitAsserted(t)
  /\ LET exceeds == Exceeds(Last(samples[t.resource]), t)
         count == Counted(triggerStates[t], exceeds)
         deactivate == ~exceeds /\ triggerStates[t] >= t.duration
         activate == count = t.duration
     IN  /\ triggerStates' = [triggerStates EXCEPT ![t] = Rearmed(count, t.duration)]
         /\ fires' = [fires EXCEPT ![t] = IF activate THEN @ + 1 ELSE @]
         /\ calls' = (IF deactivate THEN <<[trigger |-> t, signal |-> "deactivate"]>> ELSE <<>>)
                     \o (IF activate THEN <<[trigger |-> t, signal |-> "activate"]>> ELSE <<>>)
  /\ pending' = pending \ {t}
  /\ UNCHANGED <<threadVars, samples, order, logs, sampleNumber, polls, run, selfStopped>>

\* Mutant: a unit the resource does not know is ignored.
AbortOnUnitIgnored(t) ==
  /\ Running /\ poller = "triggers" /\ calls = <<>> /\ NextInOrder(t) /\ ~UnitAsserted(t)
  /\ pending' = pending \ {t}
  /\ UNCHANGED <<threadVars, samples, triggerStates, calls, fires, order, logs,
                 sampleNumber, polls, run, selfStopped>>

\* assert() in operator> fails: the process aborts.
AbortOnUnit(t) ==
  /\ Running /\ poller = "triggers" /\ calls = <<>> /\ NextInOrder(t) /\ ~UnitAsserted(t)
  /\ process' = "aborted"
  /\ UNCHANGED <<isSampling, poller, owner, samples, triggerVars, order, logs,
                 sampleNumber, polls, run, selfStopped>>

\* A callback call returns (what it does is the business of who installed it).
CallReturns ==
  /\ Running /\ calls # <<>>
  /\ calls' = Tail(calls)
  /\ UNCHANGED <<threadVars, samples, triggerStates, pending, fires, order, logs,
                 sampleNumber, polls, run, selfStopped>>

\* Mutant: one second late.
LogDueLate(since, resolution) == since + 1 > resolution

\* ++secondsSinceLastLog >= logType.resolution
LogDue(since, resolution) == since + 1 >= resolution

\* processLogs, once the trigger loop is over; each log is independent of the others.
ProcessLogs ==
  /\ Running /\ poller = "triggers" /\ pending = {} /\ calls = <<>>
  /\ logs' = [k \in LogKeys |->
               IF LogDue(logs[k].since, k.resolution)
               THEN [logs[k] EXCEPT
                       !.buffer = PushBack(@, logs[k].capacity,
                                           StateMean(samples[k.resource], k.resolution)),
                       !.since = 0]
               ELSE [logs[k] EXCEPT !.since = @ + 1]]
  /\ poller' = "callback"
  /\ UNCHANGED <<isSampling, owner, process, samples, triggerVars, order, sampleNumber, polls, run,
                 selfStopped>>

\* afterPollCallback(++sampleNumber): empty, or a subclass's that may stop the sampling.
AfterPoll ==
  /\ Running /\ poller = "callback"
  /\ sampleNumber' = sampleNumber + 1
  /\ \/ UNCHANGED <<isSampling, selfStopped>>
     \/ SelfStop /\ isSampling' = FALSE /\ selfStopped' = TRUE
  /\ poller' = "check"
  /\ UNCHANGED <<owner, process, samples, triggerVars, order, logs, polls, run>>

\* if (!isSampling) break; otherwise sleep and go round.
BreakOrSleep ==
  /\ Running /\ poller = "check"
  /\ poller' = IF isSampling THEN "while" ELSE "exit"
  /\ UNCHANGED <<isSampling, owner, process, samples, triggerVars, order, logs,
                 sampleNumber, polls, run, selfStopped>>

\* isSampling = false; the thread function returns, the thread stays joinable.
PollerReturns ==
  /\ Running /\ poller = "exit"
  /\ isSampling' = FALSE /\ poller' = "finished"
  /\ UNCHANGED <<owner, process, samples, triggerVars, order, logs, sampleNumber, polls, run,
                 selfStopped>>

-----------------------------------------------------------------------------
(* The owner thread *)

dataVars == <<samples, triggerVars, order, logs, polls, run, selfStopped>>

(* Assigning a new thread to a joinable std::thread calls std::terminate.    *)
StartSampling ==
  /\ Running /\ owner = "idle" /\ ~isSampling
  /\ isSampling' = TRUE
  /\ IF poller = "none"
     THEN poller' = "while" /\ sampleNumber' = 0 /\ UNCHANGED process
     ELSE process' = "terminated" /\ UNCHANGED <<poller, sampleNumber>>
  /\ UNCHANGED <<owner, dataVars>>

\* Mutant: stopSampling returns without joining.
StopSamplingDetached ==
  /\ Running /\ owner = "idle" /\ isSampling
  /\ isSampling' = FALSE
  /\ UNCHANGED <<owner, poller, process, sampleNumber, dataVars>>

\* stopSampling up to join(); it returns at once when isSampling is already false.
StopSampling ==
  /\ Running /\ owner = "idle" /\ isSampling
  /\ isSampling' = FALSE /\ owner' = "joining"
  /\ UNCHANGED <<poller, process, sampleNumber, dataVars>>

\* A subclass may join the protected pollerThread itself, as waitForEndOfSampling does.
WaitForEndOfSampling ==
  /\ Running /\ owner = "idle" /\ SelfStop /\ poller # "none"
  /\ owner' = "joining"
  /\ UNCHANGED <<isSampling, poller, process, sampleNumber, dataVars>>

JoinReturns ==
  /\ Running /\ owner \in {"joining", "destroying"} /\ poller = "finished"
  /\ poller' = "none"
  /\ owner' = IF owner = "joining" THEN "idle" ELSE "destroyed"
  /\ UNCHANGED <<isSampling, process, sampleNumber, dataVars>>

(* ~SamplingManager: stopSampling(), then the members are destroyed, and     *)
(* destroying a joinable std::thread calls std::terminate.                   *)
Destroy ==
  /\ Running /\ owner = "idle"
  /\ \/ /\ isSampling
        /\ isSampling' = FALSE /\ owner' = "destroying" /\ UNCHANGED process
     \/ /\ ~isSampling /\ poller = "none"
        /\ owner' = "destroyed" /\ UNCHANGED <<isSampling, process>>
     \/ /\ ~isSampling /\ poller # "none"
        /\ process' = "terminated" /\ UNCHANGED <<isSampling, owner>>
  /\ UNCHANGED <<poller, sampleNumber, dataVars>>

-----------------------------------------------------------------------------
Poller == \/ Sample \/ LeaveLoop \/ CallReturns \/ ProcessLogs \/ AfterPoll
          \/ BreakOrSleep \/ PollerReturns
          \/ \E t \in Triggers : ProcessTrigger(t) \/ AbortOnUnit(t)

Owner == StartSampling \/ StopSampling \/ WaitForEndOfSampling \/ JoinReturns \/ Destroy

Next == Poller \/ Owner

Spec == Init /\ [][Next]_vars

(* Threads are scheduled and callbacks return; nobody has to call            *)
(* startSampling, stopSampling or the destructor, but a join that can return *)
(* does.                                                                     *)
FairSpec == Spec /\ WF_vars(Poller) /\ WF_vars(JoinReturns)

-----------------------------------------------------------------------------
(* Properties *)

Signals == [trigger : Triggers, signal : {"activate", "deactivate"}]

(* Every variable has the type of the member it models, no buffer is longer  *)
(* than its capacity, and calls holds at most one deactivation and one       *)
(* activation.                                                               *)
TypeOK ==
  /\ isSampling \in BOOLEAN
  /\ poller \in {"none", "while", "triggers", "callback", "check", "exit", "finished"}
  /\ owner \in {"idle", "joining", "destroying", "destroyed"}
  /\ process \in {"running", "aborted", "terminated"}
  /\ samples \in [Resource -> Seq(UNION {Readings[r] : r \in Resource})]
  /\ \A r \in Resource : Len(samples[r]) <= SamplesCapacity(r)
  /\ triggerStates \in [Triggers -> Nat]
  /\ order \in [Triggers -> Nat]
  /\ pending \in SUBSET Triggers
  /\ calls \in Seq(Signals) /\ Len(calls) <= 2
  /\ DOMAIN logs = LogKeys
  /\ \A k \in LogKeys : /\ logs[k].capacity \in Nat /\ logs[k].since \in Nat
                         /\ Len(logs[k].buffer) <= logs[k].capacity
  /\ sampleNumber \in Nat /\ polls \in Nat
  /\ run \in [Triggers -> Nat] /\ fires \in [Triggers -> Nat] /\ selfStopped \in BOOLEAN

(* processTriggers activates a trigger once for every `duration` consecutive *)
(* samples that exceed it: after n such samples it has been activated        *)
(* n \div duration times and the counter holds the remainder, across stops,  *)
(* restarts and any iteration order of the map.  While the loop has not      *)
(* visited a trigger the counter is one sample behind.                       *)
ActivationsPerRun ==
  \A t \in Triggers : t.duration > 0 =>
    /\ triggerStates[t] < t.duration
    /\ t \notin pending => run[t] = t.duration * fires[t] + triggerStates[t]
    /\ t \in pending /\ run[t] > 0 =>
         run[t] = t.duration * fires[t] + triggerStates[t] + 1

Alarm == INSTANCE TriggerAlarm WITH held <- run, owed <- pending

(* Counting up to the duration and starting over, across stops, restarts,    *)
(* aborts and any iteration order of the map, triggerActivate(t) is called   *)
(* for every full duration the samples exceed t ("RAM over 200MB last for    *)
(* 5s") and at no other time, triggerDeactivate never (but see duration 0),  *)
(* and no sample is taken before the callbacks of the last one returned.     *)
AlarmImplemented == Alarm!Spec

Period(k) == IF k.resolution = 0 THEN 1 ELSE k.resolution

(* processLogs neither skips nor repeats a sample: after p polls a log has   *)
(* received p \div resolution entries, of which the newest `capacity` are    *)
(* kept, and `since` holds the remainder.                                    *)
LogCadence ==
  \A k \in LogKeys :
    LET done == IF poller = "triggers" THEN polls - 1 ELSE polls
        entries == done \div Period(k)
    IN  /\ logs[k].since = done % Period(k)
        /\ Len(logs[k].buffer) = IF entries < logs[k].capacity
                                 THEN entries ELSE logs[k].capacity

(* When processLogs is about to store an entry of a log, the sample buffer   *)
(* of its resource holds at least `resolution` samples: the mean never runs  *)
(* over a shorter window, although one buffer serves all logs of a resource. *)
WindowFull ==
  poller = "triggers" =>
    \A k \in LogKeys : LogDue(logs[k].since, k.resolution) =>
      Len(samples[k.resource]) >= Period(k)

(* Unless an afterPollCallback has cleared isSampling itself, no sequence of *)
(* startSampling, stopSampling, joins and destruction overwrites or destroys *)
(* a joinable thread.                                                        *)
NoTerminate == process = "terminated" => selfStopped

(* A trigger whose unit operator> does not accept ends the process in the    *)
(* first poll, in every iteration order: it never runs on without it, and    *)
(* no log entry is written.                                                  *)
BadUnitEndsFirstPoll ==
  (\E t \in Triggers : ~UnitAsserted(t)) =>
    polls <= 1 /\ \A k \in LogKeys : logs[k].buffer = <<>>

(* stopSampling() and the destructor return, and so does a join once the     *)
(* sampling has been stopped: the poller leaves its loop after at most the   *)
(* poll it is in, whatever callbacks it makes.                               *)
StopReturns == owner \in {"joining", "destroying"} /\ ~isSampling /\ Running ~>
                 owner \in {"idle", "destroyed"} \/ ~Running
=============================================================================
