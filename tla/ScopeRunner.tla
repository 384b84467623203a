---------------------------- MODULE ScopeRunner ----------------------------
(***************************************************************************)
(* ScopeRunner of utility.hpp: a count of the scopes that run, or -1 once  *)
(* no scope may be entered any more.  Threads enter a scope with           *)
(* continue_lock, leave it with ~SharedLock; stop waits until nobody is    *)
(* inside.  One step is one atomic access of count.                        *)
(***************************************************************************)
EXTENDS Integers, FiniteSets

CONSTANT Threads

ASSUME ThreadsAssumption == IsFiniteSet(Threads)

VARIABLES
  count,       \* the atomic
  scope,       \* of each thread: out, trying (in the loop of continue_lock), in
  expected     \* the local of continue_lock

runner == <<count, scope, expected>>

Inside == {t \in Threads : scope[t] = "in"}

RunnerInit ==
  /\ count = 0
  /\ scope = [t \in Threads |-> "out"] /\ expected = [t \in Threads |-> 0]

\* continue_lock reads the count before its loop.
Load(t) ==
  /\ scope[t] = "out"
  /\ scope' = [scope EXCEPT ![t] = "trying"]
  /\ expected' = [expected EXCEPT ![t] = count]
  /\ UNCHANGED count

\* The exchange succeeds: the count is still the expected one.
Enter(t) ==
  /\ scope[t] = "trying" /\ expected[t] >= 0 /\ count = expected[t]
  /\ count' = count + 1
  /\ scope' = [scope EXCEPT ![t] = "in"]
  /\ UNCHANGED expected

\* The exchange fails, which a weak one may do for no reason.
Retry(t) ==
  /\ scope[t] = "trying" /\ expected[t] >= 0
  /\ expected' = [expected EXCEPT ![t] = count]
  /\ UNCHANGED <<count, scope>>

\* Nobody may enter any more: continue_lock returns nullptr.
Refuse(t) ==
  /\ scope[t] = "trying" /\ expected[t] < 0
  /\ scope' = [scope EXCEPT ![t] = "out"]
  /\ UNCHANGED <<count, expected>>

\* ~SharedLock
Leave(t) ==
  /\ scope[t] = "in"
  /\ count' = count - 1
  /\ scope' = [scope EXCEPT ![t] = "out"]
  /\ UNCHANGED expected

\* Mutant: stop does not wait for the scopes that run.
RunnerStopAtOnce ==
  /\ count' = -1
  /\ UNCHANGED <<scope, expected>>

(* stop: its loop ends when the exchange of 0 for -1 succeeds, or when     *)
(* somebody has stopped the runner before.                                 *)
RunnerStop ==
  /\ count \in {0, -1}
  /\ count' = -1
  /\ UNCHANGED <<scope, expected>>

RunnerNext ==
  \/ \E t \in Threads : Load(t) \/ Enter(t) \/ Retry(t) \/ Refuse(t) \/ Leave(t)
  \/ RunnerStop

RunnerSpec == RunnerInit /\ [][RunnerNext]_runner

-----------------------------------------------------------------------------
(* The count is the number of scopes that run, or -1, and then none runs:  *)
(* once stop has returned, what the scopes use may be destroyed            *)
(* (continue_lock, ~SharedLock, stop).                                     *)
CountsTheScopes ==
  \/ count = Cardinality(Inside)
  \/ count = -1 /\ Inside = {}
=============================================================================
