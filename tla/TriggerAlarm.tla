----------------------------- MODULE TriggerAlarm -----------------------------
(***************************************************************************)
(* What class SamplingManager promises to the callbacks it is given, with  *)
(* no word of how it counts: triggerActivate is called for a trigger each  *)
(* time the samples have exceeded it for one more full duration ("RAM over *)
(* 200MB last for 5s", src/README.md).  A trigger of duration 0 never gets *)
(* to that: each sample that does not exceed it ends it and starts it over.*)
(*                                                                         *)
(* After a poll every trigger is reported exactly once, in an order of the *)
(* sampler's choosing; one report waits for the callbacks of the one       *)
(* before, and the next poll waits for them all.                           *)
(***************************************************************************)
EXTENDS Integers, Sequences

CONSTANT Triggers   \* the triggers of the configuration

VARIABLES held,   \* how many of the newest samples in a row exceed the trigger
          owed,   \* the triggers the newest sample has not been reported for
          calls   \* the callbacks of the report in progress still to return

vars == <<held, owed, calls>>

Init ==
  /\ held = [t \in Triggers |-> 0]
  /\ owed = {} /\ calls = <<>>

\* A poll: some triggers are exceeded, the others start again from nothing.
Poll ==
  /\ owed = {} /\ calls = <<>>
  /\ \E exceeded \in SUBSET Triggers :
       held' = [t \in Triggers |-> IF t \in exceeded THEN held[t] + 1 ELSE 0]
  /\ owed' = Triggers
  /\ UNCHANGED calls

\* The newest sample completes a duration of t.
PeriodEnds(t) == held[t] > 0 /\ held[t] % t.duration = 0

\* The callbacks t is due.
Due(t) ==
  LET call(signal) == [trigger |-> t, signal |-> signal]
  IN  IF t.duration = 0
      THEN IF held[t] = 0 THEN <<call("deactivate"), call("activate")>> ELSE <<>>
      ELSE IF PeriodEnds(t) THEN <<call("activate")>> ELSE <<>>

Report(t) ==
  /\ t \in owed /\ calls = <<>>
  /\ owed' = owed \ {t} /\ calls' = Due(t)
  /\ UNCHANGED held

Return ==
  /\ calls # <<>>
  /\ calls' = Tail(calls)
  /\ UNCHANGED <<held, owed>>

Next == Poll \/ Return \/ \E t \in Triggers : Report(t)

Spec == Init /\ [][Next]_vars
==============================================================================
