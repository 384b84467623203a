--------------------------- MODULE PredicateEngine ---------------------------
(***************************************************************************)
(* class PredicateEngine with the Predicate classes it signals.  The       *)
(* engine keeps, per trigger, a vector of weak references to predicates;   *)
(* triggerActivation and triggerDeactivation walk it and signal every      *)
(* predicate that is still alive, and a predicate that becomes satisfied   *)
(* runs its callback inside that walk.                                     *)
(*                                                                         *)
(* The walk is one step per predicate: a callback is arbitrary code (it    *)
(* sends an e-mail) and predicates may die or be added in between.  No     *)
(* call of addPredicate touches the vector being walked; what happens when *)
(* one does is the business of module Monitor.                             *)
(***************************************************************************)
EXTENDS Naturals, Sequences, FiniteSets

CONSTANTS Triggers,     \* the triggers of the configuration
          NoTrigger,    \* a value that is not a trigger
          Predicates,   \* identities of the Predicate objects
          Kinds,        \* which of the three classes are used
          MaxSignals    \* bound on the number of signals

Arity == [Predicate_1or2and3 |-> 3, Predicate_1and2 |-> 2, Predicate_1element |-> 1]

ASSUME EngineAssumption ==
  /\ NoTrigger \notin Triggers
  /\ Kinds \subseteq DOMAIN Arity
  /\ MaxSignals \in Nat

VARIABLES class,          \* the class of a predicate, "none" before it is made
          operands,       \* getPredicateOperands()
          alive,          \* is there a shared_ptr to it?
          triggerState,   \* the truth of the operands, as the predicate knows it
          lastSatisfied,  \* lastSatisfied of Predicate_1or2and3
          predicates,     \* the map of the engine: trigger -> vector of weak_ptr
          walk,           \* the triggerActivation / triggerDeactivation in progress
          active,         \* history: the last signal of a trigger was "activate"
          added,          \* history: the predicates given to addPredicate
          heard,          \* history: the signals sent since a predicate was added
          fired,          \* history: callbacks since the predicate was last unsatisfied
          calledBack,     \* history: callbacks of a predicate in the walk in progress
          signals         \* history: number of signals sent

objectVars  == <<class, operands, alive>>
stateVars   == <<triggerState, lastSatisfied>>
historyVars == <<active, added, heard, fired, calledBack>>
vars == <<objectVars, stateVars, predicates, walk, historyVars, signals>>

NoWalk == [trigger |-> NoTrigger, signal |-> "none", rest |-> <<>>]
Idle == walk.signal = "none"

OperandsOf(p) == {operands[p][i] : i \in DOMAIN operands[p]}

-----------------------------------------------------------------------------
(* The formulas of the three classes, over a truth assignment.               *)

Formula(c, ops, truth) ==
  CASE c = "Predicate_1or2and3" -> (truth[ops[1]] \/ truth[ops[2]]) /\ truth[ops[3]]
    [] c = "Predicate_1and2"    -> truth[ops[1]] /\ truth[ops[2]]
    [] c = "Predicate_1element" -> truth[ops[1]]
    [] OTHER                    -> FALSE

\* Mutant: a second satisfaction is not recognised.
AlreadyFiredNever(c, ops, truth, last) == FALSE

\* The early return of Predicate_1or2and3::isPredicateSatisfied.
AlreadyFired(c, ops, truth, last) ==
  /\ c = "Predicate_1or2and3" /\ last
  /\ truth[ops[1]] /\ truth[ops[2]] /\ truth[ops[3]]

-----------------------------------------------------------------------------
Init ==
  /\ class = [p \in Predicates |-> "none"]
  /\ operands = [p \in Predicates |-> <<>>]
  /\ alive = {}
  /\ triggerState = [p \in Predicates |-> [t \in Triggers |-> FALSE]]
  /\ lastSatisfied = [p \in Predicates |-> FALSE]
  /\ predicates = [t \in Triggers |-> <<>>]
  /\ walk = NoWalk
  /\ active = [t \in Triggers |-> FALSE]
  /\ added = {} /\ heard = [p \in Predicates |-> {}]
  /\ fired = [p \in Predicates |-> 0]
  /\ calledBack = [p \in Predicates |-> 0]
  /\ signals = 0

\* Mutant: the last operand is forgotten.
MakePredicateShort(p) ==
  /\ class[p] = "none"
  /\ \E c \in Kinds : \E ops \in [1..(Arity[c] - 1) -> Triggers] :
       /\ class' = [class EXCEPT ![p] = c]
       /\ operands' = [operands EXCEPT ![p] = ops]
  /\ alive' = alive \cup {p}
  /\ UNCHANGED <<stateVars, predicates, walk, historyVars, signals>>

(* make_shared of one of the classes: every operand starts out false.        *)
MakePredicate(p) ==
  /\ class[p] = "none"
  /\ \E c \in Kinds : \E ops \in [1..Arity[c] -> Triggers] :
       /\ class' = [class EXCEPT ![p] = c]
       /\ operands' = [operands EXCEPT ![p] = ops]
  /\ alive' = alive \cup {p}
  /\ UNCHANGED <<stateVars, predicates, walk, historyVars, signals>>

\* Mutant: only the first operand is registered.
RegistrationsOfFirst(p, t) == IF operands[p][1] = t THEN <<p>> ELSE <<>>

\* Mutant: every operand registers the predicate once per operand.
RegistrationsRepeated(p, t) ==
  IF t \in OperandsOf(p) THEN [i \in DOMAIN operands[p] |-> p] ELSE <<>>

\* What addPredicate pushes on the vector of t: once per operand equal to t.
Registrations(p, t) ==
  LET uses == {i \in DOMAIN operands[p] : operands[p][i] = t}
  IN  [i \in 1..Cardinality(uses) |-> p]

(* addPredicate (and, per element, its overload for a vector), while none of *)
(* the vectors it appends to is being walked.                                *)
AddPredicate(p) ==
  /\ walk.trigger \notin OperandsOf(p) /\ p \in alive \ added
  /\ predicates' = [t \in Triggers |-> predicates[t] \o Registrations(p, t)]
  /\ added' = added \cup {p}
  /\ UNCHANGED <<objectVars, stateVars, walk, active, heard, fired, calledBack, signals>>

(* The last shared_ptr to a predicate goes away; the engine keeps weak ones. *)
Release(p) ==
  /\ p \in alive
  /\ alive' = alive \ {p}
  /\ UNCHANGED <<class, operands, stateVars, predicates, walk, historyVars, signals>>

(* The sampler calls triggerActivation(t) or triggerDeactivation(t).         *)
Signal(t, s) ==
  /\ Idle /\ signals < MaxSignals
  /\ walk' = [trigger |-> t, signal |-> s, rest |-> predicates[t]]
  /\ active' = [active EXCEPT ![t] = (s = "activate")]
  /\ heard' = [p \in Predicates |-> IF p \in added THEN heard[p] \cup {<<t, s>>} ELSE heard[p]]
  /\ calledBack' = [p \in Predicates |-> 0]
  /\ signals' = signals + 1
  /\ UNCHANGED <<objectVars, stateVars, predicates, added, fired>>

-----------------------------------------------------------------------------
(* One turn of the loop over the vector: weak_ptr::lock, then activate or    *)
(* deactivate.                                                               *)

SkipExpired ==
  /\ walk.rest # <<>> /\ Head(walk.rest) \notin alive
  /\ walk' = [walk EXCEPT !.rest = Tail(@)]
  /\ UNCHANGED <<objectVars, stateVars, predicates, historyVars, signals>>

\* Mutant: the operand stays true.
DeactivateForgets ==
  /\ walk.signal = "deactivate" /\ walk.rest # <<>>
  /\ walk' = [walk EXCEPT !.rest = Tail(@)]
  /\ UNCHANGED <<objectVars, stateVars, predicates, historyVars, signals>>

(* Predicate::deactivate: lastSatisfied keeps its value.                     *)
Deactivate ==
  /\ walk.signal = "deactivate" /\ walk.rest # <<>> /\ Head(walk.rest) \in alive
  /\ LET p == Head(walk.rest)
     IN  /\ triggerState' = [triggerState EXCEPT ![p][walk.trigger] = FALSE]
         /\ fired' = [fired EXCEPT ![p] =
                        IF Formula(class[p], operands[p], triggerState'[p]) THEN @ ELSE 0]
  /\ walk' = [walk EXCEPT !.rest = Tail(@)]
  /\ UNCHANGED <<objectVars, lastSatisfied, predicates, active, added, heard, calledBack, signals>>

\* Mutant: the state is set after the evaluation instead of before it.
EvaluatedTruthBefore(p) == triggerState[p]

\* The truth assignment isPredicateSatisfied evaluates: operand set first.
EvaluatedTruth(p) == [triggerState[p] EXCEPT ![walk.trigger] = TRUE]

(* Predicate::activate: set the operand, evaluate, call back if satisfied.   *)
Activate ==
  /\ walk.signal = "activate" /\ walk.rest # <<>> /\ Head(walk.rest) \in alive
  /\ LET p == Head(walk.rest)
         truth == EvaluatedTruth(p)
         already == AlreadyFired(class[p], operands[p], truth, lastSatisfied[p])
         satisfied == Formula(class[p], operands[p], truth) /\ ~already
     IN  /\ triggerState' = [triggerState EXCEPT ![p][walk.trigger] = TRUE]
         /\ lastSatisfied' = [lastSatisfied EXCEPT ![p] = IF already THEN @ ELSE satisfied]
         /\ fired' = [fired EXCEPT ![p] = IF satisfied THEN @ + 1 ELSE @]
         /\ calledBack' = [calledBack EXCEPT ![p] = IF satisfied THEN @ + 1 ELSE @]
  /\ walk' = [walk EXCEPT !.rest = Tail(@)]
  /\ UNCHANGED <<objectVars, predicates, active, added, heard, signals>>

EndOfWalk ==
  /\ ~Idle /\ walk.rest = <<>>
  /\ walk' = NoWalk
  /\ UNCHANGED <<objectVars, stateVars, predicates, historyVars, signals>>

Walk == SkipExpired \/ Deactivate \/ Activate \/ EndOfWalk

Next == \/ Walk
        \/ \E p \in Predicates : MakePredicate(p) \/ AddPredicate(p) \/ Release(p)
        \/ \E t \in Triggers, s \in {"activate", "deactivate"} : Signal(t, s)

Spec == Init /\ [][Next]_vars

-----------------------------------------------------------------------------
(* Properties *)

(* Every variable has the type of the member it models; a predicate that was *)
(* not made has no operands and is nowhere in the engine.                    *)
TypeOK ==
  /\ class \in [Predicates -> DOMAIN Arity \cup {"none"}]
  /\ operands \in [Predicates -> Seq(Triggers)]
  /\ \A p \in Predicates : class[p] # "none" => Len(operands[p]) = Arity[class[p]]
  /\ alive \in SUBSET {p \in Predicates : class[p] # "none"}
  /\ triggerState \in [Predicates -> [Triggers -> BOOLEAN]]
  /\ lastSatisfied \in [Predicates -> BOOLEAN]
  /\ predicates \in [Triggers -> Seq({p \in Predicates : class[p] # "none"})]
  /\ walk \in {NoWalk} \cup
       [trigger : Triggers, signal : {"activate", "deactivate"}, rest : Seq(Predicates)]
  /\ active \in [Triggers -> BOOLEAN]
  /\ added \in SUBSET Predicates /\ heard \in [Predicates -> SUBSET (Triggers \X {"activate", "deactivate"})]
  /\ fired \in [Predicates -> Nat] /\ calledBack \in [Predicates -> Nat]
  /\ signals \in Nat

\* No trigger is named twice in p.
DistinctOperands(p) == Cardinality(OperandsOf(p)) = Len(operands[p])

\* The walk in progress still has to reach p.
Ahead(p) == \E i \in DOMAIN walk.rest : walk.rest[i] = p

(* No signal is lost or invented: a living predicate knows an operand as     *)
(* true exactly when the trigger has been signalled since the predicate was  *)
(* added and its last signal was an activation ("every Predicate which       *)
(* contains fired trigger will receive a signal").                           *)
StateFollowsSignals ==
  \A p \in alive : \A t \in OperandsOf(p) :
    ~(walk.trigger = t /\ Ahead(p)) =>
      (triggerState[p][t] <=> (<<t, "activate">> \in heard[p] /\ active[t]))

(* A callback runs only when the formula of the predicate is true of the     *)
(* triggers whose last signal was an activation.                             *)
CallbackOnlyIfSatisfied ==
  [][\A p \in Predicates : calledBack'[p] > calledBack[p] =>
       Formula(class[p], operands[p], active)]_vars

(* A predicate whose formula is true has called back since it became true:   *)
(* "If after activate() every operand of particular Predicate is satisfied,  *)
(* the Predicate fire its own callback function".  Of predicates that name   *)
(* no trigger twice.                                                         *)
SatisfiedHasFired ==
  \A p \in alive :
    DistinctOperands(p) /\ Formula(class[p], operands[p], triggerState[p]) => fired[p] > 0

(* The same, of any operands, of the predicates without memory and of a      *)
(* Predicate_1or2and3 none of whose operands was ever deactivated:           *)
(* lastSatisfied is not stale.                                               *)
SatisfiedHasFiredUnlessStale ==
  \A p \in alive :
    /\ Formula(class[p], operands[p], triggerState[p])
    /\ class[p] = "Predicate_1or2and3" =>
         \A t \in OperandsOf(p) : <<t, "deactivate">> \notin heard[p]
    => fired[p] > 0

(* Once all three operands of a Predicate_1or2and3 are true and it has       *)
(* called back, no further activation calls back: "second satisfaction of OR *)
(* should not cause another fire".                                           *)
SecondOrSilent ==
  [][\A p \in Predicates :
       /\ class[p] = "Predicate_1or2and3" /\ fired[p] > 0
       /\ \A i \in 1..3 : triggerState[p][operands[p][i]]
       => calledBack'[p] <= calledBack[p]]_vars

(* One signal makes a predicate call back at most once ("will receive a      *)
(* signal"), if no trigger is named twice in it.                             *)
OneCallbackPerSignal ==
  \A p \in Predicates : DistinctOperands(p) => calledBack[p] <= 1
=============================================================================
