------------------------ MODULE PredicateEngineProofs ------------------------
(***************************************************************************)
(* Proofs about PredicateEngine, for every set of triggers, of predicates  *)
(* and of classes, and any number of signals.                              *)
(***************************************************************************)
EXTENDS PredicateEngine, FiniteSetTheorems, SequenceTheorems, TLAPS

-----------------------------------------------------------------------------
(* Facts about sequences and formulas *)

(* What is left of a non-empty vector after its first element.             *)
LEMMA RestOfVector ==
  ASSUME NEW S, NEW s \in Seq(S), s # <<>>
  PROVE  /\ Head(s) \in S /\ Tail(s) \in Seq(S)
         /\ 1 \in DOMAIN s /\ Head(s) = s[1]
         /\ \A i \in DOMAIN Tail(s) : i + 1 \in DOMAIN s /\ Tail(s)[i] = s[i + 1]
         /\ \A q : q # Head(s) /\ (\E i \in DOMAIN s : s[i] = q)
              => \E i \in DOMAIN Tail(s) : Tail(s)[i] = q
<1>1. /\ Len(s) \in Nat \ {0} /\ DOMAIN s = 1..Len(s)
      /\ Head(s) = s[1] /\ Head(s) \in S
      /\ Tail(s) \in Seq(S) /\ Len(Tail(s)) = Len(s) - 1
      /\ \A i \in 1..(Len(s) - 1) : Tail(s)[i] = s[i + 1]
  BY HeadTailProperties, LenProperties, EmptySeq
<1>2. DOMAIN Tail(s) = 1..(Len(s) - 1)
  BY <1>1, LenProperties
<1>3. ASSUME NEW q, q # Head(s), NEW i \in DOMAIN s, s[i] = q
      PROVE  \E j \in DOMAIN Tail(s) : Tail(s)[j] = q
  <2>1. i - 1 \in 1..(Len(s) - 1) /\ (i - 1) + 1 = i
    BY <1>1, <1>3
  <2> QED
    BY <2>1, <1>1, <1>2, <1>3
<1> QED
  BY <1>1, <1>2, <1>3

(* The formulas have no negation: more true operands keep them true.       *)
LEMMA FormulaMonotone ==
  ASSUME NEW c \in DOMAIN Arity, NEW ops \in Seq(Triggers), Len(ops) = Arity[c],
         NEW f, NEW g, \A i \in DOMAIN ops : f[ops[i]] => g[ops[i]],
         Formula(c, ops, f)
  PROVE  Formula(c, ops, g)
<1>1. DOMAIN ops = 1..Arity[c]
  BY LenProperties
<1>2. CASE c = "Predicate_1or2and3"
  BY <1>1, <1>2 DEF Formula, Arity
<1>3. CASE c = "Predicate_1and2"
  BY <1>1, <1>3 DEF Formula, Arity
<1>4. CASE c = "Predicate_1element"
  BY <1>1, <1>4 DEF Formula, Arity
<1> QED
  BY <1>2, <1>3, <1>4 DEF Arity

(* A formula needs at least one true operand.                              *)
LEMMA FormulaNeedsOperand ==
  ASSUME NEW c \in DOMAIN Arity, NEW ops \in Seq(Triggers), Len(ops) = Arity[c],
         NEW f, Formula(c, ops, f)
  PROVE  \E i \in DOMAIN ops : f[ops[i]]
<1>1. DOMAIN ops = 1..Arity[c]
  BY LenProperties
<1>2. CASE c = "Predicate_1or2and3"
  BY <1>1, <1>2 DEF Formula, Arity
<1>3. CASE c = "Predicate_1and2"
  BY <1>1, <1>3 DEF Formula, Arity
<1>4. CASE c = "Predicate_1element"
  BY <1>1, <1>4 DEF Formula, Arity
<1> QED
  BY <1>2, <1>3, <1>4 DEF Arity

(* addPredicate registers p with t if, and only if, t is an operand of p.  *)
LEMMA RegistrationsMember ==
  ASSUME NEW p, NEW t, operands[p] \in Seq(Triggers)
  PROVE  /\ Registrations(p, t) \in Seq({p})
         /\ t \in OperandsOf(p) => 1 \in DOMAIN Registrations(p, t)
         /\ t \notin OperandsOf(p) => Registrations(p, t) = <<>>
<1> DEFINE uses == {i \in DOMAIN operands[p] : operands[p][i] = t}
<1>1. IsFiniteSet(uses)
  <2>1. DOMAIN operands[p] = 1..Len(operands[p]) /\ Len(operands[p]) \in Nat
    BY LenProperties
  <2>2. IsFiniteSet(1..Len(operands[p]))
    BY <2>1, FS_Interval
  <2>3. uses \in SUBSET (1..Len(operands[p]))
    BY <2>1
  <2> HIDE DEF uses
  <2> QED
    BY <2>2, <2>3, FS_Subset
<1>2. /\ Cardinality(uses) \in Nat
      /\ Cardinality(uses) = 0 <=> uses = {}
  BY <1>1, FS_CardinalityType, FS_EmptySet
<1>3. uses # {} <=> t \in OperandsOf(p)
  BY DEF OperandsOf
<1>4. Registrations(p, t) = [i \in 1..Cardinality(uses) |-> p]
  BY DEF Registrations
<1> HIDE DEF uses
<1>5. /\ Registrations(p, t) \in Seq({p})
      /\ DOMAIN Registrations(p, t) = 1..Cardinality(uses)
  BY <1>2, <1>4, IsASeq
<1>6. Len(Registrations(p, t)) = Cardinality(uses)
  BY <1>2, <1>5, LenProperties
<1>7. t \in OperandsOf(p) => 1 \in DOMAIN Registrations(p, t)
  BY <1>2, <1>3, <1>5
<1>8. t \notin OperandsOf(p) => Registrations(p, t) = <<>>
  BY <1>2, <1>3, <1>5, <1>6, EmptySeq
<1> QED
  BY <1>5, <1>7, <1>8

-----------------------------------------------------------------------------
(* Type correctness *)

(* The predicates that were made.                                          *)
Made == {p \in Predicates : class[p] # "none"}

(* The initial state has the types.                                        *)
LEMMA TypeInit == Init => TypeOK
<1> SUFFICES ASSUME Init PROVE TypeOK
  OBVIOUS
<1>1. \A S : <<>> \in Seq(S)
  BY EmptySeq
<1>2. \A p \in Predicates : operands[p] \in Seq(Triggers)
  BY <1>1 DEF Init
<1>3. predicates \in [Triggers -> Seq({p \in Predicates : class[p] # "none"})]
  BY <1>1 DEF Init
<1>4. operands \in [Predicates -> Seq(Triggers)]
  BY <1>2 DEF Init
<1> QED
  BY <1>3, <1>4 DEF Init, TypeOK

(* A new predicate has the operands its class asks for.                    *)
LEMMA TypeMakePredicate ==
  ASSUME TypeOK, NEW p \in Predicates, MakePredicate(p)
  PROVE  TypeOK'
<1>1. PICK c \in Kinds : \E ops \in [1..Arity[c] -> Triggers] :
         /\ class' = [class EXCEPT ![p] = c]
         /\ operands' = [operands EXCEPT ![p] = ops]
  BY DEF MakePredicate
<1>2. PICK ops \in [1..Arity[c] -> Triggers] :
         /\ class' = [class EXCEPT ![p] = c]
         /\ operands' = [operands EXCEPT ![p] = ops]
  BY <1>1
<1>3. c \in DOMAIN Arity /\ c # "none" /\ Arity[c] \in Nat
  BY EngineAssumption DEF EngineAssumption, Arity
<1>4. ops \in Seq(Triggers) /\ Len(ops) = Arity[c]
  <2>1. ops \in Seq(Triggers)
    BY <1>3, IsASeq
  <2> QED
    BY <2>1, <1>3, LenProperties
<1>5. class' \in [Predicates -> DOMAIN Arity \cup {"none"}]
  BY <1>2, <1>3 DEF TypeOK
<1>6. /\ operands' \in [Predicates -> Seq(Triggers)]
      /\ \A q \in Predicates : class'[q] # "none" => Len(operands'[q]) = Arity[class'[q]]
  BY <1>2, <1>4 DEF TypeOK
<1>7. alive' \in SUBSET Made'
  BY <1>2, <1>3 DEF TypeOK, MakePredicate, Made
<1>8. predicates' \in [Triggers -> Seq(Made')]
  <2>1. Made \subseteq Made' /\ predicates \in [Triggers -> Seq(Made)]
    BY <1>2, <1>3 DEF TypeOK, Made
  <2>2. Seq(Made) \subseteq Seq(Made')
    BY <2>1, SeqMonotonic
  <2> QED
    BY <2>1, <2>2 DEF MakePredicate
<1>9. UNCHANGED <<stateVars, walk, historyVars, signals>>
  BY DEF MakePredicate
<1> QED
  BY <1>5, <1>6, <1>7, <1>8, <1>9 DEF TypeOK, Made, stateVars, historyVars

(* addPredicate puts only predicates that were made in the vectors.        *)
LEMMA TypeAddPredicate ==
  ASSUME TypeOK, NEW p \in Predicates, AddPredicate(p)
  PROVE  TypeOK'
<1>1. p \in Made /\ operands[p] \in Seq(Triggers)
  BY DEF AddPredicate, TypeOK, Made
<1>2. ASSUME NEW t \in Triggers
      PROVE  predicates[t] \o Registrations(p, t) \in Seq(Made)
  <2>1. Registrations(p, t) \in Seq({p}) /\ Seq({p}) \subseteq Seq(Made)
    BY <1>1, RegistrationsMember, SeqMonotonic
  <2>2. predicates[t] \in Seq(Made)
    BY DEF TypeOK, Made
  <2> QED
    BY <2>1, <2>2, ConcatProperties
<1>3. predicates' \in [Triggers -> Seq(Made)]
  BY <1>2 DEF AddPredicate
<1>4. Made' = Made
  BY DEF AddPredicate, objectVars, Made
<1> QED
  BY <1>3, <1>4 DEF TypeOK, AddPredicate, objectVars, stateVars, Made

(* What a turn of the loop does to the walk.                               *)
LEMMA WalkAdvances ==
  ASSUME TypeOK, walk.rest # <<>>, walk' = [walk EXCEPT !.rest = Tail(@)]
  PROVE  /\ walk \in [trigger : Triggers, signal : {"activate", "deactivate"}, rest : Seq(Predicates)]
         /\ walk' \in [trigger : Triggers, signal : {"activate", "deactivate"}, rest : Seq(Predicates)]
         /\ walk'.trigger = walk.trigger /\ walk'.signal = walk.signal
         /\ walk'.rest = Tail(walk.rest)
         /\ Head(walk.rest) \in Predicates
<1>1. walk # NoWalk
  BY DEF NoWalk
<1>2. walk \in [trigger : Triggers, signal : {"activate", "deactivate"}, rest : Seq(Predicates)]
  BY <1>1 DEF TypeOK
<1>3. walk.rest \in Seq(Predicates)
  BY <1>2
<1>4. Head(walk.rest) \in Predicates /\ Tail(walk.rest) \in Seq(Predicates)
  BY <1>3, RestOfVector
<1> QED
  BY <1>2, <1>4

(* Every step keeps the types.                                             *)
LEMMA TypeNext == TypeOK /\ [Next]_vars => TypeOK'
<1> SUFFICES ASSUME TypeOK, [Next]_vars PROVE TypeOK'
  OBVIOUS
<1> USE DEF objectVars, stateVars, historyVars
<1>1. ASSUME SkipExpired PROVE TypeOK'
  BY <1>1, WalkAdvances DEF SkipExpired, TypeOK
<1>2. ASSUME Deactivate PROVE TypeOK'
  <2>1. walk'.trigger = walk.trigger /\ walk.trigger \in Triggers /\ Head(walk.rest) \in Predicates
    BY <1>2, WalkAdvances DEF Deactivate
  <2>2. triggerState' \in [Predicates -> [Triggers -> BOOLEAN]]
    BY <1>2, <2>1 DEF Deactivate, TypeOK
  <2>3. fired' \in [Predicates -> Nat]
    BY <1>2, <2>1 DEF Deactivate, TypeOK
  <2>4. walk' \in {NoWalk} \cup
          [trigger : Triggers, signal : {"activate", "deactivate"}, rest : Seq(Predicates)]
    BY <1>2, WalkAdvances DEF Deactivate
  <2> QED
    BY <1>2, <2>2, <2>3, <2>4 DEF Deactivate, TypeOK
<1>3. ASSUME Activate PROVE TypeOK'
  <2>1. walk.trigger \in Triggers /\ Head(walk.rest) \in Predicates
    BY <1>3, WalkAdvances DEF Activate
  <2>2. triggerState' \in [Predicates -> [Triggers -> BOOLEAN]]
    BY <1>3, <2>1 DEF Activate, TypeOK
  <2>3. fired' \in [Predicates -> Nat] /\ calledBack' \in [Predicates -> Nat]
    BY <1>3, <2>1 DEF Activate, TypeOK
  <2>4. lastSatisfied' \in [Predicates -> BOOLEAN]
    BY <1>3, <2>1, Zenon DEF Activate, TypeOK
  <2>5. walk' \in {NoWalk} \cup
          [trigger : Triggers, signal : {"activate", "deactivate"}, rest : Seq(Predicates)]
    BY <1>3, WalkAdvances DEF Activate
  <2> QED
    BY <1>3, <2>2, <2>3, <2>4, <2>5 DEF Activate, TypeOK
<1>4. ASSUME EndOfWalk PROVE TypeOK'
  BY <1>4 DEF EndOfWalk, TypeOK
<1>5. ASSUME NEW p \in Predicates, MakePredicate(p) PROVE TypeOK'
  BY <1>5, TypeMakePredicate
<1>6. ASSUME NEW p \in Predicates, AddPredicate(p) PROVE TypeOK'
  BY <1>6, TypeAddPredicate
<1>7. ASSUME NEW p \in Predicates, Release(p) PROVE TypeOK'
  BY <1>7 DEF Release, TypeOK
<1>8. ASSUME NEW t \in Triggers, NEW s \in {"activate", "deactivate"}, Signal(t, s)
      PROVE  TypeOK'
  <2>1. predicates[t] \in Seq(Predicates)
    <3>1. Seq({p \in Predicates : class[p] # "none"}) \subseteq Seq(Predicates)
      BY SeqMonotonic
    <3> QED
      BY <3>1 DEF TypeOK
  <2>2. walk' \in {NoWalk} \cup
          [trigger : Triggers, signal : {"activate", "deactivate"}, rest : Seq(Predicates)]
    BY <2>1, <1>8 DEF Signal
  <2>3. heard' \in [Predicates -> SUBSET (Triggers \X {"activate", "deactivate"})]
    BY <1>8 DEF Signal, TypeOK
  <2>4. active' \in [Triggers -> BOOLEAN]
    BY <1>8, Zenon DEF Signal, TypeOK
  <2> QED
    BY <1>8, <2>2, <2>3, <2>4 DEF Signal, TypeOK
<1>9. ASSUME UNCHANGED vars PROVE TypeOK'
  BY <1>9 DEF vars, TypeOK
<1> QED
  BY <1>1, <1>2, <1>3, <1>4, <1>5, <1>6, <1>7, <1>8, <1>9 DEF Next, Walk

(* Every variable of the engine has the type of the member it models, and  *)
(* no predicate is in the engine that was not made.                        *)
THEOREM TypeCorrect == Spec => []TypeOK
<1> QED
  BY TypeInit, TypeNext, PTL DEF Spec

-----------------------------------------------------------------------------
(* Who is registered where, and what the walk in progress has to deliver *)

\* Only predicates that were made are added.
AddedMade == added \subseteq Made

\* An added predicate is in the vector of each of its operands.
Registered ==
  \A p \in added : \A t \in OperandsOf(p) :
    \E i \in DOMAIN predicates[t] : predicates[t][i] = p

\* Only added predicates are, and only in the vectors of their operands.
OnlyRegistered ==
  \A t \in Triggers : \A i \in DOMAIN predicates[t] :
    predicates[t][i] \in added /\ t \in OperandsOf(predicates[t][i])

\* Whom the walk has still to reach was added, has the trigger and is sent
\* the signal, which is the last one of the trigger.
WalkDelivers ==
  walk # NoWalk =>
    /\ active[walk.trigger] <=> (walk.signal = "activate")
    /\ \A i \in DOMAIN walk.rest :
         /\ walk.rest[i] \in added
         /\ walk.trigger \in OperandsOf(walk.rest[i])
         /\ <<walk.trigger, walk.signal>> \in heard[walk.rest[i]]

\* A predicate that was not added has heard nothing and knows nothing.
Fresh ==
  \A p \in Predicates \ added :
    /\ heard[p] = {} /\ ~lastSatisfied[p]
    /\ \A t \in Triggers : ~triggerState[p][t]

Registration == AddedMade /\ Registered /\ OnlyRegistered /\ WalkDelivers /\ Fresh

(* An engine without predicates has nothing to deliver.                    *)
LEMMA RegistrationInit == Init => Registration
<1> SUFFICES ASSUME Init PROVE Registration
  OBVIOUS
<1>1. AddedMade /\ Registered /\ Fresh
  BY DEF Init, AddedMade, Registered, Fresh
<1>2. WalkDelivers
  BY DEF Init, WalkDelivers
<1>3. OnlyRegistered
  <2>1. \A t \in Triggers : predicates[t] = <<>>
    BY DEF Init
  <2> QED
    BY <2>1 DEF OnlyRegistered
<1> QED
  BY <1>1, <1>2, <1>3 DEF Registration

(* A turn of the loop leaves whom it has still to reach as it was.         *)
LEMMA RegistrationTurn ==
  ASSUME TypeOK, Registration, SkipExpired \/ Deactivate \/ Activate
  PROVE  Registration'
<1>1. /\ walk.rest # <<>> /\ walk' = [walk EXCEPT !.rest = Tail(@)]
      /\ UNCHANGED <<class, operands, predicates, active, added, heard>>
  BY DEF SkipExpired, Deactivate, Activate, objectVars, historyVars, stateVars
<1>2. /\ walk.rest \in Seq(Predicates) /\ walk # NoWalk
      /\ walk'.trigger = walk.trigger /\ walk'.signal = walk.signal
      /\ walk'.rest = Tail(walk.rest) /\ walk' # NoWalk
      /\ walk.trigger \in Triggers
  BY <1>1, WalkAdvances, EngineAssumption DEF NoWalk, EngineAssumption
<1>3. AddedMade' /\ Registered' /\ OnlyRegistered'
  BY <1>1 DEF Registration, AddedMade, Made, Registered, OnlyRegistered, OperandsOf
<1>4. WalkDelivers'
  <2>1. ASSUME NEW i \in DOMAIN Tail(walk.rest)
        PROVE  i + 1 \in DOMAIN walk.rest /\ Tail(walk.rest)[i] = walk.rest[i + 1]
    BY <1>1, <1>2, RestOfVector
  <2>2. active'[walk'.trigger] <=> (walk'.signal = "activate")
    BY <1>1, <1>2 DEF WalkDelivers, Registration
  <2>3. ASSUME NEW i \in DOMAIN Tail(walk.rest)
        PROVE  /\ Tail(walk.rest)[i] \in added
               /\ walk.trigger \in OperandsOf(Tail(walk.rest)[i])
               /\ <<walk.trigger, walk.signal>> \in heard[Tail(walk.rest)[i]]
    BY <1>2, <2>1 DEF WalkDelivers, Registration
  <2>4. \A i \in DOMAIN walk'.rest :
          /\ walk'.rest[i] \in added'
          /\ walk'.trigger \in {operands'[walk'.rest[i]][k] : k \in DOMAIN operands'[walk'.rest[i]]}
          /\ <<walk'.trigger, walk'.signal>> \in heard'[walk'.rest[i]]
    <3>1. UNCHANGED <<operands, added, heard>>
      BY <1>1
    <3> QED
      BY <3>1, <1>2, <2>3 DEF OperandsOf
  <2> QED
    BY <2>2, <2>4, Zenon DEF WalkDelivers, OperandsOf
<1>5. Fresh'
  <2>1. Head(walk.rest) \in added
    <3>1. 1 \in DOMAIN walk.rest /\ Head(walk.rest) = walk.rest[1]
      BY <1>1, <1>2, RestOfVector
    <3> QED
      BY <3>1, <1>2 DEF Registration, WalkDelivers
  <2>2. \A p \in Predicates \ added : /\ lastSatisfied'[p] = lastSatisfied[p]
                                     /\ triggerState'[p] = triggerState[p]
    BY <2>1 DEF SkipExpired, Deactivate, Activate, stateVars, TypeOK
  <2> QED
    BY <2>2, <1>1 DEF Fresh, Registration
<1> QED
  BY <1>3, <1>4, <1>5 DEF Registration

(* A predicate that is not added yet disturbs no vector.                   *)
LEMMA RegistrationMake ==
  ASSUME TypeOK, Registration, NEW p \in Predicates, MakePredicate(p)
  PROVE  Registration'
<1>1. p \notin added
  BY DEF MakePredicate, Registration, AddedMade, Made
<1>2. \A q \in added : /\ operands'[q] = operands[q] /\ class'[q] = class[q]
                      /\ OperandsOf(q)' = OperandsOf(q)
  BY <1>1 DEF MakePredicate, TypeOK, OperandsOf
<1>3. UNCHANGED <<triggerState, lastSatisfied, predicates, walk, active, added, heard>>
  BY DEF MakePredicate, stateVars, historyVars
<1>4. AddedMade' /\ Registered'
  BY <1>2, <1>3 DEF Registration, AddedMade, Made, Registered
<1>5. OnlyRegistered' /\ Fresh'
  BY <1>2, <1>3 DEF Registration, OnlyRegistered, Fresh
<1>6. WalkDelivers'
  BY <1>2, <1>3 DEF Registration, WalkDelivers
<1> QED
  BY <1>4, <1>5, <1>6 DEF Registration

(* addPredicate registers a predicate with its operands only.              *)
LEMMA RegistrationAdd ==
  ASSUME TypeOK, Registration, NEW p \in Predicates, AddPredicate(p)
  PROVE  Registration'
<1>1. p \in Made /\ operands[p] \in Seq(Triggers) /\ OperandsOf(p) \subseteq Triggers
  <2>1. p \in Made /\ operands[p] \in Seq(Triggers)
    BY DEF AddPredicate, TypeOK, Made
  <2> QED
    BY <2>1, ElementOfSeq, LenProperties DEF OperandsOf
<1>2. /\ UNCHANGED <<class, operands, triggerState, lastSatisfied, walk, active, heard>>
      /\ added' = added \cup {p}
      /\ \A q : OperandsOf(q)' = OperandsOf(q)
  BY DEF AddPredicate, objectVars, stateVars, OperandsOf
<1>3. AddedMade'
  BY <1>1, <1>2 DEF Registration, AddedMade, Made
<1>4. ASSUME NEW t \in Triggers
      PROVE  /\ \A i \in DOMAIN predicates[t] :
                  i \in DOMAIN predicates'[t] /\ predicates'[t][i] = predicates[t][i]
             /\ t \in OperandsOf(p) => \E i \in DOMAIN predicates'[t] : predicates'[t][i] = p
             /\ \A i \in DOMAIN predicates'[t] :
                  \/ i \in DOMAIN predicates[t] /\ predicates'[t][i] = predicates[t][i]
                  \/ t \in OperandsOf(p) /\ predicates'[t][i] = p
  <2> DEFINE v == predicates[t]
             r == Registrations(p, t)
  <2>1. predicates'[t] = v \o r
    BY DEF AddPredicate
  <2>2. /\ r \in Seq({p})
        /\ t \in OperandsOf(p) => 1 \in DOMAIN r
        /\ t \notin OperandsOf(p) => r = <<>>
    BY <1>1, RegistrationsMember
  <2>3. v \in Seq(Made)
    BY DEF TypeOK, Made
  <2> HIDE DEF v, r
  <2>4. v \in Seq(Predicates) /\ r \in Seq(Predicates)
    <3>1. Made \subseteq Predicates /\ {p} \subseteq Predicates
      BY DEF Made
    <3>2. Seq(Made) \subseteq Seq(Predicates) /\ Seq({p}) \subseteq Seq(Predicates)
      BY <3>1, SeqMonotonic
    <3> QED
      BY <2>2, <2>3, <3>2
  <2>5. /\ Len(v) \in Nat /\ Len(r) \in Nat /\ DOMAIN v = 1..Len(v) /\ DOMAIN r = 1..Len(r)
        /\ DOMAIN (v \o r) = 1..(Len(v) + Len(r))
        /\ \A i \in 1..(Len(v) + Len(r)) : (v \o r)[i] = IF i <= Len(v) THEN v[i] ELSE r[i - Len(v)]
    BY <2>4, LenProperties, ConcatProperties
  <2>6. \A i \in DOMAIN r : r[i] = p
    <3>1. \A i \in 1..Len(r) : r[i] \in {p}
      BY <2>2, ElementOfSeq
    <3> QED
      BY <3>1, <2>5
  <2>7. ASSUME t \in OperandsOf(p) PROVE \E i \in DOMAIN (v \o r) : (v \o r)[i] = p
    <3>1. 1 \in DOMAIN r
      BY <2>2, <2>7
    <3>2. Len(r) >= 1
      BY <3>1, <2>5
    <3>3. Len(v) + 1 \in 1..(Len(v) + Len(r)) /\ (Len(v) + 1) - Len(v) = 1
      BY <3>2, <2>5
    <3>4. (v \o r)[Len(v) + 1] = r[1]
      BY <3>3, <2>5
    <3> QED
      BY <3>1, <3>3, <3>4, <2>5, <2>6
  <2>8. \A i \in DOMAIN v : i \in DOMAIN (v \o r) /\ (v \o r)[i] = v[i]
    BY <2>5
  <2>9. ASSUME NEW i \in DOMAIN (v \o r), i \notin DOMAIN v
        PROVE  t \in OperandsOf(p) /\ (v \o r)[i] = p
    <3>1. i - Len(v) \in DOMAIN r /\ (v \o r)[i] = r[i - Len(v)]
      BY <2>5, <2>9
    <3>2. r # <<>>
      BY <3>1
    <3> QED
      BY <3>1, <3>2, <2>2, <2>6
  <2> QED
    BY <2>1, <2>7, <2>8, <2>9 DEF v
<1>5. Registered'
  <2>1. ASSUME NEW q \in added', NEW t \in OperandsOf(q)
        PROVE  \E i \in DOMAIN predicates'[t] : predicates'[t][i] = q
    <3>1. t \in Triggers
      <4>1. operands[q] \in Seq(Triggers)
        BY <1>2 DEF TypeOK
      <4> QED
        BY <4>1, ElementOfSeq, LenProperties DEF OperandsOf
    <3> QED
      BY <3>1, <1>2, <1>4 DEF Registration, Registered
  <2> QED
    BY <2>1, <1>2 DEF Registered
<1>6. OnlyRegistered'
  BY <1>2, <1>4 DEF Registration, OnlyRegistered
<1>7. WalkDelivers'
  BY <1>2 DEF Registration, WalkDelivers
<1>8. Fresh'
  BY <1>2 DEF Registration, Fresh
<1> QED
  BY <1>3, <1>5, <1>6, <1>7, <1>8 DEF Registration

(* A signal goes to whoever is registered with its trigger.                *)
LEMMA RegistrationSignal ==
  ASSUME TypeOK, Registration, NEW t \in Triggers, NEW s \in {"activate", "deactivate"},
         Signal(t, s)
  PROVE  Registration'
<1>1. UNCHANGED <<class, operands, triggerState, lastSatisfied, predicates, added>>
  BY DEF Signal, objectVars, stateVars
<1>2. AddedMade' /\ Registered' /\ OnlyRegistered'
  BY <1>1 DEF Registration, AddedMade, Made, Registered, OnlyRegistered, OperandsOf
<1>3. WalkDelivers'
  <2>1. walk'.trigger = t /\ walk'.signal = s /\ walk'.rest = predicates[t]
    BY DEF Signal
  <2>2. active'[t] = (s = "activate")
    BY DEF Signal, TypeOK
  <2>3. \A p \in added : <<t, s>> \in heard'[p]
    BY DEF Signal, TypeOK
  <2>4. \A p : OperandsOf(p)' = OperandsOf(p)
    BY <1>1 DEF OperandsOf
  <2>5. \A i \in DOMAIN predicates[t] :
          predicates[t][i] \in added /\ t \in OperandsOf(predicates[t][i])
    BY DEF Registration, OnlyRegistered
  <2> QED
    BY <2>1, <2>2, <2>3, <2>4, <2>5, <1>1 DEF WalkDelivers
<1>4. Fresh'
  BY <1>1 DEF Registration, Fresh, Signal
<1> QED
  BY <1>2, <1>3, <1>4 DEF Registration

(* Every step keeps Registration.                                          *)
LEMMA RegistrationNext == TypeOK /\ Registration /\ [Next]_vars => Registration'
<1> SUFFICES ASSUME TypeOK, Registration, [Next]_vars PROVE Registration'
  OBVIOUS
<1>1. ASSUME SkipExpired \/ Deactivate \/ Activate PROVE Registration'
  BY <1>1, RegistrationTurn
<1>2. ASSUME EndOfWalk PROVE Registration'
  BY <1>2 DEF EndOfWalk, objectVars, stateVars, historyVars, Registration, AddedMade, Made,
              Registered, OnlyRegistered, OperandsOf, WalkDelivers, Fresh
<1>3. ASSUME NEW p \in Predicates, MakePredicate(p) PROVE Registration'
  BY <1>3, RegistrationMake
<1>4. ASSUME NEW p \in Predicates, AddPredicate(p) PROVE Registration'
  BY <1>4, RegistrationAdd
<1>5. ASSUME NEW p \in Predicates, Release(p) PROVE Registration'
  <2>1. UNCHANGED <<class, operands, triggerState, lastSatisfied, predicates, walk, active, added, heard>>
    BY <1>5 DEF Release, stateVars, historyVars
  <2> QED
    BY <2>1 DEF Registration, AddedMade, Made, Registered, OnlyRegistered, OperandsOf,
                WalkDelivers, Fresh
<1>6. ASSUME NEW t \in Triggers, NEW s \in {"activate", "deactivate"}, Signal(t, s)
      PROVE  Registration'
  BY <1>6, RegistrationSignal
<1>7. ASSUME UNCHANGED vars PROVE Registration'
  BY <1>7 DEF vars, objectVars, stateVars, historyVars, Registration, AddedMade, Made,
              Registered, OnlyRegistered, OperandsOf, WalkDelivers, Fresh
<1> QED
  BY <1>1, <1>2, <1>3, <1>4, <1>5, <1>6, <1>7 DEF Next, Walk

-----------------------------------------------------------------------------
(* A predicate knows its operands *)

\* StateFollowsSignals of one predicate and one operand.
Follows(p, t) ==
  ~(walk.trigger = t /\ Ahead(p)) =>
    (triggerState[p][t] <=> (<<t, "activate">> \in heard[p] /\ active[t]))

(* The head of the vector being walked.                                    *)
LEMMA HeadDelivers ==
  ASSUME TypeOK, Registration, walk.rest # <<>>, walk' = [walk EXCEPT !.rest = Tail(@)]
  PROVE  /\ Head(walk.rest) \in added /\ walk.trigger \in Triggers
         /\ walk.trigger \in OperandsOf(Head(walk.rest))
         /\ <<walk.trigger, walk.signal>> \in heard[Head(walk.rest)]
         /\ active[walk.trigger] <=> (walk.signal = "activate")
         /\ walk'.trigger = walk.trigger
         /\ \A q \in Predicates : q # Head(walk.rest) /\ Ahead(q) => Ahead(q)'
<1>1. walk # NoWalk /\ walk.rest \in Seq(Predicates) /\ walk.trigger \in Triggers
      /\ walk'.rest = Tail(walk.rest) /\ walk'.trigger = walk.trigger
  BY WalkAdvances DEF NoWalk
<1>2. /\ 1 \in DOMAIN walk.rest /\ Head(walk.rest) = walk.rest[1]
      /\ \A q : q # Head(walk.rest) /\ (\E i \in DOMAIN walk.rest : walk.rest[i] = q)
              => \E i \in DOMAIN Tail(walk.rest) : Tail(walk.rest)[i] = q
  BY <1>1, RestOfVector
<1>3. \A q \in Predicates : q # Head(walk.rest) /\ Ahead(q) => Ahead(q)'
  BY <1>1, <1>2 DEF Ahead
<1> QED
  BY <1>1, <1>2, <1>3 DEF Registration, WalkDelivers

(* At first no predicate is alive.                                         *)
LEMMA FollowsInit == Init => StateFollowsSignals
  BY DEF Init, StateFollowsSignals

(* A signal is either still ahead of a predicate or not for it.            *)
LEMMA FollowsSignal ==
  ASSUME TypeOK, Registration, StateFollowsSignals,
         NEW u \in Triggers, NEW s \in {"activate", "deactivate"}, Signal(u, s)
  PROVE  StateFollowsSignals'
<1>1. /\ walk = NoWalk /\ NoTrigger \notin Triggers
      /\ walk'.trigger = u /\ walk'.rest = predicates[u]
      /\ UNCHANGED <<operands, alive, triggerState>>
      /\ active' = [active EXCEPT ![u] = (s = "activate")]
      /\ \A p \in Predicates \ added : heard'[p] = heard[p]
      /\ \A p \in added : heard'[p] = heard[p] \cup {<<u, s>>}
  BY EngineAssumption DEF Signal, Idle, TypeOK, objectVars, stateVars, EngineAssumption
<1> SUFFICES ASSUME NEW p \in alive, NEW t \in OperandsOf(p) PROVE Follows(p, t)'
  BY <1>1 DEF StateFollowsSignals, Follows, OperandsOf
<1>2. p \in Predicates /\ t \in Triggers
  <2>1. p \in Predicates /\ operands[p] \in Seq(Triggers)
    BY DEF TypeOK
  <2> QED
    BY <2>1, ElementOfSeq, LenProperties DEF OperandsOf
<1>3. triggerState[p][t] <=> (<<t, "activate">> \in heard[p] /\ active[t])
  BY <1>1, <1>2 DEF StateFollowsSignals, NoWalk
<1>4. CASE p \notin added
  BY <1>1, <1>2, <1>4 DEF Registration, Fresh, Follows
<1>5. CASE p \in added /\ t = u
  <2>1. \E i \in DOMAIN walk'.rest : walk'.rest[i] = p
    BY <1>1, <1>5 DEF Registration, Registered
  <2> QED
    BY <2>1, <1>1, <1>5 DEF Follows, Ahead
<1>6. CASE p \in added /\ t # u
  <2>1. /\ active'[t] = active[t] /\ triggerState'[p][t] = triggerState[p][t]
        /\ <<t, "activate">> \in heard'[p] <=> <<t, "activate">> \in heard[p]
    BY <1>1, <1>2, <1>6 DEF TypeOK
  <2> QED
    BY <2>1, <1>3 DEF Follows
<1> QED
  BY <1>4, <1>5, <1>6

(* A turn of the loop delivers the signal to the head of the vector.       *)
LEMMA FollowsTurn ==
  ASSUME TypeOK, Registration, StateFollowsSignals, SkipExpired \/ Deactivate \/ Activate
  PROVE  StateFollowsSignals'
<1> DEFINE h == Head(walk.rest)
           u == walk.trigger
<1>1. /\ walk.rest # <<>> /\ walk' = [walk EXCEPT !.rest = Tail(@)]
      /\ UNCHANGED <<operands, alive, active, heard>>
  BY DEF SkipExpired, Deactivate, Activate, objectVars, historyVars, stateVars
<1>2. /\ h \in added /\ u \in Triggers /\ <<u, walk.signal>> \in heard[h]
      /\ active[u] <=> (walk.signal = "activate")
      /\ walk'.trigger = u
      /\ \A q \in Predicates : q # h /\ Ahead(q) => Ahead(q)'
  BY <1>1, HeadDelivers
<1>3. \A p \in Predicates, t \in Triggers :
        p # h \/ t # u => triggerState'[p][t] = triggerState[p][t]
  BY DEF SkipExpired, Deactivate, Activate, stateVars, TypeOK, EvaluatedTruth
<1>4. h \in alive => (triggerState'[h][u] <=> (walk.signal = "activate"))
  BY <1>2 DEF SkipExpired, Deactivate, Activate, TypeOK
<1> HIDE DEF h, u
<1> SUFFICES ASSUME NEW p \in alive, NEW t \in OperandsOf(p) PROVE Follows(p, t)'
  BY <1>1 DEF StateFollowsSignals, Follows, OperandsOf
<1>5. p \in Predicates /\ t \in Triggers
  <2>1. p \in Predicates /\ operands[p] \in Seq(Triggers)
    BY DEF TypeOK
  <2> QED
    BY <2>1, ElementOfSeq, LenProperties DEF OperandsOf
<1>6. Follows(p, t)
  BY DEF StateFollowsSignals, Follows
<1>7. CASE p = h /\ t = u
  BY <1>1, <1>2, <1>4, <1>7 DEF Follows
<1>8. CASE t # u
  BY <1>1, <1>2, <1>3, <1>5, <1>6, <1>8 DEF Follows, u
<1>9. CASE p # h /\ t = u
  BY <1>1, <1>2, <1>3, <1>5, <1>6, <1>9 DEF Follows, u
<1> QED
  BY <1>7, <1>8, <1>9

(* A new predicate has heard nothing and has no true operand.              *)
LEMMA FollowsMake ==
  ASSUME TypeOK, Registration, StateFollowsSignals, NEW p \in Predicates, MakePredicate(p)
  PROVE  StateFollowsSignals'
<1>1. /\ p \notin added /\ alive' = alive \cup {p}
      /\ \A q \in Predicates : q # p => operands'[q] = operands[q]
      /\ operands' \in [Predicates -> Seq(Triggers)]
      /\ UNCHANGED <<triggerState, walk, active, heard>>
  BY TypeMakePredicate DEF MakePredicate, Registration, AddedMade, Made, TypeOK, stateVars, historyVars
<1> SUFFICES ASSUME NEW q \in alive', NEW t \in {operands'[q][i] : i \in DOMAIN operands'[q]}
             PROVE  Follows(q, t)'
  BY DEF StateFollowsSignals, Follows, OperandsOf
<1>2. CASE q = p
  <2>1. t \in Triggers
    BY <1>1, <1>2, ElementOfSeq, LenProperties
  <2> QED
    BY <2>1, <1>1, <1>2 DEF Registration, Fresh, Follows
<1>3. CASE q # p
  <2>1. q \in alive /\ t \in OperandsOf(q)
    BY <1>1, <1>3 DEF OperandsOf, TypeOK
  <2> QED
    BY <2>1, <1>1 DEF StateFollowsSignals, Follows, Ahead
<1> QED
  BY <1>2, <1>3

(* Every step keeps the predicates informed.                               *)
LEMMA FollowsNext ==
  TypeOK /\ Registration /\ StateFollowsSignals /\ [Next]_vars => StateFollowsSignals'
<1> SUFFICES ASSUME TypeOK, Registration, StateFollowsSignals, [Next]_vars
             PROVE  StateFollowsSignals'
  OBVIOUS
<1>1. ASSUME SkipExpired \/ Deactivate \/ Activate PROVE StateFollowsSignals'
  BY <1>1, FollowsTurn
<1>2. ASSUME EndOfWalk PROVE StateFollowsSignals'
  <2>1. UNCHANGED <<operands, alive, triggerState, active, heard>> /\ walk.rest = <<>>
    BY <1>2 DEF EndOfWalk, objectVars, stateVars, historyVars
  <2>2. \A p : ~Ahead(p)
    BY <2>1 DEF Ahead
  <2> QED
    BY <2>1, <2>2 DEF StateFollowsSignals, OperandsOf
<1>3. ASSUME NEW p \in Predicates, MakePredicate(p) PROVE StateFollowsSignals'
  BY <1>3, FollowsMake
<1>4. ASSUME NEW p \in Predicates, AddPredicate(p) PROVE StateFollowsSignals'
  BY <1>4 DEF AddPredicate, objectVars, stateVars, StateFollowsSignals, OperandsOf, Ahead
<1>5. ASSUME NEW p \in Predicates, Release(p) PROVE StateFollowsSignals'
  BY <1>5 DEF Release, stateVars, historyVars, StateFollowsSignals, OperandsOf, Ahead
<1>6. ASSUME NEW t \in Triggers, NEW s \in {"activate", "deactivate"}, Signal(t, s)
      PROVE  StateFollowsSignals'
  BY <1>6, FollowsSignal
<1>7. ASSUME UNCHANGED vars PROVE StateFollowsSignals'
  BY <1>7 DEF vars, objectVars, stateVars, historyVars, StateFollowsSignals, OperandsOf, Ahead
<1> QED
  BY <1>1, <1>2, <1>3, <1>4, <1>5, <1>6, <1>7 DEF Next, Walk

(* No signal is lost or invented: outside the part of a walk still to come,*)
(* a living predicate knows an operand as true exactly when the trigger was*)
(* signalled to it and its last signal was an activation.                  *)
THEOREM SignalsFollowed == Spec => []StateFollowsSignals
<1>1. Init => TypeOK /\ Registration /\ StateFollowsSignals
  BY TypeInit, RegistrationInit, FollowsInit
<1>2. TypeOK /\ Registration /\ StateFollowsSignals /\ [Next]_vars
        => TypeOK' /\ Registration' /\ StateFollowsSignals'
  BY TypeNext, RegistrationNext, FollowsNext
<1> QED
  BY <1>1, <1>2, PTL DEF Spec

-----------------------------------------------------------------------------
(* When a callback runs *)

(* Only Activate adds to calledBack, and only for the head of the vector,  *)
(* when its formula is true of its operands with the trigger set.          *)
LEMMA OnlyActivateCallsBack ==
  ASSUME TypeOK, [Next]_vars, NEW p \in Predicates, calledBack'[p] > calledBack[p]
  PROVE  /\ Activate /\ p = Head(walk.rest) /\ p \in alive
         /\ Formula(class[p], operands[p], EvaluatedTruth(p))
         /\ ~AlreadyFired(class[p], operands[p], EvaluatedTruth(p), lastSatisfied[p])
<1>1. calledBack[p] \in Nat
  BY DEF TypeOK
<1>2. CASE UNCHANGED calledBack
  BY <1>1, <1>2
<1>3. ASSUME NEW t \in Triggers, NEW s \in {"activate", "deactivate"}, Signal(t, s) PROVE FALSE
  BY <1>1, <1>3 DEF Signal
<1>4. ASSUME Activate
      PROVE  /\ p = Head(walk.rest) /\ p \in alive
             /\ Formula(class[p], operands[p], EvaluatedTruth(p))
             /\ ~AlreadyFired(class[p], operands[p], EvaluatedTruth(p), lastSatisfied[p])
  BY <1>1, <1>4 DEF Activate, TypeOK
<1>5. Activate \/ UNCHANGED calledBack \/ \E t \in Triggers, s \in {"activate", "deactivate"} : Signal(t, s)
  BY DEF Next, Walk, SkipExpired, Deactivate, EndOfWalk, MakePredicate, AddPredicate, Release,
         vars, historyVars
<1> QED
  BY <1>2, <1>3, <1>4, <1>5

(* A step that calls back does so with a formula true of the last signals. *)
LEMMA CallbackStep ==
  ASSUME TypeOK, Registration, StateFollowsSignals, [Next]_vars,
         NEW p \in Predicates, calledBack'[p] > calledBack[p]
  PROVE  Formula(class[p], operands[p], active)
<1> DEFINE u == walk.trigger
<1>1. /\ Activate /\ p = Head(walk.rest) /\ p \in alive
      /\ Formula(class[p], operands[p], EvaluatedTruth(p))
  BY OnlyActivateCallsBack
<1>2. u \in Triggers /\ active[u]
  BY <1>1, HeadDelivers DEF Activate
<1>3. /\ class[p] \in DOMAIN Arity /\ operands[p] \in Seq(Triggers)
      /\ Len(operands[p]) = Arity[class[p]]
  BY <1>1 DEF TypeOK
<1>4. ASSUME NEW i \in DOMAIN operands[p], EvaluatedTruth(p)[operands[p][i]]
      PROVE  active[operands[p][i]]
  <2>1. operands[p][i] \in Triggers /\ operands[p][i] \in OperandsOf(p)
    BY <1>3, ElementOfSeq, LenProperties DEF OperandsOf
  <2>2. CASE operands[p][i] = u
    BY <1>2, <2>2
  <2>3. CASE operands[p][i] # u
    <3>1. triggerState[p][operands[p][i]]
      BY <1>2, <1>4, <2>1, <2>3 DEF EvaluatedTruth, TypeOK
    <3> QED
      BY <3>1, <1>1, <2>1, <2>3 DEF StateFollowsSignals
  <2> QED
    BY <2>2, <2>3
<1> QED
  BY <1>1, <1>3, <1>4, FormulaMonotone

(* A callback runs only when the formula of its predicate is true of the   *)
(* triggers whose last signal was an activation.                           *)
THEOREM CallbacksJustified == Spec => CallbackOnlyIfSatisfied
<1>1. Init => TypeOK /\ Registration /\ StateFollowsSignals
  BY TypeInit, RegistrationInit, FollowsInit
<1>2. TypeOK /\ Registration /\ StateFollowsSignals /\ [Next]_vars
        => TypeOK' /\ Registration' /\ StateFollowsSignals'
  BY TypeNext, RegistrationNext, FollowsNext
<1>3. TypeOK /\ Registration /\ StateFollowsSignals /\ [Next]_vars
        => [\A p \in Predicates : calledBack'[p] > calledBack[p] =>
              Formula(class[p], operands[p], active)]_vars
  BY CallbackStep
<1> QED
  BY <1>1, <1>2, <1>3, PTL DEF Spec, CallbackOnlyIfSatisfied

-----------------------------------------------------------------------------
(* What lastSatisfied remembers *)

\* A Predicate_1or2and3 with three true operands that has called back
\* remembers it.
Remembered ==
  \A p \in Predicates :
    /\ class[p] = "Predicate_1or2and3" /\ fired[p] > 0
    /\ \A i \in 1..3 : triggerState[p][operands[p][i]]
    => lastSatisfied[p]

\* No operand of p was deactivated, if p has a memory.
NotStale(p) ==
  class[p] = "Predicate_1or2and3" =>
    \A t \in OperandsOf(p) : <<t, "deactivate">> \notin heard[p]

\* SatisfiedHasFiredUnlessStale of every predicate that was made; and what
\* a predicate remembers has happened.
HasFired ==
  \A p \in Made :
    NotStale(p) =>
      /\ Formula(class[p], operands[p], triggerState[p]) => fired[p] > 0
      /\ class[p] = "Predicate_1or2and3" /\ lastSatisfied[p] => fired[p] > 0

(* Predicate_1or2and3 has three operands.                                  *)
LEMMA ArityOfOr == Arity["Predicate_1or2and3"] = 3
  BY DEF Arity

(* Its formula is true when all three are.                                 *)
LEMMA FormulaOfThree ==
  ASSUME NEW ops, NEW f, \A i \in 1..3 : f[ops[i]]
  PROVE  Formula("Predicate_1or2and3", ops, f)
  BY DEF Formula

(* What Activate does to the head of the vector.                           *)
LEMMA ActivateHead ==
  ASSUME TypeOK, Activate, NEW p, p = Head(walk.rest)
  PROVE  LET truth == EvaluatedTruth(p)
             already == AlreadyFired(class[p], operands[p], truth, lastSatisfied[p])
             satisfied == Formula(class[p], operands[p], truth) /\ ~already
         IN  /\ triggerState'[p] = truth
             /\ lastSatisfied'[p] = (IF already THEN lastSatisfied[p] ELSE satisfied)
             /\ fired'[p] = IF satisfied THEN fired[p] + 1 ELSE fired[p]
<1>1. p \in Predicates
  BY WalkAdvances DEF Activate
<1>2. triggerState'[p] = EvaluatedTruth(p)
  BY <1>1 DEF Activate, TypeOK, EvaluatedTruth
<1> QED
  BY <1>1, <1>2 DEF Activate, TypeOK

(* Every step keeps Remembered: deactivations only make operands false.    *)
LEMMA RememberedNext ==
  ASSUME TypeOK, Registration, Remembered, [Next]_vars
  PROVE  Remembered'
<1>1. ASSUME Activate PROVE Remembered'
  <2> DEFINE h == Head(walk.rest)
             truth == EvaluatedTruth(h)
             already == AlreadyFired(class[h], operands[h], truth, lastSatisfied[h])
             satisfied == Formula(class[h], operands[h], truth) /\ ~already
  <2>1. UNCHANGED <<class, operands>>
    BY <1>1 DEF Activate, objectVars
  <2>2. \A p \in Predicates : p # h => /\ triggerState'[p] = triggerState[p]
                                     /\ lastSatisfied'[p] = lastSatisfied[p]
                                     /\ fired'[p] = fired[p]
    BY <1>1 DEF Activate, TypeOK
  <2>3. /\ triggerState'[h] = truth
        /\ lastSatisfied'[h] = (IF already THEN lastSatisfied[h] ELSE satisfied)
    BY <1>1, ActivateHead
  <2>4. already => lastSatisfied[h]
    BY DEF AlreadyFired
  <2>5. ASSUME class[h] = "Predicate_1or2and3", \A i \in 1..3 : truth[operands[h][i]]
        PROVE  lastSatisfied'[h]
    <3>1. Formula(class[h], operands[h], truth)
      BY <2>5, FormulaOfThree
    <3> QED
      BY <3>1, <2>3, <2>4
  <2> HIDE DEF h, truth, already, satisfied
  <2> QED
    BY <2>1, <2>2, <2>3, <2>5 DEF Remembered
<1>2. ASSUME Deactivate PROVE Remembered'
  <2>1. /\ UNCHANGED <<class, operands, lastSatisfied>> /\ Head(walk.rest) \in Predicates
    BY <1>2, WalkAdvances DEF Deactivate, objectVars
  <2>2. \A p \in Predicates : \A t : triggerState'[p][t] => triggerState[p][t]
    <3>1. \A p \in Predicates, t \in Triggers : triggerState'[p][t] => triggerState[p][t]
      BY <1>2, <2>1 DEF Deactivate, TypeOK
    <3> QED
      BY <1>2, <2>1, <3>1 DEF Deactivate, TypeOK
  <2>3. \A p \in Predicates : fired'[p] > 0 => fired[p] > 0
    BY <1>2, <2>1 DEF Deactivate, TypeOK
  <2> QED
    BY <2>1, <2>2, <2>3 DEF Remembered
<1>3. ASSUME NEW q \in Predicates, MakePredicate(q) PROVE Remembered'
  <2>1. /\ UNCHANGED <<triggerState, lastSatisfied, fired>>
        /\ operands' \in [Predicates -> Seq(Triggers)]
        /\ \A p \in Predicates : p # q => class'[p] = class[p] /\ operands'[p] = operands[p]
        /\ \A p \in Predicates : class'[p] # "none" => Len(operands'[p]) = Arity[class'[p]]
    BY <1>3, TypeMakePredicate DEF MakePredicate, stateVars, historyVars, TypeOK
  <2>2. ASSUME class'[q] = "Predicate_1or2and3" PROVE ~triggerState[q][operands'[q][1]]
    <3>1. q \in Predicates \ added
      BY <1>3 DEF MakePredicate, Registration, AddedMade, Made
    <3>2. operands'[q] \in Seq(Triggers) /\ Len(operands'[q]) = 3
      BY <2>1, <2>2, ArityOfOr
    <3>3. operands'[q][1] \in Triggers
      BY <3>2, ElementOfSeq
    <3> QED
      BY <3>1, <3>3 DEF Registration, Fresh
  <2> QED
    BY <2>1, <2>2 DEF Remembered
<1>4. ASSUME UNCHANGED <<class, operands, stateVars, fired>> PROVE Remembered'
  BY <1>4 DEF stateVars, Remembered
<1>5. \/ Activate \/ Deactivate \/ \E q \in Predicates : MakePredicate(q)
      \/ UNCHANGED <<class, operands, stateVars, fired>>
  BY DEF Next, Walk, SkipExpired, EndOfWalk, AddPredicate, Release, Signal, vars,
         objectVars, historyVars
<1> QED
  BY <1>1, <1>2, <1>3, <1>4, <1>5

(* Once a Predicate_1or2and3 has called back and its operands are all true,*)
(* no further activation makes it call back.                               *)
THEOREM SecondOrStaysSilent == Spec => SecondOrSilent
<1>1. Init => TypeOK /\ Registration /\ Remembered
  <2>1. Init => Remembered
    BY DEF Init, Remembered
  <2> QED
    BY <2>1, TypeInit, RegistrationInit
<1>2. TypeOK /\ Registration /\ Remembered /\ [Next]_vars
        => TypeOK' /\ Registration' /\ Remembered'
  BY TypeNext, RegistrationNext, RememberedNext
<1>3. TypeOK /\ Registration /\ Remembered /\ [Next]_vars
        => [\A p \in Predicates :
              /\ class[p] = "Predicate_1or2and3" /\ fired[p] > 0
              /\ \A i \in 1..3 : triggerState[p][operands[p][i]]
              => calledBack'[p] <= calledBack[p]]_vars
  <2> SUFFICES ASSUME TypeOK, Registration, Remembered, [Next]_vars, NEW p \in Predicates,
                      class[p] = "Predicate_1or2and3", fired[p] > 0,
                      \A i \in 1..3 : triggerState[p][operands[p][i]]
               PROVE  calledBack'[p] <= calledBack[p]
    OBVIOUS
  <2>1. calledBack[p] \in Nat /\ calledBack'[p] \in Nat
    BY TypeNext DEF TypeOK
  <2>2. ASSUME calledBack'[p] > calledBack[p] PROVE FALSE
    <3>1. ~AlreadyFired(class[p], operands[p], EvaluatedTruth(p), lastSatisfied[p])
      BY <2>2, OnlyActivateCallsBack
    <3>2. lastSatisfied[p]
      BY DEF Remembered
    <3>3. \A i \in 1..3 : EvaluatedTruth(p)[operands[p][i]]
      <4>1. \A t \in Triggers : triggerState[p][t] => EvaluatedTruth(p)[t]
        BY DEF EvaluatedTruth, TypeOK
      <4>2. operands[p] \in Seq(Triggers) /\ Len(operands[p]) = 3
        BY ArityOfOr DEF TypeOK
      <4> QED
        BY <4>1, <4>2, ElementOfSeq
    <3> QED
      BY <3>1, <3>2, <3>3 DEF AlreadyFired
  <2> QED
    BY <2>1, <2>2
<1> QED
  BY <1>1, <1>2, <1>3, PTL DEF Spec, SecondOrSilent

-----------------------------------------------------------------------------
(* A satisfied predicate has called back *)

\* HasFired of one predicate.
FiredIfTrue(p) ==
  NotStale(p) =>
    /\ Formula(class[p], operands[p], triggerState[p]) => fired[p] > 0
    /\ class[p] = "Predicate_1or2and3" /\ lastSatisfied[p] => fired[p] > 0

(* Activate calls back, or lastSatisfied recalls that it did.              *)
LEMMA HasFiredActivate ==
  ASSUME TypeOK, Registration, HasFired, Activate
  PROVE  HasFired'
<1> DEFINE h == Head(walk.rest)
           truth == EvaluatedTruth(h)
           already == AlreadyFired(class[h], operands[h], truth, lastSatisfied[h])
           satisfied == Formula(class[h], operands[h], truth) /\ ~already
<1>1. /\ UNCHANGED <<class, operands, heard>> /\ h \in Made /\ fired[h] \in Nat
      /\ \A p \in Predicates : p # h => /\ triggerState'[p] = triggerState[p]
                                     /\ lastSatisfied'[p] = lastSatisfied[p]
                                     /\ fired'[p] = fired[p]
  <2>1. h \in alive /\ UNCHANGED <<class, operands, heard>>
    BY DEF Activate, objectVars
  <2>2. h \in Made /\ fired[h] \in Nat
    BY <2>1 DEF TypeOK, Made
  <2> QED
    BY <2>1, <2>2 DEF Activate, TypeOK
<1>2. /\ triggerState'[h] = truth
      /\ lastSatisfied'[h] = (IF already THEN lastSatisfied[h] ELSE satisfied)
      /\ fired'[h] = IF satisfied THEN fired[h] + 1 ELSE fired[h]
  BY ActivateHead
<1>3. already => class[h] = "Predicate_1or2and3" /\ lastSatisfied[h]
  BY DEF AlreadyFired
<1>4. FiredIfTrue(h)
  BY <1>1 DEF HasFired, FiredIfTrue
<1>5. \A p \in Predicates : NotStale(p)' => NotStale(p)
  BY <1>1 DEF NotStale, OperandsOf
<1> HIDE DEF h, already, truth
<1>6. ASSUME NotStale(h), already \/ Formula(class[h], operands[h], truth)
      PROVE  fired'[h] > 0
  <2>1. CASE already
    BY <2>1, <1>1, <1>2, <1>3, <1>4, <1>6 DEF FiredIfTrue
  <2>2. CASE ~already
    BY <2>2, <1>1, <1>2, <1>6
  <2> QED
    BY <2>1, <2>2
<1>7. lastSatisfied'[h] => already \/ Formula(class[h], operands[h], truth)
  BY <1>2
<1> HIDE DEF satisfied
<1> SUFFICES ASSUME NEW p \in Made PROVE FiredIfTrue(p)'
  BY <1>1 DEF HasFired, FiredIfTrue, Made
<1>8. CASE p = h
  <2>1. ASSUME NotStale(p)'
        PROVE  /\ Formula(class[p], operands[p], triggerState'[p]) => fired'[p] > 0
               /\ lastSatisfied'[p] => fired'[p] > 0
    BY <2>1, <1>2, <1>5, <1>6, <1>7, <1>8 DEF Made
  <2> QED
    BY <2>1, <1>1 DEF FiredIfTrue
<1>9. CASE p # h
  <2>1. FiredIfTrue(p) /\ p \in Predicates
    BY DEF HasFired, FiredIfTrue, Made
  <2> QED
    BY <2>1, <1>1, <1>9 DEF FiredIfTrue, NotStale, OperandsOf
<1> QED
  BY <1>8, <1>9

(* After a deactivation the formula is false or the memory stale.          *)
LEMMA HasFiredDeactivate ==
  ASSUME TypeOK, Registration, HasFired, Deactivate
  PROVE  HasFired'
<1> DEFINE h == Head(walk.rest)
           u == walk.trigger
<1>1. /\ UNCHANGED <<class, operands, heard, lastSatisfied>> /\ h \in Made
      /\ \A p \in Predicates : p # h => /\ triggerState'[p] = triggerState[p]
                                     /\ fired'[p] = fired[p]
      /\ fired'[h] = IF Formula(class[h], operands[h], triggerState'[h]) THEN fired[h] ELSE 0
      /\ triggerState'[h] = [triggerState[h] EXCEPT ![u] = FALSE]
  BY DEF Deactivate, TypeOK, objectVars, Made
<1>2. u \in Triggers /\ u \in OperandsOf(h) /\ <<u, "deactivate">> \in heard[h]
  BY HeadDelivers DEF Deactivate
<1>3. FiredIfTrue(h)
  BY <1>1 DEF HasFired, FiredIfTrue
<1>4. /\ class[h] \in DOMAIN Arity /\ operands[h] \in Seq(Triggers)
      /\ Len(operands[h]) = Arity[class[h]] /\ triggerState[h] \in [Triggers -> BOOLEAN]
  BY <1>1 DEF TypeOK, Made
<1>5. ASSUME Formula(class[h], operands[h], triggerState'[h])
      PROVE  Formula(class[h], operands[h], triggerState[h])
  <2>1. \A i \in DOMAIN operands[h] :
          triggerState'[h][operands[h][i]] => triggerState[h][operands[h][i]]
    <3>1. \A i \in DOMAIN operands[h] : operands[h][i] \in Triggers
      BY <1>4, ElementOfSeq, LenProperties
    <3> QED
      BY <3>1, <1>1, <1>4
  <2> QED
    BY <2>1, <1>4, <1>5, FormulaMonotone
<1> HIDE DEF h, u
<1> SUFFICES ASSUME NEW p \in Made PROVE FiredIfTrue(p)'
  BY <1>1 DEF HasFired, FiredIfTrue, Made
<1>6. CASE p = h /\ class[p] = "Predicate_1or2and3"
  BY <1>1, <1>2, <1>6 DEF FiredIfTrue, NotStale, OperandsOf
<1>7. CASE p = h /\ class[p] # "Predicate_1or2and3"
  <2>1. NotStale(h)
    BY <1>7 DEF NotStale
  <2> QED
    BY <2>1, <1>1, <1>3, <1>5, <1>7 DEF FiredIfTrue
<1>8. CASE p # h
  <2>1. FiredIfTrue(p) /\ p \in Predicates
    BY DEF HasFired, FiredIfTrue, Made
  <2> QED
    BY <2>1, <1>1, <1>8 DEF FiredIfTrue, NotStale, OperandsOf
<1> QED
  BY <1>6, <1>7, <1>8

(* The formula of a new predicate is false.                                *)
LEMMA HasFiredMake ==
  ASSUME TypeOK, Registration, HasFired, NEW q \in Predicates, MakePredicate(q)
  PROVE  HasFired'
<1>1. /\ UNCHANGED <<triggerState, lastSatisfied, fired, heard>> /\ q \notin added
      /\ \A p \in Predicates : p # q => class'[p] = class[p] /\ operands'[p] = operands[p]
  BY DEF MakePredicate, stateVars, historyVars, TypeOK, Registration, AddedMade, Made
<1>2. TypeOK'
  BY TypeMakePredicate
<1> SUFFICES ASSUME NEW p \in Made' PROVE FiredIfTrue(p)'
  BY DEF HasFired, FiredIfTrue
<1>3. CASE p = q
  <2>1. /\ class'[q] \in DOMAIN Arity /\ operands'[q] \in Seq(Triggers)
        /\ Len(operands'[q]) = Arity[class'[q]]
    BY <1>2, <1>3 DEF TypeOK, Made
  <2>2. \A i \in DOMAIN operands'[q] : operands'[q][i] \in Triggers
    BY <2>1, ElementOfSeq, LenProperties
  <2>3. ~lastSatisfied[q] /\ \A t \in Triggers : ~triggerState[q][t]
    BY <1>1 DEF Registration, Fresh
  <2>4. ~Formula(class'[q], operands'[q], triggerState[q])
    BY <2>1, <2>2, <2>3, FormulaNeedsOperand
  <2> QED
    BY <2>3, <2>4, <1>1, <1>3 DEF FiredIfTrue
<1>4. CASE p # q
  <2>1. FiredIfTrue(p) /\ p \in Predicates
    BY <1>1, <1>4 DEF HasFired, FiredIfTrue, Made
  <2> QED
    BY <2>1, <1>1, <1>4 DEF FiredIfTrue, NotStale, OperandsOf
<1> QED
  BY <1>3, <1>4

(* Every step keeps HasFired.                                              *)
LEMMA HasFiredNext ==
  ASSUME TypeOK, Registration, HasFired, [Next]_vars
  PROVE  HasFired'
<1>1. ASSUME Activate PROVE HasFired'
  BY <1>1, HasFiredActivate
<1>2. ASSUME Deactivate PROVE HasFired'
  BY <1>2, HasFiredDeactivate
<1>3. ASSUME NEW q \in Predicates, MakePredicate(q) PROVE HasFired'
  BY <1>3, HasFiredMake
<1>4. ASSUME NEW t \in Triggers, NEW s \in {"activate", "deactivate"}, Signal(t, s)
      PROVE  HasFired'
  <2>1. /\ UNCHANGED <<class, operands, triggerState, lastSatisfied, fired>>
        /\ \A p \in Predicates : heard[p] \subseteq heard'[p]
    BY <1>4 DEF Signal, objectVars, stateVars
  <2>2. \A p \in Predicates : NotStale(p)' => NotStale(p)
    BY <2>1 DEF NotStale, OperandsOf
  <2> QED
    BY <2>1, <2>2 DEF HasFired, Made
<1>5. ASSUME UNCHANGED <<class, operands, stateVars, heard, fired>> PROVE HasFired'
  BY <1>5 DEF stateVars, HasFired, Made, NotStale, OperandsOf
<1>6. \/ Activate \/ Deactivate \/ \E q \in Predicates : MakePredicate(q)
      \/ \E t \in Triggers, s \in {"activate", "deactivate"} : Signal(t, s)
      \/ UNCHANGED <<class, operands, stateVars, heard, fired>>
  BY DEF Next, Walk, SkipExpired, EndOfWalk, AddPredicate, Release, vars, objectVars, historyVars
<1> QED
  BY <1>1, <1>2, <1>3, <1>4, <1>5, <1>6

(* A predicate whose formula is true has called back since it became true, *)
(* unless it is a Predicate_1or2and3 that has heard a deactivation.        *)
THEOREM SatisfactionCallsBack == Spec => []SatisfiedHasFiredUnlessStale
<1>1. Init => TypeOK /\ Registration /\ HasFired
  <2>1. Init => HasFired
    BY DEF Init, HasFired, Made
  <2> QED
    BY <2>1, TypeInit, RegistrationInit
<1>2. TypeOK /\ Registration /\ HasFired /\ [Next]_vars
        => TypeOK' /\ Registration' /\ HasFired'
  BY TypeNext, RegistrationNext, HasFiredNext
<1>3. TypeOK /\ HasFired => SatisfiedHasFiredUnlessStale
  BY DEF TypeOK, HasFired, Made, NotStale, SatisfiedHasFiredUnlessStale
<1> QED
  BY <1>1, <1>2, <1>3, PTL DEF Spec

-----------------------------------------------------------------------------
(* One callback per signal *)

\* p occurs at most once in the vector v.
Once(v, p) == \A i, j \in DOMAIN v : v[i] = p /\ v[j] = p => i = j

\* What addPredicate and the walk make of a predicate without repeated operands.
CalledOnce(p) ==
  /\ \A t \in Triggers : Once(predicates[t], p)
  /\ Once(walk.rest, p)
  /\ calledBack[p] \in {0, 1}
  /\ calledBack[p] = 1 => ~Ahead(p)

OnceInv ==
  /\ \A p \in Predicates : DistinctOperands(p) => CalledOnce(p)
  /\ \A p \in Predicates \ added : calledBack[p] = 0

(* A predicate without repeated operands uses a trigger in one place.      *)
LEMMA DistinctUses ==
  ASSUME NEW p, operands[p] \in Seq(Triggers), DistinctOperands(p)
  PROVE  \A i, j \in DOMAIN operands[p] : operands[p][i] = operands[p][j] => i = j
<1> DEFINE ops == operands[p]
           D == 1 .. Len(ops)
<1>1. Len(ops) \in Nat /\ DOMAIN ops = D /\ ops \in [D -> Triggers]
  BY LenProperties
<1>2. IsFiniteSet(D) /\ Cardinality(D) = Len(ops)
  BY <1>1, FS_Interval
<1>3. ops \in Surjection(D, OperandsOf(p))
  BY <1>1 DEF Surjection, OperandsOf
<1>4. Cardinality(OperandsOf(p)) = Cardinality(D)
  BY <1>2 DEF DistinctOperands
<1> HIDE DEF ops, D
<1>5. ops \in Injection(D, OperandsOf(p))
  BY <1>2, <1>3, <1>4, FS_Surjection
<1>6. \A i, j \in D : ops[i] = ops[j] => i = j
  BY <1>5 DEF Injection, IsInjective
<1> QED
  BY <1>1, <1>6 DEF ops

(* addPredicate pushes such a predicate once on a vector.                  *)
LEMMA RegisteredOnce ==
  ASSUME NEW p, NEW t, operands[p] \in Seq(Triggers), DistinctOperands(p)
  PROVE  Len(Registrations(p, t)) <= 1
<1> DEFINE uses == {i \in DOMAIN operands[p] : operands[p][i] = t}
<1>1. \A i, j \in uses : i = j
  BY DistinctUses
<1>2. Cardinality(uses) \in {0, 1}
  <2>1. CASE uses = {}
    BY <2>1, FS_EmptySet
  <2>2. CASE uses # {}
    <3>1. PICK i : uses = {i}
      <4>1. PICK i : i \in uses
        BY <2>2
      <4> QED
        BY <4>1, <1>1
    <3> QED
      BY <3>1, FS_Singleton
  <2> QED
    BY <2>1, <2>2
<1>3. Registrations(p, t) = [i \in 1 .. Cardinality(uses) |-> p]
  BY DEF Registrations
<1> HIDE DEF uses
<1>4. Registrations(p, t) \in Seq({p}) /\ DOMAIN Registrations(p, t) = 1 .. Cardinality(uses)
  BY <1>2, <1>3, IsASeq
<1>5. Len(Registrations(p, t)) = Cardinality(uses)
  BY <1>2, <1>4, LenProperties
<1> QED
  BY <1>2, <1>5

(* What follows the head of a vector that has p once has p once, and not   *)
(* if the head is p.                                                       *)
LEMMA OnceInRest ==
  ASSUME NEW S, NEW s \in Seq(S), s # <<>>, NEW p, Once(s, p)
  PROVE  /\ Once(Tail(s), p)
         /\ \A i \in DOMAIN Tail(s) : Tail(s)[i] = p => p # Head(s)
<1>1. /\ 1 \in DOMAIN s /\ Head(s) = s[1] /\ DOMAIN Tail(s) \subseteq Nat \ {0}
      /\ \A i \in DOMAIN Tail(s) : i + 1 \in DOMAIN s /\ Tail(s)[i] = s[i + 1]
  BY RestOfVector, LenProperties
<1>2. Once(Tail(s), p)
  <2> SUFFICES ASSUME NEW i \in DOMAIN Tail(s), NEW j \in DOMAIN Tail(s),
                      Tail(s)[i] = p, Tail(s)[j] = p
               PROVE  i = j
    BY DEF Once
  <2>1. i + 1 = j + 1
    BY <1>1 DEF Once
  <2> QED
    BY <1>1, <2>1
<1>3. ASSUME NEW i \in DOMAIN Tail(s), Tail(s)[i] = p, p = Head(s) PROVE FALSE
  <2>1. i + 1 = 1
    BY <1>1, <1>3 DEF Once
  <2> QED
    BY <1>1, <2>1
<1> QED
  BY <1>2, <1>3

(* A turn of the loop calls a predicate it will not reach again.           *)
LEMMA OnceTurn ==
  ASSUME TypeOK, Registration, OnceInv, SkipExpired \/ Deactivate \/ Activate
  PROVE  OnceInv'
<1>1. /\ walk.rest # <<>> /\ walk' = [walk EXCEPT !.rest = Tail(@)]
      /\ UNCHANGED <<operands, predicates, added>>
  BY DEF SkipExpired, Deactivate, Activate, objectVars, historyVars
<1>2. walk.rest \in Seq(Predicates) /\ walk'.rest = Tail(walk.rest)
  BY <1>1, WalkAdvances
<1> DEFINE h == Head(walk.rest)
<1>3. h \in added /\ 1 \in DOMAIN walk.rest /\ h = walk.rest[1]
  BY <1>1, <1>2, HeadDelivers, RestOfVector
<1>4. \A q \in Predicates : /\ calledBack'[q] = calledBack[q] \/ calledBack'[q] = calledBack[q] + 1
                            /\ q # h => calledBack'[q] = calledBack[q]
  BY DEF SkipExpired, Deactivate, Activate, historyVars, TypeOK
<1> HIDE DEF h
<1>5. ASSUME NEW q \in Predicates, DistinctOperands(q) PROVE CalledOnce(q)'
  <2>1. CalledOnce(q)
    BY <1>5 DEF OnceInv
  <2>2. /\ Once(walk'.rest, q)
        /\ \A i \in DOMAIN walk'.rest : walk'.rest[i] = q => q # h
    BY <1>1, <1>2, <2>1, OnceInRest DEF CalledOnce, h
  <2>3. \A i \in DOMAIN walk'.rest : walk'.rest[i] = q => Ahead(q)
    BY <1>1, <1>2, RestOfVector DEF Ahead
  <2>4. CASE q = h
    <3>1. calledBack[q] = 0
      BY <1>3, <2>1, <2>4 DEF CalledOnce, Ahead
    <3> QED
      BY <1>1, <1>4, <2>1, <2>2, <2>4, <3>1 DEF CalledOnce, Ahead
  <2>5. CASE q # h
    BY <1>1, <1>4, <2>1, <2>2, <2>3, <2>5 DEF CalledOnce, Ahead
  <2> QED
    BY <2>4, <2>5
<1>6. \A q \in Predicates : DistinctOperands(q)' => DistinctOperands(q)
  BY <1>1 DEF DistinctOperands, OperandsOf
<1>7. \A q \in Predicates \ added' : calledBack'[q] = 0
  BY <1>1, <1>3, <1>4 DEF OnceInv
<1> QED
  BY <1>5, <1>6, <1>7 DEF OnceInv

(* A predicate that is not in the engine is in no vector and not called.   *)
LEMMA NotAddedOnce ==
  ASSUME TypeOK, Registration, OnceInv, NEW p \in Predicates \ added
  PROVE  /\ \A t \in Triggers : \A i \in DOMAIN predicates[t] : predicates[t][i] # p
         /\ \A i \in DOMAIN walk.rest : walk.rest[i] # p
         /\ calledBack[p] = 0
<1>1. \A t \in Triggers : \A i \in DOMAIN predicates[t] : predicates[t][i] # p
  BY DEF Registration, OnlyRegistered
<1>2. \A i \in DOMAIN walk.rest : walk.rest[i] # p
  <2>1. CASE walk = NoWalk
    BY <2>1 DEF NoWalk
  <2>2. CASE walk # NoWalk
    BY <2>2 DEF Registration, WalkDelivers
  <2> QED
    BY <2>1, <2>2
<1> QED
  BY <1>1, <1>2 DEF OnceInv

(* A predicate is made before it is added.                                 *)
LEMMA OnceMake ==
  ASSUME TypeOK, Registration, OnceInv, NEW p \in Predicates, MakePredicate(p)
  PROVE  OnceInv'
<1>1. p \notin added
  BY DEF MakePredicate, Registration, AddedMade, Made
<1>2. UNCHANGED <<predicates, walk, added, calledBack>>
  BY DEF MakePredicate, historyVars
<1>3. \A q \in Predicates : q # p => operands'[q] = operands[q]
  BY DEF MakePredicate, TypeOK
<1>4. CalledOnce(p)'
  BY <1>1, <1>2, NotAddedOnce DEF CalledOnce, Once, Ahead
<1>5. ASSUME NEW q \in Predicates, q # p, DistinctOperands(q)' PROVE CalledOnce(q)'
  BY <1>2, <1>3, <1>5 DEF OnceInv, CalledOnce, Once, Ahead, DistinctOperands, OperandsOf
<1> QED
  BY <1>2, <1>4, <1>5 DEF OnceInv

(* addPredicate: the vectors get the predicate once per use.               *)
LEMMA OnceAdd ==
  ASSUME TypeOK, Registration, OnceInv, NEW p \in Predicates, AddPredicate(p)
  PROVE  OnceInv'
<1>1. /\ UNCHANGED <<operands, walk, calledBack>> /\ added' = added \cup {p}
      /\ p \notin added /\ operands[p] \in Seq(Triggers)
  BY DEF AddPredicate, objectVars, TypeOK
<1>2. ASSUME NEW q \in Predicates, DistinctOperands(q), NEW t \in Triggers
      PROVE  Once(predicates'[t], q)
  <2> DEFINE v == predicates[t]
             r == Registrations(p, t)
  <2>1. predicates'[t] = v \o r
    BY DEF AddPredicate
  <2>2. Once(v, q) /\ (q = p => \A i \in DOMAIN v : v[i] # p)
    BY <1>1, <1>2, NotAddedOnce DEF OnceInv, CalledOnce
  <2>3. r \in Seq({p}) /\ (q = p => Len(r) <= 1)
    BY <1>1, <1>2, RegistrationsMember, RegisteredOnce
  <2>4. v \in Seq(Predicates \cup {p}) /\ r \in Seq(Predicates \cup {p})
    <3>1. v \in Seq({a \in Predicates : class[a] # "none"})
      BY DEF TypeOK
    <3> HIDE DEF v, r
    <3> QED
      BY <2>3, <3>1, SeqMonotonic
  <2> HIDE DEF v, r
  <2>5. /\ Len(v) \in Nat /\ Len(r) \in Nat /\ DOMAIN v = 1 .. Len(v) /\ DOMAIN r = 1 .. Len(r)
        /\ DOMAIN (v \o r) = 1 .. (Len(v) + Len(r))
        /\ \A i \in 1 .. (Len(v) + Len(r)) : (v \o r)[i] = IF i <= Len(v) THEN v[i]
                                                           ELSE r[i - Len(v)]
        /\ \A i \in 1 .. Len(r) : r[i] = p
    <3>1. \A i \in 1 .. Len(r) : r[i] \in {p}
      BY <2>3, ElementOfSeq
    <3> QED
      BY <2>4, <3>1, LenProperties, ConcatProperties
  <2>6. ASSUME NEW i \in DOMAIN (v \o r)
        PROVE  \/ i \in DOMAIN v /\ (v \o r)[i] = v[i]
               \/ i - Len(v) \in 1 .. Len(r) /\ (v \o r)[i] = p /\ i \in Nat
    <3>1. CASE i <= Len(v)
      BY <2>5, <3>1
    <3>2. CASE i > Len(v)
      <4>1. i - Len(v) \in 1 .. Len(r)
        BY <2>5, <3>2
      <4> QED
        BY <2>5, <3>2, <4>1
    <3> QED
      BY <2>5, <3>1, <3>2
  <2>7. ASSUME NEW i \in DOMAIN (v \o r), NEW j \in DOMAIN (v \o r),
               (v \o r)[i] = q, (v \o r)[j] = q
        PROVE  i = j
    <3>1. CASE q = p
      <4>1. i - Len(v) \in 1 .. Len(r) /\ j - Len(v) \in 1 .. Len(r) /\ i \in Nat /\ j \in Nat
        BY <2>2, <2>6, <2>7, <3>1
      <4> QED
        BY <2>3, <2>5, <3>1, <4>1
    <3>2. CASE q # p
      <4>1. i \in DOMAIN v /\ j \in DOMAIN v /\ v[i] = q /\ v[j] = q
        BY <2>6, <2>7, <3>2
      <4> QED
        BY <2>2, <4>1 DEF Once
    <3> QED
      BY <3>1, <3>2
  <2> QED
    BY <2>1, <2>7 DEF Once
<1>3. \A q \in Predicates : DistinctOperands(q)' => DistinctOperands(q)
  BY <1>1 DEF DistinctOperands, OperandsOf
<1> QED
  BY <1>1, <1>2, <1>3 DEF OnceInv, CalledOnce, Once, Ahead

(* A signal starts with nobody called and the whole vector ahead.          *)
LEMMA OnceSignal ==
  ASSUME TypeOK, OnceInv, NEW t \in Triggers, NEW s \in {"activate", "deactivate"}, Signal(t, s)
  PROVE  OnceInv'
<1>1. /\ UNCHANGED <<operands, predicates, added>> /\ walk'.rest = predicates[t]
      /\ \A q \in Predicates : calledBack'[q] = 0
  BY DEF Signal, objectVars
<1> QED
  BY <1>1 DEF OnceInv, CalledOnce, Once, Ahead, DistinctOperands, OperandsOf

(* Every step keeps OnceInv.                                               *)
LEMMA OnceNext == TypeOK /\ Registration /\ OnceInv /\ [Next]_vars => OnceInv'
<1> SUFFICES ASSUME TypeOK, Registration, OnceInv, [Next]_vars PROVE OnceInv'
  OBVIOUS
<1> USE DEF objectVars, historyVars
<1>1. ASSUME SkipExpired \/ Deactivate \/ Activate PROVE OnceInv'
  BY <1>1, OnceTurn
<1>2. ASSUME EndOfWalk PROVE OnceInv'
  <2>1. UNCHANGED <<operands, predicates, added, calledBack>> /\ walk'.rest = <<>>
    BY <1>2 DEF EndOfWalk, NoWalk
  <2> QED
    BY <2>1 DEF OnceInv, CalledOnce, Once, Ahead, DistinctOperands, OperandsOf
<1>3. ASSUME NEW p \in Predicates, MakePredicate(p) PROVE OnceInv'
  BY <1>3, OnceMake
<1>4. ASSUME NEW p \in Predicates, AddPredicate(p) PROVE OnceInv'
  BY <1>4, OnceAdd
<1>5. ASSUME NEW t \in Triggers, NEW s \in {"activate", "deactivate"}, Signal(t, s)
      PROVE  OnceInv'
  BY <1>5, OnceSignal
<1>6. ASSUME UNCHANGED <<operands, predicates, walk, added, calledBack>> PROVE OnceInv'
  BY <1>6 DEF OnceInv, CalledOnce, Once, Ahead, DistinctOperands, OperandsOf
<1>7. ASSUME NEW p \in Predicates, Release(p) PROVE OnceInv'
  BY <1>6, <1>7 DEF Release
<1>8. ASSUME UNCHANGED vars PROVE OnceInv'
  BY <1>6, <1>8 DEF vars
<1> QED
  BY <1>1, <1>2, <1>3, <1>4, <1>5, <1>7, <1>8 DEF Next, Walk

(* One signal makes a predicate that names no trigger twice call back at   *)
(* most once, whatever is made, added or released in the middle of it.     *)
THEOREM OneCallback == Spec => []OneCallbackPerSignal
<1>1. Init => OnceInv
  <2> SUFFICES ASSUME Init PROVE OnceInv
    OBVIOUS
  <2>1. /\ \A t \in Triggers : predicates[t] = <<>>
        /\ walk.rest = <<>> /\ \A p \in Predicates : calledBack[p] = 0
    BY DEF Init, NoWalk
  <2> QED
    BY <2>1 DEF OnceInv, CalledOnce, Once, Ahead
<1>2. OnceInv => OneCallbackPerSignal
  BY DEF OnceInv, CalledOnce, OneCallbackPerSignal
<1> QED
  BY <1>1, <1>2, TypeInit, TypeNext, RegistrationInit, RegistrationNext, OnceNext, PTL DEF Spec
=============================================================================
