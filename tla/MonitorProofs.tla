---------------------------- MODULE MonitorProofs ----------------------------
(***************************************************************************)
(* Proofs about Monitor: what is proved of the sampler and of the engine   *)
(* holds of the running program, in which each of the two is driven by the *)
(* other and by the server thread.                                         *)
(*                                                                         *)
(* S and E are the proof modules over the variables of the monitor.  Their *)
(* operators are those of Sampler and Engine under another name; the       *)
(* lemmas of the first two parts say so, one action each.                  *)
(***************************************************************************)
EXTENDS Monitor, FiniteSetTheorems, SequenceTheorems, TLAPS

S == INSTANCE SamplingManagerProofs WITH SelfStop <- FALSE
E == INSTANCE PredicateEngineProofs
       WITH MaxSignals <- 2 * MaxPolls * Cardinality(Triggers)

-----------------------------------------------------------------------------
(* The sampler *)

(* The data of the sampler is the same under both names.                   *)
LEMMA SameExceeds ==
  /\ \A t : Sampler!UnitAsserted(t) <=> S!UnitAsserted(t)
  /\ \A s, t : Sampler!Exceeds(s, t) <=> S!Exceeds(s, t)
BY DEF Sampler!UnitAsserted, S!UnitAsserted, Sampler!Exceeds, S!Exceeds,
       Sampler!CpuExceeds, S!CpuExceeds, Sampler!RamExceeds, S!RamExceeds,
       Sampler!HddExceeds, S!HddExceeds, Sampler!Beyond, S!Beyond

(* The sampler starts in an initial state of its own.                      *)
LEMMA SameInit == Sampler!Init => S!Init
<1>1. Sampler!Cardinality(Triggers) = S!Cardinality(Triggers)
  BY Zenon DEF Sampler!Cardinality, S!Cardinality
<1>2. Sampler!LogKeys = S!LogKeys
  BY Zenon DEF Sampler!LogKeys, S!LogKeys, Sampler!LogKey, S!LogKey
<1>3. \A k : Sampler!LogCapacity(k) = S!LogCapacity(k)
  BY Zenon DEF Sampler!LogCapacity, S!LogCapacity, Sampler!LogSize, S!LogSize,
               Sampler!Declarations, S!Declarations, Sampler!LogKey, S!LogKey
<1>4. Sampler!Resource = S!Resource
  BY DEF Sampler!Resource, S!Resource
<1> QED
  BY <1>1, <1>2, <1>3, <1>4 DEF Sampler!Init, S!Init

(* The assumptions of the sampler's module hold of the monitor's constants. *)
LEMMA SamplerConstants ==
  S!TriggersAssumption /\ S!LogTypesAssumption /\ S!ReadingsAssumption /\ S!BoundsAssumption
<1>1. Sampler!Resource = S!Resource /\ Sampler!StateOf = S!StateOf
  BY DEF Sampler!Resource, S!Resource, Sampler!StateOf, S!StateOf, Sampler!CpuState, S!CpuState,
         Sampler!RamState, S!RamState, Sampler!HddState, S!HddState
<1>2. Sampler!TriggerType = S!TriggerType /\ Sampler!LogType = S!LogType
  BY <1>1 DEF Sampler!TriggerType, S!TriggerType, Sampler!LogType, S!LogType,
              Sampler!FluctuationType, S!FluctuationType, Sampler!ResourceUnit, S!ResourceUnit
<1>3. IsFiniteSet(Triggers) <=> S!IsFiniteSet(Triggers)
  BY Zenon DEF IsFiniteSet, S!IsFiniteSet
<1>4. S!TriggersAssumption
  BY <1>2, <1>3, SamplerAssumption DEF S!TriggersAssumption
<1>5. S!LogTypesAssumption
  BY <1>2, SamplerAssumption DEF S!LogTypesAssumption
<1>6. S!ReadingsAssumption
  BY <1>1, SamplerAssumption DEF S!ReadingsAssumption
<1>7. S!BoundsAssumption
  BY SamplerAssumption DEF S!BoundsAssumption
<1> QED
  BY <1>4, <1>5, <1>6, <1>7

(* Each step of the sampler the monitor takes is a step of the sampler.    *)
LEMMA SameSample == Sampler!Sample => S!Sample
BY DEF Sampler!Sample, S!Sample, Sampler!Running, S!Running, Sampler!Pushed, S!Pushed,
       Sampler!PushBack, S!PushBack, Sampler!SamplesCapacity, S!SamplesCapacity,
       Sampler!Resolutions, S!Resolutions, Sampler!Resource, S!Resource,
       Sampler!UnitAsserted, S!UnitAsserted, Sampler!Exceeds, S!Exceeds,
       Sampler!CpuExceeds, S!CpuExceeds, Sampler!RamExceeds, S!RamExceeds,
       Sampler!HddExceeds, S!HddExceeds, Sampler!Beyond, S!Beyond

LEMMA SameProcessTrigger ==
  ASSUME NEW t, Sampler!ProcessTrigger(t) PROVE S!ProcessTrigger(t)
<1>1. /\ Sampler!UnitAsserted(t) <=> S!UnitAsserted(t)
      /\ Sampler!Exceeds(Sampler!Last(samples[t.resource]), t)
           <=> S!Exceeds(S!Last(samples[t.resource]), t)
  BY SameExceeds DEF Sampler!Last, S!Last
<1> QED
  BY <1>1 DEF Sampler!ProcessTrigger, S!ProcessTrigger, Sampler!Running, S!Running,
       Sampler!NextInOrder, S!NextInOrder, Sampler!Counted, S!Counted,
       Sampler!Rearmed, S!Rearmed, Sampler!threadVars, S!threadVars

LEMMA SameProcessLogs == Sampler!ProcessLogs => S!ProcessLogs
BY DEF Sampler!ProcessLogs, S!ProcessLogs, Sampler!Running, S!Running, Sampler!LogDue, S!LogDue,
       Sampler!PushBack, S!PushBack, Sampler!LogKeys, S!LogKeys, Sampler!LogKey, S!LogKey,
       Sampler!StateMean, S!StateMean, Sampler!SamplesMean, S!SamplesMean,
       Sampler!Last, S!Last, Sampler!triggerVars, S!triggerVars

LEMMA SameRest ==
  /\ Sampler!CallReturns => S!CallReturns
  /\ Sampler!AfterPoll => S!AfterPoll
  /\ Sampler!BreakOrSleep => S!BreakOrSleep
  /\ Sampler!StartSampling => S!StartSampling
BY DEF Sampler!CallReturns, S!CallReturns, Sampler!AfterPoll, S!AfterPoll,
       Sampler!BreakOrSleep, S!BreakOrSleep, Sampler!StartSampling, S!StartSampling,
       Sampler!Running, S!Running, Sampler!threadVars, S!threadVars,
       Sampler!triggerVars, S!triggerVars, Sampler!dataVars, S!dataVars

-----------------------------------------------------------------------------
(* The engine *)

(* The engine starts in an initial state of its own.                       *)
LEMMA SameEngineInit == Engine!Init => E!Init
BY DEF Engine!Init, E!Init, Engine!NoWalk, E!NoWalk

(* The assumptions of the engine's module hold of the monitor's constants. *)
LEMMA EngineConstants == E!EngineAssumption /\ Engine!EngineAssumption
<1>1. Cardinality(Triggers) \in Nat /\ MaxPolls \in Nat
  BY SamplerAssumption, FS_CardinalityType
<1>2. 2 * MaxPolls * Cardinality(Triggers) \in Nat
  BY <1>1
<1>3. Engine!Arity = E!Arity
  BY DEF Engine!Arity, E!Arity
<1> QED
  BY <1>2, <1>3, EngineAssumption DEF E!EngineAssumption, Engine!EngineAssumption

(* Each step of the engine the monitor takes is a step of the engine.      *)
LEMMA SameAddPredicate == ASSUME NEW p, Engine!AddPredicate(p) PROVE E!AddPredicate(p)
<1>1. ASSUME NEW t PROVE Engine!Registrations(p, t) = E!Registrations(p, t)
  BY Zenon DEF Engine!Registrations, E!Registrations, Engine!Cardinality, E!Cardinality
<1> QED
  BY <1>1 DEF Engine!AddPredicate, E!AddPredicate, Engine!OperandsOf, E!OperandsOf,
              Engine!objectVars, E!objectVars, Engine!stateVars, E!stateVars

LEMMA SameMakePredicate == ASSUME NEW p, Engine!MakePredicate(p) PROVE E!MakePredicate(p)
BY DEF Engine!MakePredicate, E!MakePredicate, Engine!Arity, E!Arity, Engine!stateVars, E!stateVars,
       Engine!historyVars, E!historyVars

LEMMA SameSignal == ASSUME NEW t, NEW s, Engine!Signal(t, s) PROVE E!Signal(t, s)
BY DEF Engine!Signal, E!Signal, Engine!Idle, E!Idle, Engine!objectVars, E!objectVars,
       Engine!stateVars, E!stateVars

LEMMA SameActivate == Engine!Activate => E!Activate
BY DEF Engine!Activate, E!Activate, Engine!EvaluatedTruth, E!EvaluatedTruth,
       Engine!AlreadyFired, E!AlreadyFired, Engine!Formula, E!Formula,
       Engine!objectVars, E!objectVars

LEMMA SameDeactivate == Engine!Deactivate => E!Deactivate
BY DEF Engine!Deactivate, E!Deactivate, Engine!Formula, E!Formula,
       Engine!objectVars, E!objectVars

LEMMA SameEndOfWalk == Engine!EndOfWalk => E!EndOfWalk
BY DEF Engine!EndOfWalk, E!EndOfWalk, Engine!Idle, E!Idle, Engine!NoWalk, E!NoWalk,
       Engine!objectVars, E!objectVars, Engine!stateVars, E!stateVars,
       Engine!historyVars, E!historyVars

-----------------------------------------------------------------------------
(* What a step of the monitor is to each of the two *)

(* A step of the monitor is a step of the sampler or none of its business, *)
(* unless sendEmail throws and the process is lost.                        *)
LEMMA SamplerStep == [Next]_vars => [S!Next]_(S!vars) \/ MailThrows
<1> SUFFICES ASSUME [Next]_vars PROVE [S!Next]_(S!vars) \/ MailThrows
  OBVIOUS
<1>1. ASSUME UNCHANGED samplerVars PROVE UNCHANGED S!vars
  BY <1>1 DEF samplerVars, S!vars, S!threadVars, S!triggerVars
<1>2. CASE Main
  <2>1. Start => S!StartSampling
    BY SameRest DEF Start
  <2>2. Connect \/ ConnectDuringCall => UNCHANGED samplerVars
    BY DEF Connect, ConnectDuringCall, Race
  <2> QED
    BY <1>1, <1>2, <2>1, <2>2 DEF Main, S!Next, S!Owner
<1>3. CASE Server
  <2>1. UNCHANGED samplerVars
    BY <1>3 DEF Server, Request, SetEmail, TriggerChoose, AddChosen, AddDuringWalk, EndGetLogs,
                GetLogs, Race
  <2> QED
    BY <1>1, <2>1
<1>4. CASE Poller
  <2>1. Poll => S!Poller
    BY SameSample, SameProcessLogs, SameProcessTrigger, SameRest DEF Poll, S!Poller
  <2>2. DefaultCallback \/ EndCall => S!CallReturns
    BY SameRest DEF DefaultCallback, EndCall
  <2>3. ProcessLogsDuringRead \/ BeginCall \/ WalkOn \/ MailReturns => UNCHANGED samplerVars
    BY DEF ProcessLogsDuringRead, BeginCall, WalkOn, MailReturns, Race
  <2> QED
    BY <1>1, <1>4, <2>1, <2>2, <2>3 DEF Poller, S!Next, S!Poller
<1>5. CASE UNCHANGED vars
  BY <1>1, <1>5 DEF vars
<1> QED
  BY <1>2, <1>3, <1>4, <1>5 DEF Next

(* A step of the monitor that touches the engine is one operation of it.   *)
LEMMA EngineOperation ==
  ASSUME [Next]_vars
  PROVE  \/ UNCHANGED engineVars
         \/ \E c \in Clients, p \in Predicates : TriggerChoose(c, p)
         \/ AddChosen \/ BeginCall \/ WalkOn \/ EndCall
<1>1. CASE Main
  BY <1>1 DEF Main, Start, Connect, ConnectDuringCall, Race
<1>2. CASE Server
  BY <1>2 DEF Server, Request, SetEmail, AddDuringWalk, EndGetLogs, GetLogs, Race
<1>3. CASE Poller
  BY <1>3 DEF Poller, Poll, ProcessLogsDuringRead, DefaultCallback, MailReturns, MailThrows, Race
<1>4. CASE UNCHANGED vars
  BY <1>4 DEF vars
<1> QED
  BY <1>1, <1>2, <1>3, <1>4 DEF Next

-----------------------------------------------------------------------------
(* What the two threads make of the two components together *)

\* What the handler in progress may be doing.
ServerType ==
  server \in {Free} \cup [doing : {"adding"}, predicate : Predicates]
                    \cup [doing : {"reading"}, log : Sampler!LogKeys]

\* A walk of the engine serves the call the sampler is making, which came
\* through the callbacks connectPredicateEngine has set.
WalkServes ==
  ~Engine!Idle => /\ connected /\ calls # <<>>
                  /\ walk.trigger = Head(calls).trigger /\ walk.signal = Head(calls).signal

\* sendEmail is called by a predicate the walk has activated.
MailInWalk ==
  mailing # Nobody => /\ mailing \in Predicates /\ class[mailing] # "none"
                      /\ walk.signal = "activate"
                      /\ walk.trigger \in Engine!OperandsOf(mailing)

SamplerInv == S!TypeInv /\ S!RunInv /\ S!CallInv /\ S!WindowInv /\ S!LogCadence
EngineInv  == E!TypeOK /\ E!Registration
MonitorInv == SamplerInv /\ EngineInv /\ TypeOK /\ ServerType /\ WalkServes /\ MailInWalk

(* The sampler keeps its invariant: what its callbacks do does not reach   *)
(* into it, and a process that is lost leaves its data as it was.          *)
LEMMA SamplerKept == SamplerInv /\ [Next]_vars => SamplerInv'
<1> SUFFICES ASSUME SamplerInv, [Next]_vars PROVE SamplerInv'
  OBVIOUS
<1>1. CASE [S!Next]_(S!vars)
  <2>1. S!TypeInv' /\ S!RunInv' /\ S!CallInv'
    BY <1>1, SamplerConstants, S!StepType, S!StepRun, S!StepCalls DEF SamplerInv
  <2>2. S!WindowInv' /\ S!LogCadence'
    BY <1>1, SamplerConstants, S!StepWindow, S!StepCadence DEF SamplerInv
  <2> QED
    BY <2>1, <2>2 DEF SamplerInv
<1>2. CASE MailThrows
  <2>1. /\ process' = "terminated"
        /\ UNCHANGED <<isSampling, poller, owner, samples, triggerStates, order, pending, calls,
                       logs, sampleNumber, polls, run, fires, selfStopped>>
    BY <1>2 DEF MailThrows
  <2>2. S!TypeInv'
    BY <2>1 DEF SamplerInv, S!TypeInv, S!TypeOK, S!LogsType
  <2>3. S!RunInv'
    BY <2>1 DEF SamplerInv, S!RunInv, S!ActivationsPerRun, S!LatestInv, S!UnfiredInv, S!VisitInv
  <2>4. S!CallInv'
    BY <2>1 DEF SamplerInv, S!CallInv
  <2>5. S!WindowInv' /\ S!LogCadence'
    BY <2>1 DEF SamplerInv, S!WindowInv, S!LogCadence, S!Done
  <2> QED
    BY <2>2, <2>3, <2>4, <2>5 DEF SamplerInv
<1> QED
  BY <1>1, <1>2, SamplerStep

(* The call the sampler makes is one the engine knows.                     *)
LEMMA CallType ==
  ASSUME SamplerInv, calls # <<>>
  PROVE  Head(calls).trigger \in Triggers /\ Head(calls).signal \in {"activate", "deactivate"}
<1>1. calls \in Seq(S!Signals)
  BY DEF SamplerInv, S!TypeInv, S!TypeOK
<1>2. Head(calls) \in S!Signals
  BY <1>1, HeadTailProperties
<1> QED
  BY <1>2 DEF S!Signals

(* A step of the monitor is a step of the engine or none of its business,  *)
(* under both its names.                                                   *)
LEMMA EngineStep ==
  ASSUME SamplerInv, ServerType, [Next]_vars
  PROVE  [Engine!Next]_(Engine!vars) /\ [E!Next]_(E!vars)
<1>1. ASSUME UNCHANGED engineVars PROVE UNCHANGED Engine!vars /\ UNCHANGED E!vars
  BY <1>1 DEF engineVars, Engine!vars, Engine!objectVars, Engine!stateVars, Engine!historyVars,
              E!vars, E!objectVars, E!stateVars, E!historyVars
<1>2. ASSUME NEW c \in Clients, NEW p \in Predicates, TriggerChoose(c, p)
      PROVE  Engine!Next /\ E!Next
  <2>1. Engine!MakePredicate(p)
    BY <1>2 DEF TriggerChoose
  <2> QED
    BY <2>1, SameMakePredicate DEF Engine!Next, E!Next
<1>3. ASSUME AddChosen PROVE Engine!Next /\ E!Next
  <2>1. Engine!AddPredicate(server.predicate) /\ server.predicate \in Predicates
    BY <1>3 DEF AddChosen, ServerType, Free
  <2> QED
    BY <2>1, SameAddPredicate DEF Engine!Next, E!Next
<1>4. ASSUME BeginCall PROVE Engine!Next /\ E!Next
  <2>1. calls # <<>> /\ Engine!Signal(Head(calls).trigger, Head(calls).signal)
    BY <1>4 DEF BeginCall
  <2> QED
    BY <2>1, CallType, SameSignal DEF Engine!Next, E!Next
<1>5. ASSUME WalkOn PROVE Engine!Next /\ E!Next
  BY <1>5, SameActivate, SameDeactivate DEF WalkOn, Engine!Next, Engine!Walk, E!Next, E!Walk
<1>6. ASSUME EndCall PROVE Engine!Next /\ E!Next
  BY <1>6, SameEndOfWalk DEF EndCall, Engine!Next, Engine!Walk, E!Next, E!Walk
<1> QED
  BY <1>1, <1>2, <1>3, <1>4, <1>5, <1>6, EngineOperation

(* The engine keeps its invariant.                                         *)
LEMMA EngineKept == SamplerInv /\ ServerType /\ EngineInv /\ [Next]_vars => EngineInv'
<1> SUFFICES ASSUME SamplerInv, ServerType, EngineInv, [Next]_vars PROVE EngineInv'
  OBVIOUS
<1>1. [E!Next]_(E!vars) /\ E!TypeOK /\ E!Registration
  BY EngineStep DEF EngineInv
<1> QED
  BY <1>1, EngineConstants, E!TypeNext, E!RegistrationNext DEF EngineInv

(* The calls change when none is made, or by one that returns; after       *)
(* connectPredicateEngine only EndCall lets one return.                    *)
LEMMA CallsStep ==
  ASSUME [Next]_vars
  PROVE  /\ calls' = calls \/ calls = <<>> \/ ~connected \/ EndCall
         /\ connected' = connected \/ calls = <<>>
<1>1. CASE Main
  BY <1>1 DEF Main, Start, Connect, ConnectDuringCall, Race, Sampler!StartSampling,
              Sampler!dataVars, Sampler!triggerVars, samplerVars
<1>2. CASE Server
  BY <1>2 DEF Server, Request, SetEmail, TriggerChoose, AddChosen, AddDuringWalk, EndGetLogs,
              GetLogs, Race, samplerVars
<1>3. CASE Poll
  BY <1>3 DEF Poll, Sampler!Sample, Sampler!AfterPoll, Sampler!BreakOrSleep, Sampler!ProcessLogs,
              Sampler!ProcessTrigger, Sampler!triggerVars
<1>4. CASE Poller /\ ~Poll
  BY <1>4 DEF Poller, ProcessLogsDuringRead, DefaultCallback, BeginCall, WalkOn, EndCall,
              MailReturns, MailThrows, Race, samplerVars
<1>5. CASE UNCHANGED vars
  BY <1>5 DEF vars, samplerVars
<1> QED
  BY <1>1, <1>2, <1>3, <1>4, <1>5 DEF Next

(* A walk ends before the call it serves returns.                          *)
LEMMA WalkKept == EngineInv /\ WalkServes /\ [Next]_vars => WalkServes'
<1> SUFFICES ASSUME EngineInv, WalkServes, [Next]_vars PROVE WalkServes'
  OBVIOUS
<1>1. CASE EndCall
  BY <1>1 DEF EndCall, Engine!EndOfWalk, Engine!NoWalk, WalkServes, Engine!Idle
<1>2. CASE BeginCall
  <2>1. /\ connected /\ calls # <<>> /\ UNCHANGED <<connected, calls>>
        /\ walk'.trigger = Head(calls).trigger /\ walk'.signal = Head(calls).signal
    BY <1>2 DEF BeginCall, Engine!Signal, samplerVars
  <2> QED
    BY <2>1 DEF WalkServes
<1>3. CASE WalkOn
  <2>1. walk.rest # <<>> /\ walk' = [walk EXCEPT !.rest = Tail(@)] /\ UNCHANGED <<connected, calls>>
    BY <1>3 DEF WalkOn, Engine!Activate, Engine!Deactivate, samplerVars
  <2>2. walk'.trigger = walk.trigger /\ walk'.signal = walk.signal
    BY <2>1, EngineConstants, E!WalkAdvances DEF EngineInv
  <2> QED
    BY <2>1, <2>2 DEF WalkServes, Engine!Idle
<1>4. ASSUME UNCHANGED walk, ~EndCall PROVE WalkServes'
  BY <1>4, CallsStep DEF WalkServes, Engine!Idle
<1>5. \/ EndCall \/ BeginCall \/ WalkOn \/ UNCHANGED walk
  BY EngineOperation DEF engineVars, TriggerChoose, Engine!MakePredicate, AddChosen,
                         Engine!AddPredicate
<1> QED
  BY <1>1, <1>2, <1>3, <1>4, <1>5

(* A handler adds the predicate it has made.                               *)
LEMMA ServerKept == ServerType /\ [Next]_vars => ServerType'
<1> SUFFICES ASSUME ServerType, [Next]_vars PROVE ServerType'
  OBVIOUS
<1>1. CASE Main
  BY <1>1 DEF Main, Start, Connect, ConnectDuringCall, Race, serverVars, ServerType
<1>2. CASE Server
  BY <1>2 DEF Server, Request, SetEmail, TriggerChoose, AddChosen, AddDuringWalk, EndGetLogs,
              GetLogs, Race, serverVars, ServerType
<1>3. CASE Poller
  BY <1>3 DEF Poller, Poll, ProcessLogsDuringRead, DefaultCallback, BeginCall, WalkOn, EndCall,
              MailReturns, MailThrows, Race, serverVars, ServerType
<1>4. CASE UNCHANGED vars
  BY <1>4 DEF vars, serverVars, ServerType
<1> QED
  BY <1>1, <1>2, <1>3, <1>4 DEF Next

(* The callback that sends an e-mail is that of a predicate of the trigger *)
(* being activated, and the walk waits for it.                             *)
LEMMA MailKept == EngineInv /\ MailInWalk /\ [Next]_vars => MailInWalk'
<1> SUFFICES ASSUME EngineInv, MailInWalk, [Next]_vars PROVE MailInWalk'
  OBVIOUS
<1>1. CASE WalkOn
  <2>1. /\ walk.rest # <<>> /\ walk' = [walk EXCEPT !.rest = Tail(@)]
        /\ UNCHANGED <<class, operands>>
        /\ Engine!Deactivate \/ (Head(walk.rest) \in alive /\ walk.signal = "activate")
    BY <1>1 DEF WalkOn, Engine!Activate, Engine!Deactivate, Engine!objectVars
  <2>2. mailing' = Nobody \/ (mailing' = Head(walk.rest) /\ calledBack' # calledBack)
    BY <1>1 DEF WalkOn
  <2>3. Engine!Deactivate => calledBack' = calledBack
    BY DEF Engine!Deactivate
  <2>4. /\ walk'.trigger = walk.trigger /\ walk'.signal = walk.signal
        /\ walk.trigger \in E!OperandsOf(Head(walk.rest))
    BY <2>1, EngineConstants, E!WalkAdvances, E!HeadDelivers DEF EngineInv
  <2>5. \A p \in alive : p \in Predicates /\ class[p] # "none"
    BY DEF EngineInv, E!TypeOK
  <2> QED
    BY <2>1, <2>2, <2>3, <2>4, <2>5 DEF MailInWalk, Engine!OperandsOf, E!OperandsOf
<1>2. ASSUME NEW c \in Clients, NEW p \in Predicates, TriggerChoose(c, p) PROVE MailInWalk'
  <2>1. class[p] = "none" /\ UNCHANGED <<mailing, walk>>
    BY <1>2 DEF TriggerChoose, Engine!MakePredicate, mailVars
  <2>2. \A q \in Predicates : q # p => class'[q] = class[q] /\ operands'[q] = operands[q]
    BY <1>2 DEF TriggerChoose, Engine!MakePredicate, EngineInv, E!TypeOK
  <2> QED
    BY <2>1, <2>2 DEF MailInWalk, Engine!OperandsOf
<1>3. CASE AddChosen
  BY <1>3 DEF AddChosen, Engine!AddPredicate, Engine!objectVars, mailVars, MailInWalk,
              Engine!OperandsOf
<1>4. CASE BeginCall
  <2>1. walk.signal = "none" /\ mailing' = mailing
    BY <1>4 DEF BeginCall, Engine!Signal, Engine!Idle, mailVars
  <2> QED
    BY <2>1 DEF MailInWalk
<1>5. CASE EndCall
  BY <1>5 DEF EndCall, mailVars, MailInWalk
<1>6. CASE UNCHANGED engineVars /\ ~WalkOn
  <2>1. mailing' \in {mailing, Nobody}
    BY <1>6 DEF Next, Main, Start, Connect, ConnectDuringCall, Server, Request, SetEmail,
         TriggerChoose, AddChosen, AddDuringWalk, EndGetLogs, GetLogs, Poller, Poll,
         ProcessLogsDuringRead, DefaultCallback, BeginCall, EndCall, MailReturns, MailThrows,
         Race, mailVars, vars
  <2> QED
    BY <1>6, <2>1 DEF MailInWalk, engineVars, Engine!OperandsOf
<1> QED
  BY <1>1, <1>2, <1>3, <1>4, <1>5, <1>6, EngineOperation

(* Every variable this module adds keeps its type.                         *)
LEMMA TypeKept ==
  ASSUME TypeOK, [Next]_vars, WalkServes', MailInWalk'
  PROVE  TypeOK'
<1>1. ASSUME server.doing \in {"nothing", "adding", "reading"}
      PROVE  server'.doing \in {"nothing", "adding", "reading"}
  BY <1>1 DEF Next, Main, Start, Connect, ConnectDuringCall, Server, Request, SetEmail,
       TriggerChoose, AddChosen, AddDuringWalk, EndGetLogs, GetLogs, Poller, Poll,
       ProcessLogsDuringRead, DefaultCallback, BeginCall, WalkOn, EndCall, MailReturns,
       MailThrows, Race, serverVars, vars, Free
<1>2. /\ main' \in {main, "started", "serving"} /\ connected' \in {connected, TRUE}
      /\ raced' \in {raced, "callbacks", "predicates", "log"}
  BY DEF Next, Main, Start, Connect, ConnectDuringCall, Server, Request, SetEmail,
       TriggerChoose, AddChosen, AddDuringWalk, EndGetLogs, GetLogs, Poller, Poll,
       ProcessLogsDuringRead, DefaultCallback, BeginCall, WalkOn, EndCall, MailReturns,
       MailThrows, Race, vars
<1>3. /\ userEmail' \in Clients \cup {Nobody}
      /\ email' \in [Predicates -> Clients \cup {Nobody}]
      /\ subscriber' \in [Predicates -> Clients \cup {Nobody}]
  <2>1. ASSUME NEW c \in Clients, SetEmail(c)
        PROVE  userEmail' = c /\ UNCHANGED <<email, subscriber>>
    BY <2>1 DEF SetEmail
  <2>2. ASSUME NEW c \in Clients, NEW p \in Predicates, TriggerChoose(c, p)
        PROVE  /\ userEmail' = userEmail /\ email' = [email EXCEPT ![p] = userEmail]
               /\ subscriber' = [subscriber EXCEPT ![p] = c]
    BY <2>2 DEF TriggerChoose
  <2>3. ASSUME ~Request PROVE UNCHANGED <<userEmail, email, subscriber>>
    BY <2>3 DEF Next, Main, Start, Connect, ConnectDuringCall, Server, AddChosen, AddDuringWalk,
         EndGetLogs, GetLogs, Poller, Poll, ProcessLogsDuringRead, DefaultCallback, BeginCall,
         WalkOn, EndCall, MailReturns, MailThrows, Race, serverVars, vars
  <2> QED
    BY <2>1, <2>2, <2>3 DEF Request, TypeOK
<1>4. /\ mailing' \in Predicates \cup {Nobody}
      /\ mailing' # Nobody => walk'.signal = "activate" /\ calls' # <<>>
  BY DEF MailInWalk, WalkServes, Engine!Idle
<1> QED
  BY <1>1, <1>2, <1>3, <1>4 DEF TypeOK

(* Init establishes the invariant, every step keeps it.                    *)
LEMMA InitInv == Init => MonitorInv
<1> SUFFICES ASSUME Init PROVE MonitorInv
  OBVIOUS
<1>1. S!Init /\ E!Init
  BY SameInit, SameEngineInit DEF Init
<1>2. SamplerInv
  BY <1>1, SamplerConstants, S!InitType, S!InitRun, S!InitCalls, S!InitWindow, S!InitCadence
  DEF SamplerInv
<1>3. EngineInv
  BY <1>1, EngineConstants, E!TypeInit, E!RegistrationInit DEF EngineInv
<1>4. TypeOK /\ ServerType
  BY DEF Init, TypeOK, ServerType, Free
<1>5. WalkServes /\ MailInWalk
  BY DEF Init, Engine!Init, Engine!NoWalk, WalkServes, Engine!Idle, MailInWalk
<1> QED
  BY <1>2, <1>3, <1>4, <1>5 DEF MonitorInv

LEMMA NextInv == MonitorInv /\ [Next]_vars => MonitorInv'
BY SamplerKept, EngineKept, ServerKept, WalkKept, MailKept, TypeKept DEF MonitorInv

-----------------------------------------------------------------------------
(* Theorems *)

(* The variables of the monitor have the types of what they model, and the *)
(* poller is in sendEmail only inside a walk it was called for.            *)
THEOREM TypeCorrect == Spec => []TypeOK
<1>1. MonitorInv => TypeOK
  BY DEF MonitorInv
<1> QED
  BY InitInv, NextInv, <1>1, PTL DEF Spec

(* The engine runs in the monitor as it runs alone: the poller serialises  *)
(* the signals and handlers only make and add predicates.                  *)
LEMMA EngineInMonitor == Spec => E!Spec
<1>1. Init => E!Init
  BY SameEngineInit DEF Init
<1>2. MonitorInv /\ [Next]_vars => [E!Next]_(E!vars)
  BY EngineStep DEF MonitorInv
<1> QED
  BY InitInv, NextInv, <1>1, <1>2, PTL DEF Spec, E!Spec

(* What is proved of the engine alone is then true of the running program: *)
(* a predicate knows its operands as the sampler has signalled them.       *)
THEOREM SignalsReachPredicates == Spec => []Engine!StateFollowsSignals
<1>1. E!Spec => []E!StateFollowsSignals
  BY EngineConstants, E!SignalsFollowed
<1>2. E!StateFollowsSignals => Engine!StateFollowsSignals
  BY DEF E!StateFollowsSignals, Engine!StateFollowsSignals, E!Ahead, Engine!Ahead,
         E!OperandsOf, Engine!OperandsOf
<1> QED
  BY EngineInMonitor, <1>1, <1>2, PTL

(* Formulas mean the same under both names.                                *)
LEMMA SameFormula ==
  \A c, ops, truth : E!Formula(c, ops, truth) = Engine!Formula(c, ops, truth)
BY Zenon DEF E!Formula, Engine!Formula

(* In the running program a callback, and with it an e-mail, is begun only *)
(* when the formula is true of the triggers whose last signal was an       *)
(* activation.                                                             *)
THEOREM MailsAreJustified == Spec => Engine!CallbackOnlyIfSatisfied
<1>1. E!Spec => E!CallbackOnlyIfSatisfied
  BY EngineConstants, E!CallbacksJustified
<1> DEFINE A == \A p \in Predicates : calledBack'[p] > calledBack[p] =>
                  E!Formula(class[p], operands[p], active)
           B == \A p \in Predicates : calledBack'[p] > calledBack[p] =>
                  Engine!Formula(class[p], operands[p], active)
<1>2. [A]_(E!vars) => [B]_(Engine!vars)
  <2>1. A => B
    BY SameFormula
  <2>2. UNCHANGED E!vars => UNCHANGED Engine!vars
    BY DEF E!vars, Engine!vars, E!objectVars, Engine!objectVars, E!stateVars, Engine!stateVars,
           E!historyVars, Engine!historyVars
  <2> HIDE DEF A, B
  <2> QED
    BY <2>1, <2>2
<1>3. E!CallbackOnlyIfSatisfied <=> [][A]_(E!vars)
  BY DEF E!CallbackOnlyIfSatisfied
<1>4. Engine!CallbackOnlyIfSatisfied <=> [][B]_(Engine!vars)
  BY DEF Engine!CallbackOnlyIfSatisfied
<1> HIDE DEF A, B
<1> QED
  BY EngineInMonitor, <1>1, <1>2, <1>3, <1>4, PTL

(* One signal of the poller makes a predicate call back at most once, and  *)
(* a predicate whose formula is true has called back since it became true, *)
(* unless it has a memory and heard a deactivation.                        *)
THEOREM MailsAreOneEach ==
  Spec => [](Engine!OneCallbackPerSignal /\ Engine!SatisfiedHasFiredUnlessStale)
<1>1. E!Spec => []E!OneCallbackPerSignal /\ []E!SatisfiedHasFiredUnlessStale
  BY EngineConstants, E!OneCallback, E!SatisfactionCallsBack
<1>2. \A p : E!OperandsOf(p) = Engine!OperandsOf(p)
  BY DEF E!OperandsOf, Engine!OperandsOf
<1>3. E!OneCallbackPerSignal => Engine!OneCallbackPerSignal
  <2>1. \A p : E!DistinctOperands(p) = Engine!DistinctOperands(p)
    BY <1>2, Zenon DEF E!DistinctOperands, Engine!DistinctOperands, E!Cardinality, Engine!Cardinality
  <2> QED
    BY <2>1 DEF E!OneCallbackPerSignal, Engine!OneCallbackPerSignal
<1>4. E!SatisfiedHasFiredUnlessStale => Engine!SatisfiedHasFiredUnlessStale
  BY <1>2, SameFormula, Zenon
  DEF E!SatisfiedHasFiredUnlessStale, Engine!SatisfiedHasFiredUnlessStale
<1> QED
  BY EngineInMonitor, <1>1, <1>3, <1>4, PTL

(* And so is what is proved of the sampler: whatever the callbacks and the *)
(* requests do, a trigger is activated once for every full period.         *)
THEOREM PeriodsAreCounted == Spec => []Sampler!ActivationsPerRun
<1>1. MonitorInv => Sampler!ActivationsPerRun
  BY DEF MonitorInv, SamplerInv, S!RunInv, S!ActivationsPerRun, Sampler!ActivationsPerRun
<1> QED
  BY InitInv, NextInv, <1>1, PTL DEF Spec

(* Logs are written in their cadence, whatever the callbacks and the       *)
(* requests for the logs do in between.                                    *)
THEOREM LogsKeepCadence == Spec => []Sampler!LogCadence
<1>1. Sampler!LogKeys = S!LogKeys /\ \A k : Sampler!Period(k) = S!Period(k)
  BY Zenon DEF Sampler!LogKeys, S!LogKeys, Sampler!LogKey, S!LogKey, Sampler!Period, S!Period
<1>2. MonitorInv => Sampler!LogCadence
  BY <1>1 DEF MonitorInv, SamplerInv, S!LogCadence, Sampler!LogCadence
<1> QED
  BY InitInv, NextInv, <1>2, PTL DEF Spec

(* An e-mail is under way only at the end of a full period of samples that *)
(* exceed the operand being activated.                                     *)
THEOREM MailEndsPeriod == Spec => []MailAtEndOfPeriod
<1>1. MonitorInv => MailAtEndOfPeriod
  <2> SUFFICES ASSUME MonitorInv, mailing # Nobody,
                      walk.trigger.duration > 0
               PROVE  /\ walk.trigger \in Engine!OperandsOf(mailing)
                      /\ run[walk.trigger] > 0 /\ run[walk.trigger] % walk.trigger.duration = 0
    BY DEF MailAtEndOfPeriod, MonitorInv, MailInWalk
  <2>1. walk.trigger \in Engine!OperandsOf(mailing) /\ walk.signal = "activate"
    BY DEF MonitorInv, MailInWalk
  <2>2. calls # <<>> /\ walk.trigger = Head(calls).trigger /\ walk.signal = Head(calls).signal
    BY <2>1 DEF MonitorInv, WalkServes, Engine!Idle
  <2>3. 1 \in 1 .. Len(calls) /\ Head(calls) = calls[1]
    <3>1. calls \in Seq(S!Signals)
      BY DEF MonitorInv, SamplerInv, S!TypeInv, S!TypeOK
    <3> QED
      BY <2>2, <3>1, HeadTailProperties, LenProperties, EmptySeq
  <2>4. calls[1].trigger = walk.trigger /\ calls[1].signal = "activate"
    BY <2>1, <2>2, <2>3
  <2>5. run[walk.trigger] > 0 /\ run[walk.trigger] % walk.trigger.duration = 0
    BY <2>3, <2>4, SamplerConstants, S!ActivationEndsPeriod DEF MonitorInv, SamplerInv
  <2> QED
    BY <2>1, <2>5
<1> QED
  BY InitInv, NextInv, <1>1, PTL DEF Spec

-----------------------------------------------------------------------------
(* The promise of the sampler *)

(* TriggerAlarm is the same specification under both names.                *)
LEMMA SameAlarm ==
  /\ S!Alarm!Init => Sampler!Alarm!Init
  /\ [S!Alarm!Next]_(S!Alarm!vars) => [Sampler!Alarm!Next]_(Sampler!Alarm!vars)
<1>1. \A t : S!Alarm!Due(t) = Sampler!Alarm!Due(t)
  BY Zenon DEF S!Alarm!Due, Sampler!Alarm!Due, S!Alarm!PeriodEnds, Sampler!Alarm!PeriodEnds
<1>2. ASSUME NEW t \in Triggers, S!Alarm!Report(t) PROVE Sampler!Alarm!Report(t)
  BY <1>1, <1>2 DEF S!Alarm!Report, Sampler!Alarm!Report
<1>3. /\ S!Alarm!Poll => Sampler!Alarm!Poll
      /\ S!Alarm!Return => Sampler!Alarm!Return
      /\ UNCHANGED S!Alarm!vars => UNCHANGED Sampler!Alarm!vars
  BY DEF S!Alarm!Poll, Sampler!Alarm!Poll, S!Alarm!Return, Sampler!Alarm!Return,
         S!Alarm!vars, Sampler!Alarm!vars
<1>4. S!Alarm!Init => Sampler!Alarm!Init
  BY DEF S!Alarm!Init, Sampler!Alarm!Init
<1> QED
  BY <1>2, <1>3, <1>4 DEF S!Alarm!Next, Sampler!Alarm!Next

(* A step of the running program is a step of TriggerAlarm or leaves what  *)
(* is signalled alone: a mail that throws does not touch it.               *)
LEMMA AlarmStep == MonitorInv /\ [Next]_vars => [S!Alarm!Next]_(S!Alarm!vars)
<1> SUFFICES ASSUME MonitorInv, [Next]_vars PROVE [S!Alarm!Next]_(S!Alarm!vars)
  OBVIOUS
<1>1. CASE [S!Next]_(S!vars)
  BY <1>1, SamplerConstants, S!StepAlarm DEF MonitorInv, SamplerInv
<1>2. CASE MailThrows
  BY <1>2 DEF MailThrows, S!Alarm!vars
<1> QED
  BY <1>1, <1>2, SamplerStep

(* In the running program, with an engine that walks and mails inside its  *)
(* callbacks, the sampler still keeps the promise of TriggerAlarm: a full  *)
(* duration of exceeding samples is signalled once, however long the mails *)
(* of the one before took, and a process lost in a callback signals no     *)
(* more.                                                                   *)
THEOREM MonitorKeepsAlarm == Spec => Sampler!AlarmImplemented
<1>1. Init => S!Alarm!Init
  BY SamplerConstants, SameInit, S!InitAlarm DEF Init
<1>2. MonitorInv /\ [Next]_vars => [Sampler!Alarm!Next]_(Sampler!Alarm!vars)
  BY AlarmStep, SameAlarm
<1> QED
  BY InitInv, NextInv, <1>1, <1>2, SameAlarm, PTL
  DEF Spec, Sampler!AlarmImplemented, Sampler!Alarm!Spec

-----------------------------------------------------------------------------
(* Triggers of positive duration *)

\* No predicate has heard, or is hearing, of a deactivation of such a trigger.
NoDeactivation ==
  /\ S!OnlyActivations
  /\ walk.signal = "deactivate" => ~ (walk.trigger.duration > 0)
  /\ \A p \in Predicates, t \in Triggers :
       t.duration > 0 => <<t, "deactivate">> \notin heard[p]

\* The server function keeps every predicate it makes.
MadeAreAlive == \A p \in Predicates : class[p] # "none" => p \in alive

\* A Predicate_1or2and3 of triggers of positive duration that knows all its
\* operands to be true.
AllThree(p) == /\ class[p] = "Predicate_1or2and3"
               /\ \A t \in Engine!OperandsOf(p) : t.duration > 0
               /\ \A i \in 1 .. 3 : triggerState[p][operands[p][i]]

(* At first nothing has been signalled.                                    *)
LEMMA NoDeactivationInit == Init => NoDeactivation /\ MadeAreAlive
BY DEF Init, Sampler!Init, Engine!Init, Engine!NoWalk, NoDeactivation, MadeAreAlive,
       S!OnlyActivations

(* The sampler makes no such call and the engine passes on what it is told.*)
LEMMA NoDeactivationNext ==
  ASSUME MonitorInv, NoDeactivation, [Next]_vars
  PROVE  NoDeactivation'
<1>1. S!OnlyActivations'
  BY AlarmStep, S!AlarmOnlyActivates, SamplerConstants
  DEF MonitorInv, SamplerInv, NoDeactivation
<1>2. CASE BeginCall
  <2>1. /\ calls # <<>> /\ walk'.signal = Head(calls).signal
        /\ walk'.trigger = Head(calls).trigger
        /\ heard' = [p \in Predicates |->
                       IF p \in added THEN heard[p] \cup {<<Head(calls).trigger, Head(calls).signal>>}
                       ELSE heard[p]]
    BY <1>2 DEF BeginCall, Engine!Signal
  <2>2. calls \in Seq(S!Signals)
    BY DEF MonitorInv, SamplerInv, S!TypeInv, S!TypeOK
  <2>3. 1 \in 1 .. Len(calls) /\ Head(calls) = calls[1]
    BY <2>1, <2>2, HeadTailProperties, LenProperties, EmptySeq
  <2>4. Head(calls).trigger.duration > 0 => Head(calls).signal = "activate"
    BY <2>3 DEF NoDeactivation, S!OnlyActivations
  <2> QED
    BY <1>1, <2>1, <2>4 DEF NoDeactivation
<1>3. CASE WalkOn
  <2>1. walk.rest # <<>> /\ walk' = [walk EXCEPT !.rest = Tail(@)] /\ heard' = heard
    BY <1>3 DEF WalkOn, Engine!Activate, Engine!Deactivate
  <2>2. walk'.signal = walk.signal /\ walk'.trigger = walk.trigger
    BY <2>1, EngineConstants, E!WalkAdvances DEF MonitorInv, EngineInv
  <2> QED
    BY <1>1, <2>1, <2>2 DEF NoDeactivation
<1>4. CASE EndCall
  BY <1>1, <1>4 DEF EndCall, Engine!EndOfWalk, Engine!NoWalk, Engine!historyVars, NoDeactivation
<1>5. ASSUME UNCHANGED <<walk, heard>> PROVE NoDeactivation'
  BY <1>1, <1>5 DEF NoDeactivation
<1>6. \/ BeginCall \/ WalkOn \/ EndCall \/ UNCHANGED <<walk, heard>>
  BY EngineOperation DEF engineVars, TriggerChoose, Engine!MakePredicate, AddChosen,
                         Engine!AddPredicate, Engine!historyVars
<1> QED
  BY <1>2, <1>3, <1>4, <1>5, <1>6

(* No handler lets go of a predicate.                                      *)
LEMMA MadeAreAliveNext == MonitorInv /\ MadeAreAlive /\ [Next]_vars => MadeAreAlive'
<1> SUFFICES ASSUME MonitorInv, MadeAreAlive, [Next]_vars PROVE MadeAreAlive'
  OBVIOUS
<1>1. ASSUME NEW c \in Clients, NEW p \in Predicates, TriggerChoose(c, p) PROVE MadeAreAlive'
  <2>1. alive' = alive \cup {p} /\ \A q \in Predicates \ {p} : class'[q] = class[q]
    BY <1>1 DEF TriggerChoose, Engine!MakePredicate, MonitorInv, EngineInv, E!TypeOK
  <2> QED
    BY <2>1 DEF MadeAreAlive
<1>2. ASSUME UNCHANGED <<class, alive>> PROVE MadeAreAlive'
  BY <1>2 DEF MadeAreAlive
<1>3. \/ \E c \in Clients, p \in Predicates : TriggerChoose(c, p)
      \/ UNCHANGED <<class, alive>>
  BY EngineOperation DEF engineVars, AddChosen, Engine!AddPredicate, BeginCall, Engine!Signal,
       WalkOn, Engine!Activate, Engine!Deactivate, EndCall, Engine!EndOfWalk, Engine!objectVars
<1> QED
  BY <1>1, <1>2, <1>3

(* The memory of a Predicate_1or2and3 is never stale as long as its        *)
(* operands have positive durations: a predicate of any class whose        *)
(* formula is true has mailed since it became true.  What goes wrong in    *)
(* the engine alone (SatisfiedHasFired) needs a deactivation, and the      *)
(* sampler makes none for such a trigger.                                  *)
THEOREM SatisfiedHaveMailed == Spec => []SatisfiedHasMailed
<1>1. ASSUME MonitorInv, NoDeactivation, Engine!SatisfiedHasFiredUnlessStale
      PROVE  SatisfiedHasMailed
  <2>1. SUFFICES ASSUME NEW p \in alive,
                        \A t \in Engine!OperandsOf(p) : t.duration > 0,
                        Engine!Formula(class[p], operands[p], triggerState[p])
                 PROVE  fired[p] > 0
    BY DEF SatisfiedHasMailed
  <2>2. p \in Predicates /\ operands[p] \in Seq(Triggers)
    BY <1>1 DEF MonitorInv, EngineInv, E!TypeOK
  <2>3. Engine!OperandsOf(p) \subseteq Triggers
    BY <2>2, ElementOfSeq, LenProperties DEF Engine!OperandsOf
  <2>4. \A t \in Engine!OperandsOf(p) : <<t, "deactivate">> \notin heard[p]
    BY <1>1, <2>1, <2>2, <2>3 DEF NoDeactivation
  <2> QED
    BY <2>1, <2>4, <1>1 DEF Engine!SatisfiedHasFiredUnlessStale
<1>2. MonitorInv /\ NoDeactivation /\ [Next]_vars => NoDeactivation'
  BY NoDeactivationNext
<1>3. Init => NoDeactivation
  BY NoDeactivationInit
<1> QED
  BY InitInv, NextInv, <1>1, <1>2, <1>3, MailsAreOneEach, PTL DEF Spec

(* An operand that is never deactivated only gains truth.                  *)
LEMMA OperandsKept ==
  ASSUME MonitorInv, NoDeactivation, [Next]_vars, NEW p \in Predicates, NEW t \in Triggers,
         t.duration > 0, triggerState[p][t]
  PROVE  triggerState'[p][t]
<1>1. CASE WalkOn
  <2>1. \/ triggerState' = [triggerState EXCEPT ![Head(walk.rest)][walk.trigger] = TRUE]
        \/ (triggerState' = [triggerState EXCEPT ![Head(walk.rest)][walk.trigger] = FALSE]
             /\ walk.trigger # t)
    BY <1>1 DEF WalkOn, Engine!Activate, Engine!Deactivate, NoDeactivation
  <2>2. triggerState \in [Predicates -> [Triggers -> BOOLEAN]]
    BY DEF MonitorInv, EngineInv, E!TypeOK
  <2> QED
    BY <2>1, <2>2
<1>2. \/ WalkOn \/ UNCHANGED triggerState
  BY EngineOperation DEF engineVars, TriggerChoose, Engine!MakePredicate, AddChosen,
       Engine!AddPredicate, BeginCall, Engine!Signal, EndCall, Engine!EndOfWalk, Engine!stateVars
<1> QED
  BY <1>1, <1>2

(* An operand of positive duration that has been activated counts as true  *)
(* for the rest of the program's life, whatever the samples do.            *)
THEOREM OperandsStayTrue ==
  Spec => [][\A p \in Predicates, t \in Triggers :
               t.duration > 0 /\ triggerState[p][t] => triggerState'[p][t]]_vars
<1>1. MonitorInv /\ NoDeactivation /\ [Next]_vars
        => [\A p \in Predicates, t \in Triggers :
              t.duration > 0 /\ triggerState[p][t] => triggerState'[p][t]]_vars
  BY OperandsKept
<1>2. MonitorInv /\ NoDeactivation /\ [Next]_vars => NoDeactivation'
  BY NoDeactivationNext
<1>3. Init => NoDeactivation
  BY NoDeactivationInit
<1> QED
  BY InitInv, NextInv, <1>1, <1>2, <1>3, PTL DEF Spec

(* A Predicate_1or2and3 of triggers of positive duration that knows all    *)
(* its operands to be true has sent its last e-mail: no later period of    *)
(* any of them makes it call back.  (The other two classes have no such    *)
(* memory and call back at each.)                                          *)
THEOREM AllThreeIsSilent ==
  Spec => [][\A p \in Predicates : AllThree(p) =>
               AllThree(p)' /\ calledBack'[p] <= calledBack[p]]_vars
<1> DEFINE Silent == \A p \in Predicates : AllThree(p) =>
                       AllThree(p)' /\ calledBack'[p] <= calledBack[p]
           Second == \A p \in Predicates :
                       /\ class[p] = "Predicate_1or2and3" /\ fired[p] > 0
                       /\ \A i \in 1 .. 3 : triggerState[p][operands[p][i]]
                       => calledBack'[p] <= calledBack[p]
<1> SUFFICES Spec => [][Silent]_vars
  OBVIOUS
<1>1. ASSUME MonitorInv, NoDeactivation, MadeAreAlive, SatisfiedHasMailed, [Next]_vars,
             [Second]_(E!vars)
      PROVE  [Silent]_vars
  <2> SUFFICES ASSUME NEW p \in Predicates, AllThree(p)
               PROVE  AllThree(p)' /\ calledBack'[p] <= calledBack[p]
    OBVIOUS
  <2>1. p \in alive /\ class[p] = "Predicate_1or2and3"
    BY <1>1 DEF AllThree, MadeAreAlive
  <2>2. fired[p] > 0
    BY <1>1, <2>1 DEF AllThree, SatisfiedHasMailed, Engine!Formula
  <2>3. calledBack[p] \in Nat
    BY <1>1 DEF MonitorInv, EngineInv, E!TypeOK
  <2>4. calledBack'[p] <= calledBack[p]
    <3>1. CASE Second
      BY <3>1, <2>1, <2>2 DEF AllThree
    <3>2. CASE UNCHANGED E!vars
      BY <3>2, <2>3 DEF E!vars, E!historyVars
    <3> QED
      BY <1>1, <3>1, <3>2
  <2>5. class'[p] = class[p] /\ operands'[p] = operands[p]
    <3>1. ASSUME NEW c \in Clients, NEW q \in Predicates, TriggerChoose(c, q)
          PROVE  class'[p] = class[p] /\ operands'[p] = operands[p]
      BY <1>1, <2>1, <3>1 DEF TriggerChoose, Engine!MakePredicate, MonitorInv, EngineInv, E!TypeOK
    <3>2. \/ \E c \in Clients, q \in Predicates : TriggerChoose(c, q)
          \/ UNCHANGED <<class, operands>>
      BY <1>1, EngineOperation DEF engineVars, AddChosen, Engine!AddPredicate, BeginCall,
           Engine!Signal, WalkOn, Engine!Activate, Engine!Deactivate, EndCall, Engine!EndOfWalk,
           Engine!objectVars
    <3> QED
      BY <3>1, <3>2
  <2>6. \A i \in 1 .. 3 : operands[p][i] \in Triggers /\ operands[p][i].duration > 0
    <3>1. operands[p] \in Seq(Triggers) /\ Len(operands[p]) = 3
      BY <1>1, <2>1, EngineConstants, E!ArityOfOr DEF MonitorInv, EngineInv, E!TypeOK
    <3>2. \A i \in 1 .. 3 : operands[p][i] \in Triggers /\ i \in DOMAIN operands[p]
      BY <3>1, ElementOfSeq
    <3> QED
      BY <3>2 DEF AllThree, Engine!OperandsOf
  <2>7. \A i \in 1 .. 3 : triggerState'[p][operands[p][i]]
    BY <1>1, <2>6, OperandsKept DEF AllThree
  <2>8. \A t \in Engine!OperandsOf(p)' : t.duration > 0
    BY <2>5 DEF AllThree, Engine!OperandsOf
  <2> QED
    BY <2>1, <2>4, <2>5, <2>7, <2>8 DEF AllThree
<1>2. MonitorInv /\ NoDeactivation /\ [Next]_vars => NoDeactivation'
  BY NoDeactivationNext
<1>3. MonitorInv /\ MadeAreAlive /\ [Next]_vars => MadeAreAlive'
  BY MadeAreAliveNext
<1>4. Init => NoDeactivation /\ MadeAreAlive
  BY NoDeactivationInit
<1>5. Spec => []SatisfiedHasMailed
  BY SatisfiedHaveMailed, PTL
<1>6. Spec => [][Second]_(E!vars)
  <2>1. E!Spec => E!SecondOrSilent
    BY EngineConstants, E!SecondOrStaysSilent
  <2>2. E!SecondOrSilent <=> [][Second]_(E!vars)
    BY DEF E!SecondOrSilent
  <2> HIDE DEF Second
  <2> QED
    BY EngineInMonitor, <2>1, <2>2, PTL
<1> HIDE DEF Silent, Second
<1> QED
  BY InitInv, NextInv, <1>1, <1>2, <1>3, <1>4, <1>5, <1>6, PTL DEF Spec

-----------------------------------------------------------------------------
(* The way to the end of a call *)

\* The walk in progress is the call at the head of calls; nothing else of
\* the poller runs before it has returned.
LEMMA PollerServesTheCall ==
  ASSUME MonitorInv, ~ Engine!Idle
  PROVE  calls # <<>> /\ poller = "triggers" /\ connected /\ walk.rest \in Seq(Predicates)
<1>1. calls # <<>> /\ connected /\ poller = "triggers"
  BY DEF MonitorInv, WalkServes, SamplerInv, S!CallInv
<1>2. walk \in [trigger : Triggers, signal : {"activate", "deactivate"}, rest : Seq(Predicates)]
  BY DEF MonitorInv, EngineInv, E!TypeOK, Engine!Idle, Engine!NoWalk, E!NoWalk
<1> QED
  BY <1>1, <1>2

(* The turns the walk has still to make, two steps each: a predicate may   *)
(* hold it up with an e-mail.                                              *)
WalkLeft == 2 * Len(walk.rest) + (IF mailing = Nobody THEN 0 ELSE 1)

\* A turn takes one predicate off the walk.
LEMMA TurnAdvances ==
  ASSUME MonitorInv, WalkOn
  PROVE  /\ walk'.trigger = walk.trigger /\ walk'.signal = walk.signal /\ calls' = calls
         /\ WalkLeft' < WalkLeft
<1>1. walk.rest # <<>> /\ walk' = [walk EXCEPT !.rest = Tail(@)] /\ calls' = calls /\ mailing = Nobody
  BY DEF WalkOn, Engine!Activate, Engine!Deactivate, samplerVars
<1>2. /\ walk'.trigger = walk.trigger /\ walk'.signal = walk.signal
      /\ walk.rest \in Seq(Predicates) /\ walk'.rest = Tail(walk.rest)
  BY <1>1, EngineConstants, E!WalkAdvances DEF MonitorInv, EngineInv
<1>3. Len(walk'.rest) = Len(walk.rest) - 1 /\ Len(walk.rest) \in Nat
  BY <1>1, <1>2, HeadTailProperties, LenProperties
<1>4. WalkLeft = 2 * Len(walk.rest) + 0
  BY <1>1 DEF WalkLeft
<1>5. WalkLeft' = 2 * Len(walk'.rest) + 0 \/ WalkLeft' = 2 * Len(walk'.rest) + 1
  BY Zenon DEF WalkLeft
<1>6. \A n \in Int : 2 * (n - 1) + 0 < 2 * n + 0 /\ 2 * (n - 1) + 1 < 2 * n + 0
  OBVIOUS
<1> QED
  BY <1>1, <1>2, <1>3, <1>4, <1>5, <1>6

(* Once the engine has begun to serve a call it goes on with that call: it *)
(* never starts over, each step of the poller, the return of an e-mail     *)
(* included, brings it nearer to its end or loses the process, and no      *)
(* handler of the server thread makes it longer, the one that adds a       *)
(* predicate included.                                                     *)
THEOREM CallsAdvance ==
  Spec => [][~ Engine!Idle =>
               \/ EndCall
               \/ /\ walk'.trigger = walk.trigger /\ walk'.signal = walk.signal
                  /\ calls' = calls
                  /\ \/ WalkLeft' < WalkLeft
                     \/ (WalkLeft' = WalkLeft /\ (Poller => ~ Up'))]_vars
<1>1. MonitorInv /\ [Next]_vars
        => [~ Engine!Idle =>
              \/ EndCall
              \/ /\ walk'.trigger = walk.trigger /\ walk'.signal = walk.signal
                 /\ calls' = calls
                 /\ \/ WalkLeft' < WalkLeft
                    \/ (WalkLeft' = WalkLeft /\ (Poller => ~ Up'))]_vars
  <2> SUFFICES ASSUME MonitorInv, Next, ~ Engine!Idle, ~ EndCall
               PROVE  /\ walk'.trigger = walk.trigger /\ walk'.signal = walk.signal
                      /\ calls' = calls
                      /\ \/ WalkLeft' < WalkLeft
                         \/ (WalkLeft' = WalkLeft /\ (Poller => ~ Up'))
    OBVIOUS
  <2>1. calls # <<>> /\ poller = "triggers" /\ connected /\ walk.rest \in Seq(Predicates)
    BY PollerServesTheCall
  <2>2. ASSUME UNCHANGED <<walk, mailing, calls>>, Poller => ~ Up'
        PROVE  /\ walk'.trigger = walk.trigger /\ walk'.signal = walk.signal
               /\ calls' = calls /\ WalkLeft' = WalkLeft /\ (Poller => ~ Up')
    BY <2>2 DEF WalkLeft
  <2>3. CASE MailReturns
    <3>1. UNCHANGED <<walk, calls>> /\ mailing # Nobody /\ mailing' = Nobody
      BY <2>3 DEF MailReturns, samplerVars, engineVars
    <3>2. WalkLeft = 2 * Len(walk.rest) + 1 /\ WalkLeft' = 2 * Len(walk.rest) + 0
      BY <3>1 DEF WalkLeft
    <3>3. Len(walk.rest) \in Nat
      BY <2>1, LenProperties
    <3>4. \A n \in Nat : 2 * n + 0 < 2 * n + 1
      OBVIOUS
    <3> QED
      BY <3>1, <3>2, <3>3, <3>4, Zenon
  <2>4. CASE MailThrows
    BY <2>4, <2>2 DEF MailThrows, engineVars, mailVars, Up
  <2>5. CASE WalkOn
    BY <2>5, TurnAdvances
  <2>6. ~ (BeginCall \/ DefaultCallback \/ ProcessLogsDuringRead \/ Poll)
    BY <2>1 DEF BeginCall, DefaultCallback, ProcessLogsDuringRead, Poll, Engine!Signal,
                Sampler!Sample, Sampler!AfterPoll, Sampler!BreakOrSleep, Sampler!ProcessLogs,
                Sampler!ProcessTrigger
  <2>7. CASE Poller
    BY <2>3, <2>4, <2>5, <2>6, <2>7 DEF Poller
  <2>8. CASE (Main \/ Server) /\ ~ Poller
    <3>1. UNCHANGED <<walk, mailing, calls>>
      BY <2>8 DEF Main, Server, Request, Start, Connect, ConnectDuringCall, SetEmail, TriggerChoose,
                  AddChosen, AddDuringWalk, EndGetLogs, GetLogs, Race, mailVars, samplerVars,
                  engineVars, Engine!MakePredicate, Engine!AddPredicate, Sampler!StartSampling,
                  Sampler!dataVars, Sampler!triggerVars
    <3> QED
      BY <2>2, <2>8, <3>1
  <2> QED
    BY <2>7, <2>8 DEF Next
<1> QED
  BY InitInv, NextInv, <1>1, PTL DEF Spec

-----------------------------------------------------------------------------
(* The bound on the signals                                                *)

\* What the poller may have signalled, at most two a trigger and poll: what
\* is waiting or yet to be visited is still to come, and the call in progress
\* is counted.
SignalsInv ==
  /\ polls <= MaxPolls
  /\ signals + Len(calls) + 2 * Cardinality(pending)
       <= polls * (2 * Cardinality(Triggers)) + (IF Engine!Idle THEN 0 ELSE 1)

LEMMA Products ==
  ASSUME NEW a \in Nat, NEW b \in Nat, NEW c \in Nat, a <= b
  PROVE  /\ (a + 1) * (2 * c) = a * (2 * c) + 2 * c
         /\ a * (2 * c) <= 2 * b * c
<1>1. PICK d \in Nat : b = a + d
  <2>1. b - a \in Nat /\ b = a + (b - a)
    OBVIOUS
  <2> QED
    BY <2>1
<1>2. (a + d) * (2 * c) = a * (2 * c) + d * (2 * c) /\ d * (2 * c) >= 0
  OBVIOUS
<1>3. 2 * b * c = b * (2 * c)
  OBVIOUS
<1>4. (a + 1) * (2 * c) = a * (2 * c) + 2 * c
  OBVIOUS
<1>5. a * (2 * c) \in Int /\ d * (2 * c) \in Int
  OBVIOUS
<1> QED
  BY <1>1, <1>2, <1>3, <1>4, <1>5

LEMMA CountTypes ==
  ASSUME MonitorInv
  PROVE  /\ signals \in Nat /\ calls \in Seq(S!Signals) /\ Len(calls) \in Nat /\ Len(calls) <= 2
         /\ pending \in SUBSET Triggers /\ IsFiniteSet(pending) /\ Cardinality(pending) \in Nat
         /\ Cardinality(Triggers) \in Nat /\ polls \in Nat /\ MaxPolls \in Nat
         /\ polls * (2 * Cardinality(Triggers)) \in Nat
         /\ calls # <<>> => Len(calls) >= 1 /\ Len(Tail(calls)) = Len(calls) - 1
<1>1. signals \in Nat
  BY DEF MonitorInv, EngineInv, E!TypeOK
<1>2. calls \in Seq(S!Signals) /\ Len(calls) <= 2 /\ pending \in SUBSET Triggers /\ polls \in Nat
  BY DEF MonitorInv, SamplerInv, S!TypeInv, S!TypeOK
<1>3. Len(calls) \in Nat
  BY <1>2, LenProperties
<1>4. IsFiniteSet(pending) /\ Cardinality(pending) \in Nat /\ Cardinality(Triggers) \in Nat
  BY <1>2, SamplerAssumption, FS_Subset, FS_CardinalityType
<1>5. MaxPolls \in Nat
  BY SamplerAssumption
<1>6. polls * (2 * Cardinality(Triggers)) \in Nat
  BY <1>2, <1>4
<1>7. calls # <<>> => Len(calls) >= 1 /\ Len(Tail(calls)) = Len(calls) - 1
  BY <1>2, <1>3, HeadTailProperties, LenProperties, EmptySeq
<1> QED
  BY <1>1, <1>2, <1>3, <1>4, <1>5, <1>6, <1>7

\* A step counts as one of the sampler, of the engine, or as none.
LEMMA SignalsNext ==
  ASSUME MonitorInv, MonitorInv', SignalsInv, [Next]_vars
  PROVE  SignalsInv'
<1> DEFINE n == 2 * Cardinality(Triggers)
           e == IF Engine!Idle THEN 0 ELSE 1
<1>0. e \in {0, 1} /\ (Engine!Idle => e = 0) /\ (~ Engine!Idle => e = 1)
  OBVIOUS
<1>1. /\ signals \in Nat /\ Len(calls) \in Nat /\ Cardinality(pending) \in Nat /\ n \in Nat
      /\ polls \in Nat /\ MaxPolls \in Nat /\ polls * n \in Nat
      /\ polls <= MaxPolls
      /\ signals + Len(calls) + 2 * Cardinality(pending) <= polls * n + e
  BY CountTypes DEF SignalsInv
<1>2. ASSUME UNCHANGED <<polls, pending, calls, signals>>, Engine!Idle' <=> Engine!Idle
      PROVE  SignalsInv'
  BY <1>2 DEF SignalsInv
<1>3. CASE Sampler!Sample /\ UNCHANGED engineVars
  <2>1. /\ poller = "while" /\ polls < MaxPolls /\ polls' = polls + 1 /\ pending' = Triggers
        /\ calls' = calls /\ signals' = signals /\ walk' = walk
    BY <1>3 DEF Sampler!Sample, engineVars
  <2>2. calls = <<>> /\ pending = {} /\ Engine!Idle
    BY <2>1 DEF MonitorInv, SamplerInv, S!CallInv, S!RunInv, S!VisitInv, WalkServes
  <2>3. Len(calls) = 0 /\ Cardinality(pending) = 0 /\ Engine!Idle'
    BY <2>1, <2>2, FS_EmptySet, EmptySeq DEF Engine!Idle
  <2>4. signals <= polls * n
    BY <1>0, <1>1, <2>2, <2>3
  <2>5. (polls + 1) * n = polls * n + n
    <3>1. polls \in Nat /\ MaxPolls \in Nat /\ Cardinality(Triggers) \in Nat /\ polls <= MaxPolls
      BY CountTypes DEF SignalsInv
    <3> QED
      BY <3>1, Products, Zenon
  <2>6. signals + 0 + n <= (polls + 1) * n + 0
    BY <1>1, <2>4, <2>5
  <2>7. polls + 1 <= MaxPolls
    BY <1>1, <2>1
  <2>8. Len(calls') = 0 /\ 2 * Cardinality(pending') = n
    BY <2>1, <2>3
  <2> HIDE DEF n
  <2> QED
    BY <2>1, <2>3, <2>6, <2>7, <2>8 DEF SignalsInv, n
<1>4. ASSUME NEW t \in Triggers, Sampler!ProcessTrigger(t), UNCHANGED engineVars PROVE SignalsInv'
  <2>1. /\ t \in pending /\ pending' = pending \ {t} /\ calls = <<>> /\ polls' = polls
        /\ signals' = signals /\ walk' = walk
    BY <1>4 DEF Sampler!ProcessTrigger, Sampler!NextInOrder, Sampler!threadVars, engineVars
  <2>2. Cardinality(pending') = Cardinality(pending) - 1
    BY <2>1, CountTypes, FS_RemoveElement
  <2>3. calls' \in Seq(S!Signals) /\ Len(calls') <= 2
    BY Zenon DEF MonitorInv, SamplerInv, S!TypeInv, S!TypeOK
  <2>4. Len(calls') \in Nat /\ Len(calls) = 0
    BY <2>1, <2>3, LenProperties, EmptySeq
  <2>5. \A s, l, k, c, m \in Int : s + c + 2 * k <= m /\ c = 0 /\ l <= 2 => s + l + 2 * (k - 1) <= m
    OBVIOUS
  <2>6. signals + Len(calls') + 2 * (Cardinality(pending) - 1) <= polls * n + e
    BY <1>0, <1>1, <2>3, <2>4, <2>5
  <2>7. e' = e
    BY <2>1 DEF Engine!Idle
  <2> HIDE DEF e, n
  <2> QED
    BY <1>1, <2>1, <2>2, <2>6, <2>7 DEF SignalsInv, e, n
<1>5. CASE DefaultCallback \/ EndCall
  <2>1. calls # <<>> /\ calls' = Tail(calls) /\ UNCHANGED <<polls, pending, signals>>
    BY <1>5 DEF DefaultCallback, EndCall, Sampler!CallReturns, Engine!EndOfWalk, Engine!historyVars,
                engineVars, Sampler!threadVars
  <2>2. e' = e \/ (e = 1 /\ e' = 0)
    BY <1>5 DEF DefaultCallback, EndCall, Engine!EndOfWalk, Engine!Idle, engineVars
  <2>3. Len(calls') = Len(calls) - 1
    BY <2>1, CountTypes
  <2>4. \A s, c, k, m \in Int : \A d, f \in {0, 1} :
          s + c + 2 * k <= m + d /\ (f = d \/ (d = 1 /\ f = 0)) => s + (c - 1) + 2 * k <= m + f
    OBVIOUS
  <2>5. e' \in {0, 1}
    BY <1>0, <2>2
  <2>6. signals + (Len(calls) - 1) + 2 * Cardinality(pending) <= polls * n + e'
    BY <1>0, <1>1, <2>2, <2>4, <2>5
  <2> HIDE DEF e, n
  <2> QED
    BY <1>1, <2>1, <2>3, <2>6 DEF SignalsInv, e, n
<1>6. CASE BeginCall
  <2>1. /\ calls # <<>> /\ UNCHANGED <<polls, pending, calls>> /\ signals' = signals + 1 /\ Engine!Idle
        /\ walk'.signal = Head(calls).signal
    BY <1>6 DEF BeginCall, Engine!Signal, samplerVars
  <2>2. Head(calls) \in S!Signals
    BY <2>1, CountTypes, HeadTailProperties
  <2>3. walk'.signal # "none"
    BY <2>1, <2>2 DEF S!Signals
  <2>4. ~ Engine!Idle'
    BY <2>3 DEF Engine!Idle
  <2>5. e = 0 /\ e' = 1
    BY <2>1, <2>4
  <2>6. signals + 1 + Len(calls) + 2 * Cardinality(pending) <= polls * n + 1
    BY <1>1, <2>5
  <2> HIDE DEF e, n
  <2> QED
    BY <1>1, <2>1, <2>5, <2>6 DEF SignalsInv, e, n
<1>7. CASE WalkOn
  <2>1. UNCHANGED <<polls, pending, calls, signals>> /\ walk.rest # <<>>
        /\ walk' = [walk EXCEPT !.rest = Tail(@)]
    BY <1>7 DEF WalkOn, Engine!Activate, Engine!Deactivate, samplerVars
  <2>2. /\ walk \in [trigger : Triggers, signal : {"activate", "deactivate"}, rest : Seq(Predicates)]
        /\ walk' \in [trigger : Triggers, signal : {"activate", "deactivate"}, rest : Seq(Predicates)]
    BY <2>1, EngineConstants, E!WalkAdvances DEF MonitorInv, EngineInv
  <2>3. walk.signal # "none" /\ walk'.signal # "none"
    BY <2>2
  <2>4. ~ Engine!Idle /\ ~ Engine!Idle'
    BY <2>3 DEF Engine!Idle
  <2> QED
    BY <2>1, <2>4, <1>2
<1>8. ASSUME UNCHANGED <<polls, pending, calls>>,
             \/ UNCHANGED engineVars \/ AddChosen \/ \E c \in Clients, p \in Predicates : TriggerChoose(c, p)
      PROVE  SignalsInv'
  <2>1. UNCHANGED <<signals, walk>>
    BY <1>8 DEF engineVars, AddChosen, TriggerChoose, Engine!AddPredicate, Engine!MakePredicate
  <2> QED
    BY <1>2, <1>8, <2>1 DEF Engine!Idle
<1>9. CASE Poll
  <2>1. UNCHANGED <<polls, pending, calls>> \/ Sampler!Sample \/ \E t \in Triggers : Sampler!ProcessTrigger(t)
    BY <1>9 DEF Poll, Sampler!AfterPoll, Sampler!BreakOrSleep, Sampler!ProcessLogs,
                Sampler!triggerVars
  <2> QED
    BY <1>9, <2>1, <1>3, <1>4, <1>8 DEF Poll
<1>10. CASE Main \/ Server \/ ProcessLogsDuringRead \/ MailReturns \/ MailThrows \/ UNCHANGED vars
  <2>1. UNCHANGED <<polls, pending, calls>>
    BY <1>10 DEF Main, Server, Request, Start, Connect, ConnectDuringCall, SetEmail, TriggerChoose,
         AddChosen, AddDuringWalk, EndGetLogs, GetLogs, Race, samplerVars, vars, MailReturns,
         MailThrows, ProcessLogsDuringRead, Sampler!StartSampling, Sampler!dataVars,
         Sampler!triggerVars
  <2>2. \/ UNCHANGED engineVars \/ AddChosen \/ \E c \in Clients, p \in Predicates : TriggerChoose(c, p)
    BY <1>10 DEF Main, Server, Request, Start, Connect, ConnectDuringCall, SetEmail,
         AddDuringWalk, EndGetLogs, GetLogs, Race, vars, MailReturns, MailThrows,
         ProcessLogsDuringRead
  <2> QED
    BY <2>1, <2>2, <1>8
<1> QED
  BY <1>5, <1>6, <1>7, <1>9, <1>10 DEF Next, Poller

(* The bound the monitor gives the engine's specification never holds a    *)
(* signal back: a call that waits to be served can always be begun, so no  *)
(* behaviour of the program is cut short before MaxPolls polls are over.   *)
THEOREM BoundNeverBinds ==
  Spec => [](calls # <<>> /\ Engine!Idle => signals < 2 * MaxPolls * Cardinality(Triggers))
<1>1. MonitorInv /\ SignalsInv
        => (calls # <<>> /\ Engine!Idle => signals < 2 * MaxPolls * Cardinality(Triggers))
  <2> SUFFICES ASSUME MonitorInv, SignalsInv, calls # <<>>, Engine!Idle
               PROVE  signals < 2 * MaxPolls * Cardinality(Triggers)
    OBVIOUS
  <2>1. polls * (2 * Cardinality(Triggers)) <= 2 * MaxPolls * Cardinality(Triggers)
        /\ 2 * MaxPolls * Cardinality(Triggers) \in Int
    BY CountTypes, Products DEF SignalsInv
  <2>2. signals + Len(calls) + 2 * Cardinality(pending) <= polls * (2 * Cardinality(Triggers)) + 0
    BY Zenon DEF SignalsInv
  <2> DEFINE m == polls * (2 * Cardinality(Triggers))
             b == 2 * MaxPolls * Cardinality(Triggers)
  <2>3. m \in Int /\ b \in Int /\ m <= b /\ signals + Len(calls) + 2 * Cardinality(pending) <= m + 0
    BY <2>1, <2>2, CountTypes
  <2> HIDE DEF m, b
  <2>4. signals < b
    BY <2>3, CountTypes
  <2> QED
    BY <2>4 DEF b
<1>2. Init => SignalsInv
  <2> SUFFICES ASSUME Init PROVE SignalsInv
    OBVIOUS
  <2>1. signals = 0 /\ calls = <<>> /\ pending = {} /\ polls = 0
    BY DEF Init, Sampler!Init, Engine!Init
  <2>2. Len(calls) = 0 /\ Cardinality(pending) = 0
    BY <2>1, FS_EmptySet, EmptySeq
  <2>3. 0 <= MaxPolls /\ Cardinality(Triggers) \in Nat
    BY SamplerAssumption, FS_CardinalityType
  <2> QED
    BY <2>1, <2>2, <2>3 DEF SignalsInv
<1> QED
  BY InitInv, NextInv, SignalsNext, <1>1, <1>2, PTL DEF Spec
=============================================================================
