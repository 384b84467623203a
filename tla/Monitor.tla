------------------------------- MODULE Monitor -------------------------------
(***************************************************************************)
(* The running program: main() starts the sampler and connects the engine, *)
(* the HTTP server thread handles the requests of the clients one at a     *)
(* time, and the poller thread runs triggerActivation, the callbacks of    *)
(* the predicates and the SMTP client inside its own steps.                *)
(*                                                                         *)
(* The poller is module SamplingManager and the predicates are module      *)
(* PredicateEngine, instantiated over the variables of the same names;     *)
(* this module adds the threads' interplay.  When two threads touch one    *)
(* object without a lock the program has no defined behaviour: raced names *)
(* the object and the behaviour is followed no further.                    *)
(***************************************************************************)
EXTENDS Naturals, Sequences, FiniteSets

CONSTANTS Triggers, LogTypes, Readings, MaxPolls,   \* as in SamplingManager
          NoTrigger, Predicates, Kinds,             \* as in PredicateEngine
          Clients,                                  \* web clients, and their addresses
          Nobody                                    \* no client, no predicate, no address

ASSUME MonitorAssumption ==
  /\ Nobody \notin Clients /\ Nobody \notin Predicates
  /\ \A t \in Triggers : \/ t.resource = "CPU"    /\ t.unitType = "PERCENT"
                         \/ t.resource = "DISK"   /\ t.unitType # "PERCENT"
                         \/ t.resource = "MEMORY"    \* see AbortOnUnit for the others

VARIABLES isSampling, poller, owner, process, samples, triggerStates, order,
          pending, calls, logs, sampleNumber, polls, run, fires, selfStopped
VARIABLES class, operands, alive, triggerState, lastSatisfied, predicates, walk,
          active, added, heard, fired, calledBack, signals
VARIABLES main,        \* where main() is
          connected,   \* do the sampler's callbacks lead to the engine?
          server,      \* what the handler in progress does
          userEmail,   \* userEmail (and userName) of the server function
          email,       \* the address the callback of a predicate captured
          subscriber,  \* history: the client whose request made a predicate
          mailing,     \* the predicate whose callback is in sendEmail
          outbox,      \* history: the e-mails delivered
          raced        \* the object two threads used at the same time

Sampler == INSTANCE SamplingManager WITH SelfStop <- FALSE
Engine == INSTANCE PredicateEngine
            WITH MaxSignals <- 2 * MaxPolls * Cardinality(Triggers)

\* The constants are ones the two classes may be given.
ASSUME SamplerAssumption ==
  /\ IsFiniteSet(Triggers) /\ Triggers \subseteq Sampler!TriggerType
  /\ Len(LogTypes) \in Nat /\ DOMAIN LogTypes = 1 .. Len(LogTypes)
  /\ \A i \in 1 .. Len(LogTypes) : LogTypes[i] \in Sampler!LogType
  /\ DOMAIN Readings = Sampler!Resource
  /\ \A r \in Sampler!Resource : \A s \in Readings[r] : s \in Sampler!StateOf[r]
  /\ MaxPolls \in Nat
ASSUME EngineAssumption == NoTrigger \notin Triggers /\ Kinds \subseteq DOMAIN Engine!Arity

samplerVars == <<isSampling, poller, owner, process, samples, triggerStates, order,
                 pending, calls, logs, sampleNumber, polls, run, fires, selfStopped>>
engineVars  == <<class, operands, alive, triggerState, lastSatisfied, predicates, walk,
                 active, added, heard, fired, calledBack, signals>>
serverVars  == <<server, userEmail, email, subscriber>>
mailVars    == <<mailing, outbox>>
vars == <<samplerVars, engineVars, main, connected, serverVars, mailVars, raced>>

Free == [doing |-> "nothing"]

Init ==
  /\ Sampler!Init /\ Engine!Init
  /\ main = "constructed" /\ connected = FALSE
  /\ server = Free /\ userEmail = Nobody
  /\ email = [p \in Predicates |-> Nobody] /\ subscriber = [p \in Predicates |-> Nobody]
  /\ mailing = Nobody /\ outbox = {}
  /\ raced = "nothing"

Up == process = "running" /\ raced = "nothing"

Race(object) ==
  /\ raced' = object
  /\ UNCHANGED <<samplerVars, engineVars, main, connected, serverVars, mailVars>>

-----------------------------------------------------------------------------
(* main() *)

Start ==
  /\ Up /\ main = "constructed"
  /\ Sampler!StartSampling
  /\ main' = "started"
  /\ UNCHANGED <<engineVars, connected, serverVars, mailVars, raced>>

(* connectPredicateEngine assigns the std::functions the poller may be in;   *)
(* then the server function takes over.                                      *)
Connect ==
  /\ Up /\ main = "started" /\ calls = <<>>
  /\ main' = "serving" /\ connected' = TRUE
  /\ UNCHANGED <<samplerVars, engineVars, serverVars, mailVars, raced>>

ConnectDuringCall == Up /\ main = "started" /\ calls # <<>> /\ Race("callbacks")

-----------------------------------------------------------------------------
(* The server thread: one handler at a time *)

Serving == Up /\ main = "serving"

\* /set_email with its two fields; any other number of fields changes nothing.
SetEmail(c) ==
  /\ Serving /\ server = Free
  /\ userEmail' = c
  /\ UNCHANGED <<samplerVars, engineVars, main, connected, server, email, subscriber,
                 mailVars, raced>>

(* /trigger_choose up to addPredicate: the predicate and its callback, which *)
(* captures the address set last.  A wrong number of fields or an index out  *)
(* of range changes nothing.                                                 *)
TriggerChoose(c, p) ==
  /\ Serving /\ server = Free
  /\ Engine!MakePredicate(p)
  /\ email' = [email EXCEPT ![p] = userEmail]
  /\ subscriber' = [subscriber EXCEPT ![p] = c]
  /\ server' = [doing |-> "adding", predicate |-> p]
  /\ UNCHANGED <<samplerVars, main, connected, userEmail, mailVars, raced>>

\* predEngine->addPredicate(pred) and the response.
AddChosen ==
  /\ Serving /\ server.doing = "adding"
  /\ Engine!AddPredicate(server.predicate)
  /\ server' = Free
  /\ UNCHANGED <<samplerVars, main, connected, userEmail, email, subscriber, mailVars, raced>>

\* push_back on the vector triggerActivation is iterating over.
AddDuringWalk ==
  /\ Serving /\ server.doing = "adding"
  /\ walk.trigger \in Engine!OperandsOf(server.predicate)
  /\ Race("predicates")

\* /getlogs: iterate over the live buffer of a log while the poller goes on.
GetLogs(k) ==
  /\ Serving /\ server = Free
  /\ server' = [doing |-> "reading", log |-> k]
  /\ UNCHANGED <<samplerVars, engineVars, main, connected, userEmail, email, subscriber,
                 mailVars, raced>>

EndGetLogs ==
  /\ Serving /\ server.doing = "reading"
  /\ server' = Free
  /\ UNCHANGED <<samplerVars, engineVars, main, connected, userEmail, email, subscriber,
                 mailVars, raced>>

-----------------------------------------------------------------------------
(* The poller thread *)

\* The log being read is one processLogs is about to append to.
LogsClash ==
  /\ server.doing = "reading"
  /\ Sampler!LogDue(logs[server.log].since, server.log.resolution)

(* The sampler's own steps, outside callbacks.  main() never stops it: the   *)
(* loop has no end and the thread function does not return.                  *)
Poll ==
  /\ Up
  /\ \/ Sampler!Sample \/ Sampler!AfterPoll \/ Sampler!BreakOrSleep
     \/ Sampler!ProcessLogs /\ ~LogsClash
     \/ \E t \in Triggers : Sampler!ProcessTrigger(t)
  /\ UNCHANGED <<engineVars, main, connected, serverVars, mailVars, raced>>

ProcessLogsDuringRead ==
  /\ Up /\ poller = "triggers" /\ pending = {} /\ calls = <<>> /\ LogsClash
  /\ Race("log")

\* The callback main() passed to the constructor prints a line.
DefaultCallback ==
  /\ Up /\ ~connected
  /\ Sampler!CallReturns
  /\ UNCHANGED <<engineVars, main, connected, serverVars, mailVars, raced>>

BeginCall ==
  /\ Up /\ connected /\ calls # <<>>
  /\ Engine!Signal(Head(calls).trigger, Head(calls).signal)
  /\ UNCHANGED <<samplerVars, main, connected, serverVars, mailVars, raced>>

(* A turn of the walk; a callback that runs enters sendEmail and the poller  *)
(* waits in it.  The vector of the server function keeps every predicate     *)
(* alive, so none has expired.                                               *)
WalkOn ==
  /\ Up /\ mailing = Nobody
  /\ Engine!Deactivate \/ Engine!Activate
  /\ mailing' = IF calledBack' # calledBack THEN Head(walk.rest) ELSE Nobody
  /\ UNCHANGED <<samplerVars, main, connected, serverVars, outbox, raced>>

\* Mutant: the call returns while the e-mail is still being sent.
EndCallEarly ==
  /\ Up
  /\ Engine!EndOfWalk /\ Sampler!CallReturns
  /\ UNCHANGED <<main, connected, serverVars, mailVars, raced>>

\* Mutant: the walk ends but the call it served is made again.
EndCallAgain ==
  /\ Up /\ mailing = Nobody
  /\ Engine!EndOfWalk
  /\ UNCHANGED <<samplerVars, main, connected, serverVars, mailVars, raced>>

EndCall ==
  /\ Up /\ mailing = Nobody
  /\ Engine!EndOfWalk /\ Sampler!CallReturns
  /\ UNCHANGED <<main, connected, serverVars, mailVars, raced>>

(* sendEmail returns: delivered, or failed with an error the callback does   *)
(* not look at.                                                              *)
MailReturns ==
  /\ Up /\ mailing # Nobody
  /\ outbox' \in {outbox, outbox \cup {[predicate |-> mailing, to |-> email[mailing]]}}
  /\ mailing' = Nobody
  /\ UNCHANGED <<samplerVars, engineVars, main, connected, serverVars, raced>>

(* A failed write throws through the callback, the walk and pollingFunction: *)
(* nothing catches it on the poller thread.                                  *)
MailThrows ==
  /\ Up /\ mailing # Nobody
  /\ process' = "terminated"
  /\ UNCHANGED <<isSampling, poller, owner, samples, triggerStates, order, pending, calls,
                 logs, sampleNumber, polls, run, fires, selfStopped, engineVars, main, connected,
                 serverVars, mailVars, raced>>

-----------------------------------------------------------------------------
Main == Start \/ Connect \/ ConnectDuringCall
Request == \E c \in Clients : SetEmail(c) \/ \E p \in Predicates : TriggerChoose(c, p)
Server == \/ Request \/ AddChosen \/ AddDuringWalk \/ EndGetLogs
          \/ \E k \in Sampler!LogKeys : GetLogs(k)
Poller == \/ Poll \/ ProcessLogsDuringRead \/ DefaultCallback \/ BeginCall \/ WalkOn
          \/ EndCall \/ MailReturns \/ MailThrows

Next == Main \/ Server \/ Poller

Spec == Init /\ [][Next]_vars

(* The poller thread is scheduled, and is on its own until it enters          *)
(* sendEmail.  Clients and mail servers owe nothing.                         *)
FairSpec == Spec /\ WF_vars(Poller /\ mailing = Nobody)

-----------------------------------------------------------------------------
(* Properties *)

(* The variables this module adds have the types of what they model, and the *)
(* poller is in sendEmail only in the middle of a walk it was called for.    *)
TypeOK ==
  /\ main \in {"constructed", "started", "serving"} /\ connected \in BOOLEAN
  /\ server.doing \in {"nothing", "adding", "reading"}
  /\ userEmail \in Clients \cup {Nobody}
  /\ email \in [Predicates -> Clients \cup {Nobody}]
  /\ subscriber \in [Predicates -> Clients \cup {Nobody}]
  /\ mailing \in Predicates \cup {Nobody}
  /\ mailing # Nobody => walk.signal = "activate" /\ calls # <<>>
  /\ raced \in {"nothing", "callbacks", "predicates", "log"}

(* Through both components: an e-mail is under way only at the end of a full *)
(* period of samples that exceed one of the predicate's operands, the one    *)
(* being activated (unless its period is 0).                                 *)
MailAtEndOfPeriod ==
  mailing # Nobody =>
    /\ walk.trigger \in Engine!OperandsOf(mailing)
    /\ walk.trigger.duration > 0 =>
         run[walk.trigger] > 0 /\ run[walk.trigger] % walk.trigger.duration = 0

(* Where both the counter of the sampler and the memory of the engine would  *)
(* have to go wrong: a predicate that knows its formula to be true has       *)
(* mailed since it became true, whatever class it is and however its         *)
(* operands come and go in the samples, as long as none of them is a trigger *)
(* "for 0 s".  lastSatisfied is never reset, so this needs processTriggers   *)
(* never to deactivate a trigger of positive duration.                       *)
SatisfiedHasMailed ==
  \A p \in alive :
    /\ \A t \in Engine!OperandsOf(p) : t.duration > 0
    /\ Engine!Formula(class[p], operands[p], triggerState[p])
    => fired[p] > 0

(* As long as every mail server lets sendEmail go (SMTPClient says when it   *)
(* does not), a call the sampler makes returns, requests notwithstanding,    *)
(* unless the process is lost meanwhile.                                     *)
CallsReturn ==
  []<>(mailing = Nobody) => (calls # <<>> ~> calls = <<>> \/ ~Up)

(* An e-mail means that the formula the user chose holds now: "combination   *)
(* of triggers (like RAM over 200MB last for 5s)", "When some predicate is   *)
(* satisfied - an email is being sent".  A trigger lasts when the samples    *)
(* have exceeded it for its duration without a break; one processTriggers    *)
(* has not come to yet in this poll could not be deactivated before and is   *)
(* not held against the e-mail.                                              *)
MailMeansFormulaHolds ==
  mailing # Nobody =>
    Engine!Formula(class[mailing], operands[mailing],
                   [t \in Triggers |-> t \in pending \/ run[t] >= t.duration])

(* An e-mail goes to the client that made the predicate ("to address         *)
(* specified by predicate creator"), or nowhere if no address was given.     *)
MailGoesToSubscriber ==
  \A m \in outbox : m.to \in {subscriber[m.predicate], Nobody}
=============================================================================
