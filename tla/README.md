# A TLA+ model of ZPR_ResMonitor

ZPR_ResMonitor samples the CPU, memory and disk of a machine once a second,
counts for how long each configured *trigger* ("memory over 200MB last for 5s")
has held, keeps *logs* of means, and serves a web page on which users combine
triggers into *predicates* and leave an e-mail address; a predicate that
becomes satisfied sends an e-mail.

This directory holds TLA+ modules translated from the C++ sources, TLC
configurations that check them on small instances, and TLAPS proofs about the
sampling manager, the predicate engine, the running program, both resource
providers, the SMTP client and the HTTP server for every instance.
`PROJECT.json` lists components, runs, mutants, the source lines each definition
stands for, findings, hazards and theorems.

## The system

| component | sources | state | operations |
|---|---|---|---|
| Sampling manager | `src/src/library_src/SamplingManager.cpp`, `src/include/SamplingManager.hpp` | poller thread, `isSampling`, three circular buffers of samples, `triggerStates` (trigger to count), three maps of logs with a counter each, three callbacks | construct, `startSampling`, `stopSampling`, destroy; `pollingFunction` with `processTriggers`, `processLogs`, `afterPollCallback`; `connectPredicateEngine`; `getCpuLog` and its siblings |
| Resource states, configuration data | `CpuState`, `RamState`, `HddState`, `configrawdata` | values | `operator>` against a trigger (with assertions), `+=` and `/=` for means, equality and hash of `TriggerType` and `LogType` |
| Predicate engine, predicates | `PredicateEngine.hpp`, `Predicate.*`, `PredicateTypes.*` | trigger to vector of `weak_ptr<Predicate>`; per predicate the truth of each operand, `lastSatisfied`, callback | `addPredicate`, `triggerActivation`, `triggerDeactivation`; `activate`, `deactivate`, `isPredicateSatisfied`, `setCallback` |
| Main program, request handlers | `src/src/main.cpp` | `userName`, `userEmail`, the vector that owns the predicates | `main`, `/getlogs`, `/trigger_choose`, `/set_email`, the page |
| SMTP client | `src/include/smtp_client.hpp` | socket, buffers, the letter, `mHasError`, an `io_service` of its own | construct (starts to resolve), `sendEmail`; handlers of resolution, connection and reply |
| Configuration parser and lexer rules | `src/flex/configparser.l`, `flex.cpp` (generated from it), `flex.hpp`, `ConfigurationParser.hpp` | per parser: text, start condition and stack of conditions; per process: current trigger and log, lists of values and durations, results | construct and `run`; one action per token rule; cross products |
| Linux provider | `LinuxResProvider.*` | the previous counters of `/proc` and their times | construct; read CPU, memory, disk |
| Windows provider | `WindowsResProvider.*` | the previous counters and times, PDH handles | the same |
| HTTP server library | `server_http.hpp` (vendored Simple-Web-Server) | acceptor, set of connections; per connection socket, timer, session with its request and response | start, stop, destroy; accept, read header, content and chunks, find resource, write, time out |
| Scope runner, HTTP text utilities | `utility.hpp`, `status_code.hpp` (vendored) | `count`, an atomic | `continue_lock`, `~SharedLock`, `stop`; parsing of headers and queries |
| Scanner runtime | the generated rest of `flex.cpp` | input buffers | refill, switch, flush |

Vendored and unused: `client_http.hpp`, `client_https.hpp`, `server_https.hpp`,
`crypto.hpp`. The rest of `src/` is generated documentation,
the picture of the web page and build files.

### How they interact

```
 main thread            poller thread (SamplingManager)        server thread
 -----------            -------------------------------        -------------
 construct              while (isSampling)                     one handler at a time
 startSampling  ----->    sample (provider)
 connectPredicateEngine   processTriggers
   assigns callbacks        triggerDeactivate, triggerActivate
 server (joins)               -> PredicateEngine walk      <--- addPredicate
                                -> Predicate::activate           (/trigger_choose)
                                   -> callback -> sendEmail
                          processLogs -> log buffers       ---> /getlogs reads them
                          afterPollCallback
                          sleep 1 s
```

Nothing in the program takes a lock: `isSampling` is the one atomic. A callback
and the e-mail it sends run inside the poller.

### What is hard here, and what makes each part correct

* **Sampling manager.** The counters, the logs' counters and the shared sample
  buffers evolve over many polls, stops and restarts, in the order of an
  unordered map. Correct: one activation per `duration` consecutive exceeding
  samples; a log entry per `resolution` samples, the mean of a full window, the
  newest entries kept; `stopSampling` returns; no thread is overwritten or
  destroyed while joinable.
* **Predicate engine.** Signals arrive one operand at a time and callbacks run
  in the middle of a walk, while predicates die. Correct: a predicate's view of
  its operands follows the signals; a callback runs exactly when the formula
  becomes true, once, and a `Predicate_1or2and3` stays silent on a second OR.
* **The program.** Three threads and no lock; the address of the subscriber is a
  variable shared by all requests. Correct: an e-mail means that the formula
  holds, goes to who asked, and no object is used by two threads at once.
* **Parser.** Rules of nested start conditions overlap and the longest match
  wins; a stack of conditions and the values read outlive an unfinished
  declaration. Correct: the triggers and logs of a good file are the products of
  its lists, in order, whatever file came before; damage costs nothing in front
  of it; the lexer always reaches the end of the file.
* **Providers.** Differences of unsigned counters wrap, two readings may lie in
  the same tick, the clock may be set back, a call or a line may fail. Correct:
  a usage is that of its own interval, and what went wrong in one reading does
  not spoil the next.
* **SMTP client.** The whole dialogue is written without reading a reply; writes
  throw; the object may be used again after either. Correct: lines of one
  letter, in order; the result says if it was written; only a peer that keeps
  the connection open and neither replies nor takes what is written holds the
  caller.
* **HTTP server.** A timer may expire while the completion it guards is under
  way; `stop` and destruction come from another thread. Correct: no operation
  waits without a limit; every request ends unless its client sends on for ever;
  a destructor has the server to itself; a stopped server serves nobody.

`PROJECT.json` lists these hazards at their lines, with the properties that
cover them.

## The modules

| module | models | used by |
|---|---|---|
| `ResourceStates` | the values, comparison and means | `SamplingManager` |
| `TriggerAlarm` | what the sampling manager promises its callbacks, without a counter | `SamplingManager`, which implements it |
| `SamplingManager` | the poller and the owner of the sampling manager | `Monitor` |
| `PredicateEngine` | the engine and the predicates | `Monitor` |
| `Monitor` | `main`, the handlers, the threads together | |
| `ConfigurationGrammar` | how declarations are written and what they mean | `ConfigurationParser` |
| `ConfigurationParser` | the lexer's rules, several parsers of one process | |
| `CounterReadings` | unsigned counters, differences, doubles | the two providers |
| `LinuxResProvider`, `WindowsResProvider` | constructor and getters | |
| `SMTPClient` | one client, its network and peer | |
| `ScopeRunner` | the atomic count | `HTTPServer` |
| `HTTPServer` | connections, timers, clients, start, stop and destruction | |
| `MC...` | values of the constants for TLC | |
| `SamplingManagerProofs`, `PredicateEngineProofs`, `MonitorProofs`, `LinuxResProviderProofs`, `WindowsResProviderProofs`, `SMTPClientProofs`, `HTTPServerProofs`, `ConfigurationParserProofs` | theorems | `MonitorProofs` instantiates the first two; `HTTPServerProofs` also holds those of `ScopeRunner` |

Definitions marked *Mutant* in a comment are alternatives no specification
uses: each is a plausible mistake in the definition next to it, and
`PROJECT.json` names the property TLC must then find violated.

### ResourceStates

A state is a record with the fields of the class; a trigger and a log type are
the records of `configrawdata.hpp`. `Exceeds(s, t)` is `operator>`: the CPU
compares percentages, the disk the larger of its two bandwidths in MB or GB, and
the memory a share of `totalRamMB` for percentages but `totalRamMB` itself for MB
and GB, as `RamState.cpp:72` does. `UnitAsserted` is the assertion at the head of
`operator>`. `LogKey` is what equality of `LogType` compares: the resource and
the resolution. A percentage is compared by multiplying out, and a mean is
a fraction, a record of numerator and denominator, so that the division
inside the loop of `getCpuSamplesMean` is modelled exactly (`SamplesMean`).

Abstracted: a `double` is a rational. When the total of the memory is unknown the
percentage is -1, as in `RamState.cpp:28`: under every threshold.

### SamplingManager

The steps of the poller follow `pollingFunction`: `Sample` (one reading per
resource, pushed on the buffers), `ProcessTrigger(t)` for each trigger in the
iteration order of the map (`order`, chosen in `Init`), `CallReturns` for each
callback it makes, `ProcessLogs`, `AfterPoll`, `BreakOrSleep`, `LeaveLoop`,
`PollerReturns`; `AbortOnUnit` is a failing assertion. The owner's are
`StartSampling`, `StopSampling` with `JoinReturns`, `Destroy`, and
`WaitForEndOfSampling`, the join that the tests' subclass makes. Assigning a
thread to a joinable one, and destroying a joinable one, set `process` to
"terminated".

`AfterPoll` calls `afterPollCallback`, which a subclass may use to clear
`isSampling` (`SelfStop`), as the tests do. History variables, which no guard
reads except the bound: `polls`, `run` (how many consecutive samples have
exceeded a trigger), `fires` (activations in that run) and `selfStopped`.
`MaxPolls` bounds `polls`.

`TriggerAlarm` is the promise behind `processTriggers`: how many of the newest
samples in a row exceed a trigger (`held`), which triggers have not been reported
since the last poll (`owed`), and the callbacks of a report. `Due` says what
a trigger is owed: an activation when the streak is a positive multiple of its
duration, and nothing else; with duration 0 the pair of calls the code makes for a
sample that does *not* exceed. `SamplingManager` implements it with `run` for `held`
and `pending` for `owed` (`AlarmImplemented`): the counters of `triggerStates`, the
phases of the loop, stops, joins and restarts are all stuttering to it.

Atomic steps: a whole `Sample` and a whole `ProcessLogs` are one step, since the
poller is the only writer of that data and this module has no reader of it;
`Monitor` adds the reader.

### PredicateEngine

`MakePredicate`, `AddPredicate`, `Release` (the last `shared_ptr` goes),
`Signal` (a call of `triggerActivation` or `triggerDeactivation`), and one step
per element of the vector: `SkipExpired`, `Deactivate` or `Activate`, then
`EndOfWalk`. `Activate` is the whole of `Predicate::activate`, with
`isPredicateSatisfied` and its `lastSatisfied`. History: `active` (the last
signal of a trigger), `heard` (signals sent since a predicate was added),
`fired` (callbacks since the formula was last false), `calledBack` (callbacks in
this walk). `MaxSignals` bounds the signals. `AddPredicate` is disabled on the
vector being walked: that is a data race, and `Monitor` makes it one.

### Monitor

Instantiates both over variables of the same names. A call the sampler queues in
`calls` becomes `BeginCall` (`Signal` of the engine), a number of `WalkOn`, and
`EndCall`, which is `EndOfWalk` and `CallReturns` together. A callback enters
`sendEmail` (`mailing`) and leaves by `MailReturns`, delivered or not, or by
`MailThrows`: the outcomes of `SMTPClient`, whose dialogue is not unfolded here.
Before `Connect`, calls go to the callback `main` gave (`DefaultCallback`). The
server thread does `SetEmail`, `TriggerChoose` and `AddChosen`, `GetLogs` and
`EndGetLogs`. A step of one thread on an object another is using,
`AddDuringWalk`, `ConnectDuringCall`, `ProcessLogsDuringRead`, sets `raced`, and
the behaviour is followed no further: after a data race C++ gives no meaning to
the rest. (An insertion of a new trigger in the engine's map while another is
being looked up is a race too; both are inside one step here.) `main` never
stops the sampler and its server never returns, so the sampler's shutdown steps
are not part of `Poll`; the units of the triggers are assumed to be those the
states accept, since the others end the process in the first poll (run
`sampling_bad_unit`).

### ConfigurationGrammar and ConfigurationParser

A text is a sequence of symbols: keywords, units, brackets, single blanks and
newlines, numbers. `ConfigurationGrammar` writes declarations down (`Line`,
`Text`) and says what they mean (`TriggersOf`, `LogsOf`: every pair of their two
lists), with no reference to the lexer. `ConfigurationParser` is the lexer:
`Rules` is the list of the rules of `configparser.l` in their order, each with
the start conditions it is active in (the conditions are inclusive and nested,
so a rule of a list is active in the declaration as well), its patterns and its
action. One step is one match: `Found` is every match of an active rule,
`Winners` the longest, earliest one, and `Match` its action, with
`yy_push_state` and `yy_pop_state`; taking from an empty stack ends the process.
Rules that match one letter make a keyword no rule expects fall to pieces, of
which `Letters` keeps those that matter; `Echo` is the default rule.
`NewParser` makes a lexer with a new stack and clears the results, and nothing
else: what a damaged file left in the lists is still there.

### CounterReadings, LinuxResProvider, WindowsResProvider

A getter is one step, since only the poller calls them, and takes what the machine
did since the call before as its parameters: steps of the processor's counters,
of the process's times, of the disk's and the process's traffic, of the clock,
and whether the calls it makes succeed. Counters are unsigned numbers below
`Word`; `Minus` wraps like the code's subtraction. A quotient is kept as its two
terms, and division by zero gives NaN or an infinity as for doubles. `Unset`
members and readings made of them are `Undefined`. `getSystemCpuUsage`,
`getSelfCpuUsage`, `Rate`, `SectorBytes` and `RamState` are the formulas of the
Linux code; on Windows a failed disk call returns early (`getHddSelfUsage`,
`getHddSystemUsage`) and `initHddUsage` stops at its first failure. `truth`
and `since...` are history: what really happened in the interval.

### SMTPClient

`sendEmail` stores the letter and runs the `io_service`; `handleResolve`,
`handleConnect`, `handleRead` are its handlers, `writeLine` and `writeLineFails`
the turns of the dialogue inside `handleConnect`, `RunReturns` the end of `run`.
The resolver and the network answer (`NetworkAnswers`), the peer may reply, may
close and may do neither. Writing is blocking: `writeLine` is possible whenever
a line is left, but nothing says that an open connection ever takes it.
`sendEmail` may be called again after it returned, when the `io_service` is
stopped and nothing is run, or after it threw, when the read of the call before
is still in progress.

### ScopeRunner and HTTPServer

`ScopeRunner` has a step for each atomic access: `Load`, `Enter` or `Retry` (a
failed exchange, spurious or not), `Refuse`, `Leave`, `RunnerStop`. `HTTPServer`
extends it with the one thread the program gives the server (`Threads` is
`{Io}`). A connection is one record: the asynchronous operation that holds its
session, what it came to, the socket, the timer, and the handlers of expired
timers that have not run yet. The thread calls the handler of a completed
operation (`Begin`, which cancels the timeout), tries to enter a scope
(`Locking`, or `Refused`), and does the handler's work in one step (`Accepted`,
`HeadRead`, `ContentRead`, `ChunkLineRead`, `ChunkRead`, `Answered`,
`RefusalSent`); the sets `After...` are what it may make of its connection:
another read, a response that the deleter sends, a refusal of a large payload,
or nothing, which gives the session up. `TimedOut` closes the socket, whatever
uses it by then. Clients connect, send, receive and hang up. The owner does
`Start`, `Stop` and the destructor in three steps (`Destroy`, `HaltRunner`,
`DestroyOn`), with an `io_service` of the server's own or one it was given. A
connection that no operation, timer or handler holds is deleted and its record
free again (`Settle`).

The code makes connection objects without limit. The model has `Connections`,
and bounds the environment in place of the server: a client connects and the
owner starts the server only while a record is left for the accept that follows
(`Room`), so the handler of an accept always finds one, as it does in the code.
How often the owner starts and stops, how many requests follow each other on a
connection and how many chunks a request has is not bounded.

What a request is, is abstracted to six kinds: with no content, without
resource, malformed, large, with a content and chunked; each with or without
another to follow, and with a resource function that throws or does not.
`Requests` says which of them the clients of each connection may send.

## The runs

| run | instance | checks |
|---|---|---|
| `sampling_base` | three triggers of durations 2, 3 and 0, four logs over three resources (resolutions 0, 1 and 2), start, stop, self-stop, join and destruction at every point, 5 polls | `TypeOK`, `ActivationsPerRun`, `AlarmImplemented`, `LogCadence`, `WindowFull`, `NoTerminate`, `StopReturns` |
| `sampling_bad_unit` | a CPU trigger in MB among others | `BadUnitEndsFirstPoll`: the process ends in its first poll in every order of the map |
| `engine_base` | one predicate of any class, three triggers, operands that may coincide, 7 signals, symmetry of the triggers | `TypeOK`, `StateFollowsSignals`, `SatisfiedHasFiredUnlessStale`, `OneCallbackPerSignal`, `CallbackOnlyIfSatisfied`, `SecondOrSilent` |
| `engine_stale_or` | one `Predicate_1or2and3`, 6 signals | violates `SatisfiedHasFired` |
| `monitor_base` | two triggers (durations 0 and 2, the first deactivated too), one log, one predicate of any class, operands that may coincide, one client, 5 polls | `TypeOK`, `MailAtEndOfPeriod`, `SatisfiedHasMailed`, `CallsReturn` |
| `monitor_stale_trigger` | two triggers (durations 1 and 2), one predicate | violates `MailMeansFormulaHolds` |
| `monitor_two_clients` | two clients, one predicate | violates `MailGoesToSubscriber` |
| `parser_base` | seven declarations in every spelling; files of one or two, without the last newline, with any one symbol of the last declaration left out or repeated; processes that parse a second file | `TypeOK`, `GoodFilesMeanWhatTheySay`, `LastLineNeedsItsNewline`, `DamageOnlyAfter`, `BackToInitial`, `EveryFileIsRead` |
| `linux_base` | counters of eight values that start at both ends, clock standing, going on and set back, disk there or gone, 3 readings | `TypeOK`, `CpuOfThisInterval`, `SelfCpuOfThisInterval`, `RateOfThisInterval`, `UndefinedOnlyWithoutSda` |
| `windows_base` | the same with every call failing or not | `RateSinceLastGood`, `UndefinedOnlyOnce`, `SelfCpuOfThisInterval` |
| `smtp_base` | two letters with one and two recipients, two calls | `OneLetterInOrder`, `ReturnMeansWritten`, `OnlyASilentPeerHoldsTheCaller` |
| `server_base` | three connections, a chunked request whose chunks may never end on the first, one with a content whose resource throws or one that is too large on the second, nothing sent on the third, any number of requests and starts, one handler of an expired timer per connection | `CountsTheScopes`, `TimeoutGuardsEveryWait`, `StoppedServesNobody`, `EveryRequestEnds` |

**Bounds.** Five polls let a trigger of duration 2 fire twice and one of
duration 3 fire once and be counting again, every buffer wrap around, and a stop
and restart happen in each phase of a poll. Two readings per resource, one that
exceeds and one that does not, are all the counters can tell apart. Seven
signals over three triggers reach every truth assignment of three operands, the
second OR operand after a satisfaction, and a deactivation and reactivation
after that; the predicates of the engine do not influence each other, so one is
enough for what is said of each. Five polls in `Monitor` let a two-second
trigger last, break off and last again, which is what it takes to find a memory
that a deactivation has made stale (`Rearmed` mutated), with the predicate added
before, between and after. The lexer keeps nothing from one declaration to the
next but what the second one of a file shows, and from one file to the next but
what a second file shows; the declarations between them use every rule. A
provider keeps one reading, so three readings reach every pair of good and bad
ones after the constructor; `Word = 8` lets every counter wrap in one step. Two
calls of `sendEmail` meet each end of the first, and the letters differ in their
number of recipients. Three connections are two clients in service and a third
waited for, or served while nobody else can be; they are not alike, because what
their clients send is the part of the state that multiplies. `EveryRequestEnds`
speaks of the connections whose clients send something (`Senders`). The kinds
the run leaves out (no content, no resource, malformed) answer or give up where
the chunked request and the throwing resource do after their last read; the
proofs have all of them. Where a proof exists the bound does not matter.

**Deadlock** is not checked: polls, signals, readings and calls are bounded, and the
program really stops after an abort, a termination or the destruction of the
manager or the server; a lexer is done at the end of its last file.

### What the violations show

1. `engine_stale_or`: `lastSatisfied` survives a deactivation and suppresses the
   next callback (`PredicateTypes.cpp:19`).
2. `monitor_stale_trigger`: no trigger of positive duration is ever deactivated,
   since its counter is back at 0 when `processTriggers` asks whether it reached
   the duration (`SamplingManager.cpp:147`); a predicate is satisfied by
   operands that held at different times. The run: the first trigger is
   activated in poll 1; in poll 2 `processTriggers` visits it, finds that it
   does not exceed and calls nothing, then activates the second, and the
   predicate of both mails. A trigger `processTriggers` has not come to in the
   poll is not held against the code, so the order inside one poll plays no
   part: a deactivation of every trigger that does not exceed, in place of the
   test at line 147, satisfies the property on this instance. (1 and 2 hide each
   other: while deactivations never come, which `NeverDeactivated` proves,
   `lastSatisfied` is never stale, and what `engine_stale_or` shows of the
   engine alone does not happen in the program: `SatisfiedHaveMailed`.)
3. `monitor_two_clients`: one pair of name and address for all clients
   (`main.cpp:95`).

### Behaviour worth knowing that no run states as a claim

The modules have these as the code has them, and no property contradicts them.

* Memory thresholds in MB and GB look at the installed memory, not the used
  (`RamState.cpp:72`).
* Logs that differ in duration only share the buffer of the last declared
  (`SamplingManager.cpp:65`, `configrawdata.hpp:72`).
* The running sum of a mean is divided in every turn of the loop
  (`SamplingManager.cpp:226`): with one sample or two that makes no difference,
  from three on (the example configuration has 15 s, 30 s and 5 m) what is
  logged is not the mean. `SamplesMean` does what the code does, and no property
  is claimed of it.
* `stopSampling` does not join when the poller stopped by itself, and the
  destructor then destroys a joinable thread (`SamplingManager.cpp:26`);
  `NoTerminate` excludes that case.
* A trigger of duration 0 fires for samples that do *not* exceed: the counter is
  compared with the duration after its reset to 0 (`SamplingManager.cpp:151`,
  `:165`). `TriggerAlarm!Due` says what such a trigger gets.
* A predicate that names a trigger twice is registered twice and calls back
  twice for one signal (`PredicateEngine.hpp:28`), so `OneCallbackPerSignal`
  speaks of the others.
* The engine's vectors, the callbacks and the buffers of the logs are used by
  two threads without a lock: `AddDuringWalk`, `ConnectDuringCall` and
  `ProcessLogsDuringRead` of `Monitor` happen.
* Values and durations a damaged file left behind become part of the first
  declaration of the next file (`resetLexer`, `flex.hpp:176`, clears the
  results; `clearHelperVectors`, `flex.cpp:30`, has no caller). That is why the
  properties of the parser speak of files that follow good ones (`Fresh`).
* Without `sda` in `/proc/diskstats` the disk usage is whatever two
  uninitialised variables hold (`LinuxResProvider.cpp:47`). On Windows a time of
  day set back gives a tiny usage and no -1, and a failed PDH value is used.
* `mHasError` is never initialised: `true` from `sendEmail` says little. Only
  the first endpoint of a name is tried. A write that fails ends the monitor,
  and the predicates behind in the walk never get the signal.
* A resource function that throws leaves an empty response: the client waits
  until the server gives up on its next request. An expired timer whose handler
  has not run yet closes the connection of the request after the one it timed,
  which `EveryRequestEnds` counts as an end. A client that sends chunk after
  chunk keeps its connection for ever, since the timeout starts anew with each
  (`server_http.hpp:518`, `:550`).
* After `stop` on an `io_service` that was given, an accept that had completed,
  well or not, accepts again, fails at once, and so on until the server is
  destroyed (`server_http.hpp:708` tests for an aborted operation only).

### Fairness

`SamplingManager!FairSpec`: weak fairness of the poller's steps and of the
owner's return from `join`; the poller is a thread the system schedules and
every step of it is enabled until taken. Starting and stopping is the owner's
choice. `StopReturns` rests on it. `Monitor!FairSpec`: weak fairness of the
poller while it is not in `sendEmail`. That `sendEmail` lets go is a premise of
`CallsReturn`, since a peer may do nothing for as long as it likes and the code
sets no limit. No fairness is assumed of clients or mail servers.

`ConfigurationParser!Spec`: weak fairness of the lexer, which is one thread.
`SMTPClient!Spec`: weak fairness of the client's handlers, of the resolver and
the network (a connection attempt ends, if only by the system's own limit) and
of a write on a connection that is closed (it fails, `WriteOnClosed`); none of
the peer nor of a write on an open connection, since `boost::asio::write`
(`smtp_client.hpp:70`) has no limit of its own. So
`OnlyASilentPeerHoldsTheCaller` says: the caller comes back, or from some point
on it waits for the reply, or for the peer to take a line, on a connection that
stays open.

`HTTPServer!Spec`: weak fairness of the steps of a handler (`InHandler`), weak
fairness of each timer's expiry, and for each connection strong fairness of the
start of its handlers, because the queue of an `io_service` is served in turn:
`Begin` and `TimedOut` are disabled while another handler runs, and enabled
again after it. A compare-exchange that fails for no reason (`Retry`) changes
nothing, so the fairness of `InHandler` says that it does not fail for ever.
None of clients, `Start`, `Stop` or destruction.

## The proofs

Eight modules hold theorems. Each states what a run checks on its instance for
every value of the constants, under the assumptions named in the module that
declares them, all of which TLC evaluates in the runs. Every argument has the
same shape: an inductive invariant, a lemma that `Init` establishes it, one that
every step keeps it with a lemma or case per action, and a theorem that draws the
property from it.

| module | theorem | says | of |
|---|---|---|---|
| `SamplingManagerProofs` | `TypeCorrect` | `Spec => []TypeOK` | any finite set of triggers, sequence of log types, readings and bound |
| | `ActivationsCorrect` | `Spec => []ActivationsPerRun` | (`TriggersAssumption`, `LogTypesAssumption`, |
| | `AlarmRefined` | `Spec => AlarmImplemented` (`TriggerAlarm`) | `ReadingsAssumption`, `BoundsAssumption`) |
| | `NeverDeactivated` | no call in `calls` deactivates a trigger of positive duration | |
| | `BadUnitStops` | `Spec => []BadUnitEndsFirstPoll` | |
| | `LogCadenceHolds` | `Spec => []LogCadence` | |
| | `WindowFullHolds` | `Spec => []WindowFull` | |
| | `NoTerminateHolds` | `Spec => []NoTerminate` | |
| | `StopNeedsNoPoll` | while the owner joins a poller told to stop, `isSampling` stays clear, no poll begins and `Left` falls | |
| `PredicateEngineProofs` | `TypeCorrect` | `Spec => []TypeOK` | any triggers, predicates, classes and number of signals |
| | `SignalsFollowed` | `Spec => []StateFollowsSignals` | (`EngineAssumption`) |
| | `CallbacksJustified` | `Spec => CallbackOnlyIfSatisfied` | |
| | `OneCallback` | `Spec => []OneCallbackPerSignal` | |
| | `SecondOrStaysSilent` | `Spec => SecondOrSilent` | |
| | `SatisfactionCallsBack` | `Spec => []SatisfiedHasFiredUnlessStale` | |
| `MonitorProofs` | `TypeCorrect` | `Spec => []TypeOK` | any configuration whose units the states accept, any |
| | `SignalsReachPredicates` | `Spec => []Engine!StateFollowsSignals` | predicates and clients (`MonitorAssumption`, |
| | `MailsAreJustified` | `Spec => Engine!CallbackOnlyIfSatisfied` | `SamplerAssumption`, `EngineAssumption`) |
| | `MailsAreOneEach` | `Spec => [](Engine!OneCallbackPerSignal /\ Engine!SatisfiedHasFiredUnlessStale)` | |
| | `PeriodsAreCounted` | `Spec => []Sampler!ActivationsPerRun` | |
| | `LogsKeepCadence` | `Spec => []Sampler!LogCadence` | |
| | `MailEndsPeriod` | `Spec => []MailAtEndOfPeriod` | |
| | `MonitorKeepsAlarm` | the program implements `TriggerAlarm` (`Spec => Sampler!AlarmImplemented`) | |
| | `SatisfiedHaveMailed` | `Spec => []SatisfiedHasMailed` | |
| | `OperandsStayTrue` | an operand of positive duration once true stays true | |
| | `AllThreeIsSilent` | a `Predicate_1or2and3` with three true operands of positive durations never calls back again | |
| | `CallsAdvance` | a call the engine serves is kept to, and `WalkLeft` falls | |
| | `BoundNeverBinds` | `MaxSignals` never keeps a waiting call from being begun | |
| `LinuxResProviderProofs` | `TypeCorrect` | `Spec => []TypeOK` | counters of any width, steps shorter than it |
| | `SystemCpuExact` | `Spec => []CpuOfThisInterval` | (`StepsAssumption`, `SizesAssumption`) |
| | `SelfCpuExact` | `Spec => []SelfCpuOfThisInterval` | |
| | `RatesExact` | `Spec => []RateOfThisInterval` | |
| | `UndefinedNeedsMissingDisk` | `Spec => []UndefinedOnlyWithoutSda` | |
| `WindowsResProviderProofs` | `RatesCoverTheGap` | `Spec => []RateSinceLastGood` | the same, with calls that fail in any order |
| | `UndefinedAtMostOnce` | `Spec => []UndefinedOnlyOnce` | |
| | `SelfCpuKnown` | `Spec => []SelfCpuOfThisInterval` | |
| `SMTPClientProofs` | `LetterInOrder` | `Spec => []OneLetterInOrder` | any letters and number of calls (`LettersAssumption`) |
| | `FalseMeansWritten` | `Spec => []ReturnMeansWritten` | |
| | `SendEmailAdvances` | each step while `sendEmail` runs ends it or lowers `Ahead` | |
| `HTTPServerProofs` | `ScopesCounted` | `RunnerSpec => []CountsTheScopes` | any finite set of threads (`ThreadsAssumption`) |
| | `StoppedForGood` | a count of -1 stays -1 | |
| | `EveryWaitIsTimed` | `Spec => []TimeoutGuardsEveryWait` | any connections, requests and bounds (`ServerAssumption`) |
| | `StopServesNobody` | `Spec => []StoppedServesNobody` | |
| | `ServerCountsTheScopes` | `Spec => []CountsTheScopes` | |
| | `DestructorIsAlone` | past `halt_runner` nobody is in a scope or enters one | |
| `ConfigurationParserProofs` | `TypeCorrect` | `Spec => []TypeOK` | any files (`InputsAssumption`: texts of symbols) |
| | `OutputOnlyGrows` | while a file is lexed, the triggers and logs read are a prefix of those after the step | |
| | `UnderflowOnlyWithoutList` | a step that ends the process finds the stack `<<"INITIAL">>` under the condition of a declaration | |
| | `EveryMatchShortens` | `Spec => [][NextMatch => Remaining' < Remaining]_vars` | |

### SamplingManagerProofs

*TypeCorrect.* `TypeOK` is not inductive as checked: that a buffer stays a sequence
of readings after `PushBack` needs its capacity to be a natural, which rests on
`SamplesCapacity` and `LogCapacity`, two `CHOOSE`s over sets of numbers. The
lemmas `LeastNat`, `GreatestNat` and `BoundedNat` give the least and greatest
elements from the well-foundedness of the naturals, without induction over an
operator, and the capacities follow. The strengthening `TypeInv` adds
`LogsType`: a log is a record whose buffer holds means of samples.

*ActivationsCorrect.* `ActivationsPerRun` is not inductive: a turn of
`processTriggers` compares the last sample, while the property speaks of `run`.
`RunInv` adds that for the triggers not yet visited the last sample exceeds exactly
when `run` is positive (`LatestInv`), that a broken streak has no activations
(`UnfiredInv`), and that triggers are pending in the phase "triggers" only.

*AlarmRefined.* The refinement, step by step. `Sample` is `Poll`: nothing is
pending and no call is left when the loop comes round (`VisitInv`, `CallInv`).
`ProcessTrigger(t)` is `Report(t)`: the counter is what is left of the streak
`run` after the activations made in it, so it reaches the duration exactly when
the streak is a positive multiple of it (`RunInv`, and the division lemmas), and
for duration 0 the reset to 0 comes before the comparison. `CallReturns` is
`Return`; every other step, the owner's included, leaves all three variables
alone. Durations need not be positive.

*NeverDeactivated.* From the refinement: `Due` holds a deactivation for duration
0 only. So the end of a trigger of positive duration never reaches the engine.

*StopNeedsNoPoll.* `Left` counts what a poller has still to do: a turn and two
calls for each trigger not visited, the phases of the loop behind. It is the
decreasing measure under `StopReturns`; what stays with TLC is that fairness
makes the poller take those steps.

*BadUnitStops.* Nothing is logged before the turn of the trigger with the bad unit,
which is pending until then in every order of the map.

*LogCadenceHolds.* `since` and the length of the buffer are both functions of the
number of polls; the step `ProcessLogs` needs how quotient and remainder change
from n to n + 1 (`QuotientUnique`, `DivSuccessor`).

*WindowFullHolds.* The length of a sample buffer is the smaller of the polls made
and its capacity; a log that is due has seen its resolution's worth of polls
(`LogCadence`), and the capacity is at least the resolution.

*NoTerminateHolds.* The invariant relates `owner`, `isSampling` and `poller`:
until a callback stops the sampling by itself, a thread that is joinable is one
that samples or one the owner is joining.

### PredicateEngineProofs

All but `TypeCorrect` rest on the invariant `Registration`: an added predicate
is in the vectors of its operands and in no other, whom the walk has still to
reach was sent the signal of the walk, which is the last of its trigger, and a
predicate that was not added knows nothing.

*SignalsFollowed.* A signal reaches everyone registered, in the walk that starts
with it (`Registered`); a turn of the loop leaves the rest of the vector ahead, and
an early death skips nobody else (`HeadDelivers`).

*CallbacksJustified.* `Activate` evaluates the formula over what the predicate
knows with the trigger of the walk set; both agree with the last signals by the
invariant, and formulas are monotone (`FormulaMonotone`).

*OneCallback.* `OnceInv`: a predicate whose operands differ is once in each vector
and once in what is left of the walk, and one that has been called back is not
ahead any more. That vectors hold it once follows from the order in which
`addPredicate` appends (`DistinctUses`), not from a test in the code.

*SecondOrStaysSilent.* `Remembered`: a `Predicate_1or2and3` that has called back
and has three true operands has `lastSatisfied` set. Deactivations preserve it
because they make operands false, not because they touch the memory.

*SatisfactionCallsBack.* `HasFired`: unless a deactivation was heard, what
`lastSatisfied` remembers has happened, so the early return suppresses only a
second callback. The premise is what `engine_stale_or` shows to be necessary.

### MonitorProofs

The invariants of the two components are used as they stand. `S` and `E` are the
two proof modules over the monitor's variables; the operators of `Sampler` and
`Engine` are the same formulas under other names, and the lemmas `Same...` say so,
action by action. `SamplerStep` shows that every step of the program is a step of
the sampler or one in which the process is lost, `EngineStep` that it is a step of
the engine or leaves it unchanged, so `MonitorInv` contains both
invariants and the steps about one component never reopen the other. What
`Monitor` adds is small: `WalkServes` (a walk is under way only while the poller
serves the call at the head of `calls`, with its trigger and kind) and
`MailInWalk` (`sendEmail` runs for a predicate one of whose operands the walk is
activating).

*MailEndsPeriod* chains them: a letter implies a walk, the walk the call at the
head of `calls`, and the call, by the sampler's invariant, a full period of
exceeding samples. Every step of the program that touches the engine is one of
the engine's operations, so (the lemma `EngineInMonitor`) a theorem about the
engine is one about the program.

*MonitorKeepsAlarm* carries `AlarmRefined` over in the same way, except that the
process may be lost in a call, which is a stutter of `TriggerAlarm`. With
*NeverDeactivated* it settles what the two components do to each other
(`NoDeactivation`): no walk deactivates a trigger of positive duration, so
nobody has heard of one, and the premise of the engine's
`SatisfiedHasFiredUnlessStale` holds of predicates of such triggers
(*SatisfiedHaveMailed*), what a predicate knows of them only grows
(*OperandsStayTrue*), and one with three such operands ends up silent
(*AllThreeIsSilent*). The engine alone has none of the three.

*CallsAdvance.* `WalkLeft` is two for each predicate ahead, less the one that is
past its e-mail. `AddPredicate` on the vector being walked is a race and ends
the behaviour; on any other vector it leaves `walk.rest` alone.
*BoundNeverBinds* is about the composition itself: `Monitor` gives the engine
`MaxSignals`, and a bound that could hold back a call would make every theorem
hold of a program that stops early. `SignalsInv` counts: signals sent, calls
waiting and two for each trigger still pending are at most two a trigger and
poll.

### LinuxResProviderProofs, WindowsResProviderProofs

The members are what the counters were at the last call (`Members`,
`CountedFrom`), so each reading is a difference of a counter and itself some
steps earlier. The lemma `Advanced` (`StepOf` on Windows) says that the unsigned
difference gives back the step whether the counter wrapped or not. On Linux a
wrap is also seen by comparison: a counter that went back is below the step it
made, so the code's -1 appears only when something wrapped in that interval. The
byte counts are products that wrap by themselves; `AdvancedBytes` shows that
wraps in different places cancel when the interval's own bytes fit the width. On
Windows `CountedFrom` also says when a pair of members has values: failed
readings leave them and only let what has gone by grow (`FailedStaysCounted`),
and good ones start over (`NowIsCounted`). An interval longer than the width of
a counter cannot be told from a shorter one; `StepsAssumption` excludes it,
which 64 bits justify. On Windows the clock is never before 1970, since -1
stands for a time never measured.

### SMTPClientProofs

`ClientInv`: what was written, followed by what is still to write, is the script
of the first letter (`WholeLetter`); before the connection nothing was written,
and a later call finds the `io_service` stopped or the read of the first call in
progress, so it never begins a second script (`FirstCallConnects`). A call can
return only with an error set, or when the whole script is written.

*SendEmailAdvances.* `Ahead` counts the operations still to start and to end,
the lines of the script and the one closing of the connection. That the measure
is a number that falls needs `FirstCallConnects`: lines are left only when no
connection is yet to be made, so the script is written once. Left of
`OnlyASilentPeerHoldsTheCaller` is fairness.

### HTTPServerProofs

`RunnerInv` is `CountsTheScopes` with the types of the three variables. The lemmas
say how many threads are inside after a step of one (`OneMoreInside`,
`OneLessInside`, `SameInside`), from the theorems on cardinalities. An exchange of
0 for -1 finds nobody inside, because 0 is then the number of threads inside; a
thread that leaves is inside, so the count is not -1.

`ServerInv` speaks of each connection alone, and `Step(c, d)` collects what
every function of a connection keeps: it sets a timer with each operation, gives
no closed socket a client and makes no accept out of another operation. So a
handler needs only the lemma that its functions are such steps. `StopReaches` is
the strengthening for `stop`: who has an open socket, and whom a pending accept
may still give one, is in the set `connections`, and the acceptor is open.
`Start`, `Stop` and the destructor's steps change the set and the acceptor
together. The lemma `ServerImplementsRunner` shows each step to be one of the
runner's, so `ScopesCounted` holds of the server without another proof.

### ConfigurationParserProofs

Nothing is known here of where a match ends but that it lies in the text
(`MatchEnds`); every lemma holds whatever the active rules match. `RulesType`
puts the whole table of rules into `RuleSet`: which argument goes with which
action, and that only `Skip` and the opening of a declaration are active in
`INITIAL`. So an action that pops has a condition under it (`NotEmpty`), a
condition that is pushed on `INITIAL` is that of a declaration (`PushNests`),
and one pop never underflows; two do only with one condition left (`PopNests`).
`TypeOK` holds the nesting of the conditions because the types of the rules'
actions depend on it. Each action then has a lemma with the conclusion `StepOK`:
types, prefix and exit at once. `CrossType` is the cross product's index
arithmetic: quotient and remainder stay inside the two lists.

*EveryMatchShortens.* `Remaining` is the number of symbols left, and three more
for each keyword of which a rule may take the first letter alone, since it has
up to four. It needs no knowledge of the fold that finds where a match ends,
since every winner is longer than nothing and lies in the text; a keyword that
falls to pieces leaves fewer letters than it had. Only what is left of
`EveryFileIsRead` is fairness: that a lexer which can match does.

### Only model-checked

* Liveness: `StopReturns`, `CallsReturn`, `EveryRequestEnds`,
  `OnlyASilentPeerHoldsTheCaller`, `EveryFileIsRead`. Fairness is out of the
  prover's reach. The measures that fall under four of them are proved:
  `StopNeedsNoPoll`, `CallsAdvance`, `SendEmailAdvances` and
  `EveryMatchShortens`.
* What a file means: `GoodFilesMeanWhatTheySay`, `LastLineNeedsItsNewline`,
  `DamageOnlyAfter`, `BackToInitial`. Where a match ends, and so which rule
  wins, is computed by a fold over the pattern, and the text of a declaration by
  folds over its lists; what a fold computes for every input needs induction
  over data. Proved of `DamageOnlyAfter` is the half no fold decides: nothing
  read is taken back.
* The three properties the code violates (`SatisfiedHasFired`,
  `MailMeansFormulaHolds`, `MailGoesToSubscriber`).

## Not modelled

* The scanner runtime: the buffers of the generated lexer under the rules; the
  model's text is the whole stream.
* Of the providers: files that cannot be opened (the code passes the null
  pointer on), lines longer than its buffers, numbers that `stoll` refuses.
* Of the HTTP server: more than one thread, `on_upgrade`, responses kept beyond
  their handler, pipelined requests, the text of headers and query strings
  (`utility.hpp` apart from `ScopeRunner`, and the table of `status_code.hpp`,
  which keep no state).
* Base64 in the SMTP client; the parsing of the query string in `main.cpp`; the
  page.
* The unused vendored headers: `client_http.hpp`, `client_https.hpp`,
  `server_https.hpp`, `crypto.hpp`. No code of the program uses them; `main.cpp`
  includes the first and calls nothing of it.
* Printing and logging. Memory effects of races: a race ends the behaviour.

## Plan

Done: all modules above, and proofs of every safety and action property and
refinement the passing runs check, apart from what a file means to the parser;
and of the decreasing measures of four of the five liveness properties.

1. `SMTPClient` composed with `Monitor` in place of `MailReturns` and
   `MailThrows`.
2. A measure for a request of `HTTPServer`: what takes a waiting request nearer
   to its answer or to the loss of its connection. Only the chunks of a request
   raise it: one whose chunks never end renews its timeout with each.
