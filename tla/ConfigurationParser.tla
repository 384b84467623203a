------------------------ MODULE ConfigurationParser ------------------------
(***************************************************************************)
(* ConfigurationParser.hpp and the rules of the lexer compiled from        *)
(* configparser.l (library_src/flex.cpp).  A process makes one parser per  *)
(* input stream; the lexer object, with its start condition and its stack  *)
(* of conditions, is new each time, but everything a declaration is put    *)
(* together from (the current time, the value read last, the open lists)   *)
(* is global to the process.                                               *)
(*                                                                         *)
(* One step is one match of the lexer: the active rule with the longest    *)
(* match, the earliest of these, and its whole action.  The start          *)
(* conditions are inclusive and the rules of a nested condition belong to  *)
(* the enclosing one as well.                                              *)
(***************************************************************************)
EXTENDS Integers, ConfigurationGrammar

CONSTANT Inputs      \* the sequences of files a process may be given

ASSUME InputsAssumption ==
  \A files \in Inputs :
    Len(files) \in Nat /\ \A i \in 1 .. Len(files) : files[i].text \in Seq(Symbol)

VARIABLES
  inputs,            \* the files of this process: [text, good, ended, means] each
  phase,             \* "idle" between two parsers, "lexing", "exited" by a fatal error
  text,              \* what the current lexer has not matched yet
  condition, stack,  \* yy_start and the stack of start conditions
  elapsed,           \* currentDurationTime
  element,           \* lastReadDurationElement
  trigger,           \* currentTriggerType: its resource and fluctuation
  value,             \* currentResourceValue
  values, durations, \* triggerResourceValues, triggerDurationTimes
  logResource,       \* currentLogType.resource
  logDurations, logResolutions,
  triggers, logs,    \* triggerTypes, logTypes
  results            \* what each parser that ran to its end produced

lexer   == <<condition, stack>>
timing  == <<elapsed, element>>
current == <<trigger, value, logResource>>
lists   == <<values, durations, logDurations, logResolutions>>
output  == <<triggers, logs>>
vars    == <<inputs, phase, text, lexer, timing, current, lists, output, results>>

-----------------------------------------------------------------------------
(* Patterns: symbols, each taken once, some times or any number of times.  *)

One(s)  == [sym |-> s, least |-> 1, many |-> FALSE]
Plus(s) == [sym |-> s, least |-> 1, many |-> TRUE]
Many(s) == [sym |-> s, least |-> 0, many |-> TRUE]

Word(w)    == {<<One(w), Plus("ws")>>}                             \* cpu{ws}+
Opening(w) == {<<One(w), Plus("ws"), One("{"), Many("ws")>>}        \* over{ws}+"{"{ws}*
LastWord   == <<Many("ws"), One("last")>>
LastFor    == LastWord \o <<One("ws"), One("for")>>
Item(s)    == {<<Many("ws"), One(s)>>}                              \* {ws}*"s"
Spaced(s)  == {<<Many("ws"), One(s), Plus("ws")>>}                  \* {ws}*"%"{ws}+
Between(s) == {<<Many("ws"), One(s), Many("ws")>>}                   \* {ws}*","{ws}*
\* Mutant: the bracket ends a declaration only with its newline.
ClosingLine == {<<Many("ws"), One("}"), Many("ws"), Plus("nl")>>}

Closing    == {<<Many("ws"), One("}"), Many("ws"), Many("nl")>>}
Digits     == {<<One("number")>>}
BlankOrEnd == {<<Many("ws")>>, <<Many("nl")>>}                       \* {ws}*|\n*

(* Positions in the text count half symbols: an odd one is behind the      *)
(* first letter of a keyword.  -1 is no match.                             *)
Begins(atom, s) == atom.sym # s /\ Head(Letters(atom.sym)) = s

Reach(p, e) ==
  LET k == p \div 2
      Run(j) == \A i \in k + 1 .. j : text[i].sym = e.sym
  IN IF p % 2 = 1 THEN {}
     ELSE {2 * j : j \in {i \in k + e.least .. Len(text) : (e.many \/ i = k + 1) /\ Run(i)}}
            \cup {q \in {p + 1} : k < Len(text) /\ Begins(text[k + 1], e.sym)}

(* The ends a match of a pattern, or of one of several, at the start of    *)
(* the text can have.                                                      *)
PatternEnds(pattern) ==
  LET Step(P, e) == UNION {Reach(p, e) : p \in P}
  IN FoldLeft(Step, {0}, pattern)

MatchEnds(patterns) ==
  (0 .. 2 * Len(text)) \cap UNION {PatternEnds(pattern) : pattern \in patterns}

-----------------------------------------------------------------------------
(* The rules, earliest first: where active, what they match, and the       *)
(* action taken with its argument.                                         *)

Rule(conditions, patterns, action, arg) ==
  [in |-> conditions, like |-> patterns, action |-> action, arg |-> arg]

ResourceRules(env, action) ==
  <<Rule({env}, Word("cpu"), action, "cpu"), Rule({env}, Word("memory"), action, "memory"),
    Rule({env}, Word("disk"), action, "disk")>>

FluctuationRules ==
  LET In == {"triggerEnv"} IN
  <<Rule(In, Opening("under"), "PushValues", <<"under", "resourceSetEnv">>),
    Rule(In, Word("under"), "PushValues", <<"under", "resourceSingleNoEnv">>),
    Rule(In, Opening("over"), "PushValues", <<"over", "resourceSetEnv">>),
    Rule(In, Word("over"), "PushValues", <<"over", "resourceSingleNoEnv">>)>>

ValueSetRules ==
  LET In == {"triggerEnv", "resourceSetEnv"} IN
  <<Rule(In, Digits, "ReadValue", ""), Rule(In, Item("%"), "SetUnit", "%"),
    Rule(In, Item("mb"), "SetUnit", "mb"), Rule(In, Item("gb"), "SetUnit", "gb"),
    Rule(In, Between(","), "NextValue", ""), Rule(In, Between("}"), "EndValues", "")>>

SingleValueRules ==
  LET In == {"triggerEnv", "resourceSingleNoEnv"} IN
  <<Rule(In, Digits, "ReadValue", ""), Rule(In, Spaced("%"), "SingleValue", "%"),
    Rule(In, Spaced("mb"), "SingleValue", "mb"), Rule(In, Spaced("gb"), "SingleValue", "gb")>>

LastRules ==
  LET Ways(end) == {LastWord \o end, LastFor \o end}
  IN <<Rule({"triggerEnv"}, Ways(<<Plus("ws"), One("{"), Many("ws")>>), "Push", "triggerDurationSetEnv"),
       Rule({"triggerEnv"}, Ways(<<Plus("ws")>>), "Push", "triggerDurationSingleNoEnv")>>

(* A number and its units add up to a duration, in every list of them.     *)
DurationRules(In) ==
  <<Rule(In, Digits, "ReadElement", ""), Rule(In, Item("s"), "AddElement", "s"),
    Rule(In, Item("m"), "AddElement", "m"), Rule(In, Item("h"), "AddElement", "h"),
    Rule(In, Item("d"), "AddElement", "d")>>

TriggerDurationSetRules ==
  LET In == {"triggerEnv", "triggerDurationSetEnv"} IN
  DurationRules(In) \o <<Rule(In, Between(","), "NextDuration", "trigger"),
                         Rule(In, Closing, "EndTrigger", "")>>

TriggerDurationRules ==
  LET In == {"triggerEnv", "triggerDurationSingleNoEnv"} IN
  DurationRules(In) \o <<Rule(In, BlankOrEnd, "EndTrigger", "")>>

LogForRules ==
  <<Rule({"logEnv"}, Opening("for"), "Push", "logDurationSetEnv"),
    Rule({"logEnv"}, Word("for"), "Push", "logDurationSingleNoEnv")>>

LogDurationSetRules ==
  LET In == {"logEnv", "logDurationSetEnv"} IN
  DurationRules(In) \o <<Rule(In, Between(","), "NextDuration", "log"),
                         Rule(In, Spaced("}"), "EndLogDurations", "")>>

LogDurationRules ==
  LET In == {"logEnv", "logDurationSingleNoEnv"} IN
  DurationRules(In) \o <<Rule(In, {<<Plus("ws")>>}, "EndLogDurations", "")>>

ResolutionRules ==
  <<Rule({"logEnv"}, Opening("resolution"), "Push", "logResolutionSetEnv"),
    Rule({"logEnv"}, Word("resolution"), "Push", "logResolutionSingleNoEnv")>>

LogResolutionSetRules ==
  LET In == {"logEnv", "logResolutionSetEnv"} IN
  DurationRules(In) \o <<Rule(In, Between(","), "NextDuration", "resolution"),
                         Rule(In, Closing, "EndLog", "")>>

LogResolutionRules ==
  LET In == {"logEnv", "logResolutionSingleNoEnv"} IN
  DurationRules(In) \o <<Rule(In, BlankOrEnd, "EndLog", "")>>

Conditions == {"INITIAL", "logEnv", "triggerEnv", "resourceSetEnv", "resourceSingleNoEnv",
               "triggerDurationSetEnv", "triggerDurationSingleNoEnv", "logDurationSetEnv",
               "logDurationSingleNoEnv", "logResolutionSetEnv", "logResolutionSingleNoEnv"}

StartRules ==
  <<Rule(Conditions, {<<Plus("ws")>>}, "Skip", ""), Rule(Conditions, {<<Plus("nl")>>}, "Skip", ""),
    Rule(Conditions, Word("log"), "Push", "logEnv"),
    Rule(Conditions, Word("trigger"), "Push", "triggerEnv")>>

Rules ==
  ResourceRules("triggerEnv", "TriggerResource") \o FluctuationRules \o ValueSetRules
    \o SingleValueRules \o LastRules \o TriggerDurationSetRules \o TriggerDurationRules
    \o ResourceRules("logEnv", "LogResource") \o LogForRules \o LogDurationSetRules
    \o LogDurationRules \o ResolutionRules \o LogResolutionSetRules \o LogResolutionRules
    \o StartRules


(* Every match of an active rule; rule 0 is the default rule.              *)
Found ==
  {[end |-> 0, rule |-> 0]} \cup
    UNION {{[end |-> p, rule |-> r] : p \in MatchEnds(Rules[r].like)} :
             r \in {q \in DOMAIN Rules : condition \in Rules[q].in}}

(* The longest match wins and the earliest rule of that length; a rule     *)
(* that would match nothing leaves the text to the default rule.           *)
Winners(found) ==
  {m \in found : \A o \in found : m.end > o.end \/ (m.end = o.end /\ m.rule <= o.rule)}

Rest(p) ==
  LET k == p \div 2 IN
  IF p % 2 = 0 THEN SubSeq(text, k + 1, Len(text))
  ELSE [i \in 1 .. Len(Letters(text[k + 1].sym)) - 1 |-> Sym(Letters(text[k + 1].sym)[i + 1])]
         \o SubSeq(text, k + 2, Len(text))

Matched(m, action) ==
  /\ m.rule > 0
  /\ Rules[m.rule].action = action
  /\ text' = Rest(m.end)

Arg(m) == Rules[m.rule].arg

yy_push_state(env) == stack' = Append(stack, condition) /\ condition' = env

(* Taking the condition off the stack; doing so with an empty stack ends   *)
(* the process.                                                            *)
yy_pop_state(times) ==
  IF Len(stack) < times
    THEN phase' = "exited" /\ UNCHANGED lexer
    ELSE /\ condition' = stack[Len(stack) + 1 - times]
         /\ stack' = SubSeq(stack, 1, Len(stack) - times)
         /\ UNCHANGED phase

(* What is left alone by nearly every action.                              *)
Process == UNCHANGED <<inputs, results>>
Lexing  == Process /\ UNCHANGED phase

-----------------------------------------------------------------------------
Init ==
  /\ inputs \in Inputs
  /\ phase = "idle" /\ text = <<>>
  /\ condition = "INITIAL" /\ stack = <<>>
  /\ elapsed = 0 /\ element = 0
  /\ trigger = [resource |-> "cpu", fluctuation |-> "under"]
  /\ value = [n |-> 0, unit |-> "%"] /\ logResource = "cpu"
  /\ values = <<>> /\ durations = <<>> /\ logDurations = <<>> /\ logResolutions = <<>>
  /\ triggers = <<>> /\ logs = <<>> /\ results = <<>>

(* A new ConfigurationParser on the next stream: a new lexer, and run()    *)
(* clears the two result vectors only.                                     *)
NewParser ==
  /\ phase = "idle" /\ Len(results) < Len(inputs)
  /\ phase' = "lexing" /\ text' = inputs[Len(results) + 1].text
  /\ condition' = "INITIAL" /\ stack' = <<>>
  /\ triggers' = <<>> /\ logs' = <<>>
  /\ UNCHANGED <<inputs, timing, current, lists, results>>

(* The end of the stream ends run(), which copies the vectors.             *)
EndOfFile ==
  /\ phase = "lexing" /\ text = <<>>
  /\ phase' = "idle"
  /\ results' = Append(results, [triggers |-> triggers, logs |-> logs])
  /\ UNCHANGED <<inputs, text, lexer, timing, current, lists, output>>

\* Mutant: the default rule does not advance.
EchoStays(m) ==
  /\ m.rule = 0
  /\ UNCHANGED <<text, lexer, timing, current, lists, output>> /\ Lexing

(* The default rule copies one character to the error stream.              *)
Echo(m) ==
  /\ m.rule = 0
  /\ text' = Rest(IF Len(Letters(Head(text).sym)) > 1 THEN 1 ELSE 2)
  /\ Lexing /\ UNCHANGED <<lexer, timing, current, lists, output>>

Skip(m) == Matched(m, "Skip") /\ Lexing /\ UNCHANGED <<lexer, timing, current, lists, output>>

(* The start of a declaration or of one of its lists.                      *)
Push(m) ==
  /\ Matched(m, "Push") /\ yy_push_state(Arg(m))
  /\ Lexing /\ UNCHANGED <<timing, current, lists, output>>

TriggerResource(m) ==
  /\ Matched(m, "TriggerResource")
  /\ trigger' = [trigger EXCEPT !.resource = Arg(m)]
  /\ Lexing /\ UNCHANGED <<lexer, timing, value, logResource, lists, output>>

\* Mutant: the fluctuation is stored as the resource.
PushValuesAsResource(m) ==
  /\ Matched(m, "PushValues")
  /\ trigger' = [trigger EXCEPT !.resource = Arg(m)[1]]
  /\ yy_push_state(Arg(m)[2])
  /\ Lexing /\ UNCHANGED <<timing, value, logResource, lists, output>>

PushValues(m) ==
  /\ Matched(m, "PushValues")
  /\ trigger' = [trigger EXCEPT !.fluctuation = Arg(m)[1]]
  /\ yy_push_state(Arg(m)[2])
  /\ Lexing /\ UNCHANGED <<timing, value, logResource, lists, output>>

ReadValue(m) ==
  /\ Matched(m, "ReadValue")
  /\ value' = [value EXCEPT !.n = Head(text).n]
  /\ Lexing /\ UNCHANGED <<lexer, timing, trigger, logResource, lists, output>>

SetUnit(m) ==
  /\ Matched(m, "SetUnit")
  /\ value' = [value EXCEPT !.unit = Arg(m)]
  /\ Lexing /\ UNCHANGED <<lexer, timing, trigger, logResource, lists, output>>

NextValue(m) ==
  /\ Matched(m, "NextValue")
  /\ values' = Append(values, value)
  /\ Lexing
  /\ UNCHANGED <<lexer, timing, current, durations, logDurations, logResolutions, output>>

EndValues(m) ==
  /\ Matched(m, "EndValues")
  /\ values' = Append(values, value)
  /\ yy_pop_state(1)
  /\ Process
  /\ UNCHANGED <<timing, current, durations, logDurations, logResolutions, output>>

SingleValue(m) ==
  /\ Matched(m, "SingleValue")
  /\ value' = [value EXCEPT !.unit = Arg(m)]
  /\ values' = Append(values, value')
  /\ yy_pop_state(1)
  /\ Process
  /\ UNCHANGED <<timing, trigger, logResource, durations, logDurations, logResolutions, output>>

ReadElement(m) ==
  /\ Matched(m, "ReadElement")
  /\ element' = Head(text).n
  /\ Lexing /\ UNCHANGED <<lexer, elapsed, current, lists, output>>

AddElement(m) ==
  /\ Matched(m, "AddElement")
  /\ elapsed' = elapsed + element * SecondsIn(Arg(m))
  /\ Lexing /\ UNCHANGED <<lexer, element, current, lists, output>>

(* A duration is complete: it goes to the list it belongs to.              *)
TakeDuration(list) ==
  /\ elapsed' = 0
  /\ durations' = IF list = "trigger" THEN Append(durations, elapsed) ELSE durations
  /\ logDurations' = IF list = "log" THEN Append(logDurations, elapsed) ELSE logDurations
  /\ logResolutions' =
       IF list = "resolution" THEN Append(logResolutions, elapsed) ELSE logResolutions
  /\ UNCHANGED <<element, values>>

NextDuration(m) ==
  /\ Matched(m, "NextDuration") /\ TakeDuration(Arg(m))
  /\ Lexing /\ UNCHANGED <<lexer, current, output>>

EndLogDurations(m) ==
  /\ Matched(m, "EndLogDurations") /\ TakeDuration("log") /\ yy_pop_state(1)
  /\ Process /\ UNCHANGED <<current, output>>

LogResource(m) ==
  /\ Matched(m, "LogResource")
  /\ logResource' = Arg(m)
  /\ Lexing /\ UNCHANGED <<lexer, timing, trigger, value, lists, output>>

produceTriggersCrossproduct(times) ==
  Each(Cross(values, times),
       LAMBDA p : [resource |-> trigger.resource, fluctuation |-> trigger.fluctuation,
                   value |-> p[1].n, unit |-> p[1].unit, duration |-> p[2]])

produceLogsCrossproduct(resolutions) ==
  Each(Cross(logDurations, resolutions),
       LAMBDA p : [resource |-> logResource, duration |-> p[1], resolution |-> p[2]])

\* Mutant: the values stay for the next declaration.
EndTriggerKeepsValues(m) ==
  /\ Matched(m, "EndTrigger")
  /\ elapsed' = 0
  /\ yy_pop_state(2)
  /\ IF phase' = "exited"
       THEN durations' = Append(durations, elapsed) /\ UNCHANGED <<values, triggers>>
       ELSE /\ triggers' = triggers \o produceTriggersCrossproduct(Append(durations, elapsed))
            /\ durations' = <<>> /\ UNCHANGED values
  /\ Process
  /\ UNCHANGED <<element, current, logDurations, logResolutions, logs>>

\* Mutant: only the list's condition is popped.
EndLogPopsOnce(m) ==
  /\ Matched(m, "EndLog")
  /\ elapsed' = 0
  /\ yy_pop_state(1)
  /\ logs' = logs \o produceLogsCrossproduct(Append(logResolutions, elapsed))
  /\ logDurations' = <<>> /\ logResolutions' = <<>>
  /\ Process
  /\ UNCHANGED <<element, current, values, durations, triggers>>

\* Mutant: the logs of a declaration replace those before.
EndLogReplaces(m) ==
  /\ Matched(m, "EndLog")
  /\ elapsed' = 0
  /\ yy_pop_state(2)
  /\ logs' = produceLogsCrossproduct(Append(logResolutions, elapsed))
  /\ logDurations' = <<>> /\ logResolutions' = <<>>
  /\ Process
  /\ UNCHANGED <<element, current, values, durations, triggers>>

(* The end of a declaration: the last duration, back to INITIAL, and every *)
(* combination of the two lists.  Both pops come before the product, so a  *)
(* process that exits here has produced nothing for this declaration.      *)
EndTrigger(m) ==
  /\ Matched(m, "EndTrigger")
  /\ elapsed' = 0
  /\ yy_pop_state(2)
  /\ IF phase' = "exited"
       THEN durations' = Append(durations, elapsed) /\ UNCHANGED <<values, triggers>>
       ELSE /\ triggers' = triggers \o produceTriggersCrossproduct(Append(durations, elapsed))
            /\ values' = <<>> /\ durations' = <<>>
  /\ Process
  /\ UNCHANGED <<element, current, logDurations, logResolutions, logs>>

EndLog(m) ==
  /\ Matched(m, "EndLog")
  /\ elapsed' = 0
  /\ yy_pop_state(2)
  /\ IF phase' = "exited"
       THEN logResolutions' = Append(logResolutions, elapsed) /\ UNCHANGED <<logDurations, logs>>
       ELSE /\ logs' = logs \o produceLogsCrossproduct(Append(logResolutions, elapsed))
            /\ logDurations' = <<>> /\ logResolutions' = <<>>
  /\ Process
  /\ UNCHANGED <<element, current, values, durations, triggers>>

Match(m) ==
  \/ Echo(m) \/ Skip(m) \/ Push(m)
  \/ TriggerResource(m) \/ PushValues(m) \/ ReadValue(m) \/ SetUnit(m) \/ NextValue(m)
  \/ EndValues(m) \/ SingleValue(m) \/ ReadElement(m) \/ AddElement(m) \/ NextDuration(m)
  \/ EndTrigger(m) \/ LogResource(m) \/ EndLogDurations(m) \/ EndLog(m)

NextMatch ==
  /\ phase = "lexing" /\ text # <<>>
  /\ \E found \in {Found} : \E m \in Winners(found) : Match(m)

Next == NewParser \/ EndOfFile \/ NextMatch

Spec == Init /\ [][Next]_vars /\ WF_vars(Next)

-----------------------------------------------------------------------------
(* A file is good when its text is the declarations it means, without the  *)
(* last newline unless it is ended.  Of any other file, means is what is   *)
(* written in it before the first damage.                                  *)

(* Every earlier file of the process was good and ended.  After any other  *)
(* the conditions start anew, and the values it left are still there: the  *)
(* next declaration, of another parser and file, is made with them.        *)
Fresh(i) == \A j \in 1 .. i - 1 : inputs[j].good /\ inputs[j].ended

Meaning(ds) == [triggers |-> TriggersOf(ds), logs |-> LogsOf(ds)]

Resources    == {"cpu", "memory", "disk"}
Fluctuations == {"under", "over"}
Units        == {"%", "mb", "gb"}
Value        == [n : Nat, unit : Units]

TriggerType ==
  [resource : Resources, fluctuation : Fluctuations, value : Nat, unit : Units, duration : Nat]

LogType == [resource : Resources, duration : Nat, resolution : Nat]

(* The conditions under the current one: INITIAL alone at the bottom, and  *)
(* on it one of the two kinds of declaration.                              *)
Nested(chain) ==
  /\ chain[1] = "INITIAL"
  /\ \A i \in 2 .. Len(chain) : chain[i] # "INITIAL"
  /\ Len(chain) > 1 => chain[2] \in {"triggerEnv", "logEnv"}

(* The variables have the shapes their comments give, and the conditions   *)
(* nest, whatever a file holds.                                            *)
TypeOK ==
  /\ phase \in {"idle", "lexing", "exited"}
  /\ text \in Seq(Symbol)
  /\ condition \in Conditions /\ stack \in Seq(Conditions) /\ Nested(Append(stack, condition))
  /\ elapsed \in Nat /\ element \in Nat
  /\ trigger \in [resource : Resources, fluctuation : Fluctuations]
  /\ value \in Value /\ logResource \in Resources
  /\ values \in Seq(Value)
  /\ durations \in Seq(Nat) /\ logDurations \in Seq(Nat) /\ logResolutions \in Seq(Nat)
  /\ triggers \in Seq(TriggerType) /\ logs \in Seq(LogType)
  /\ results \in Seq([triggers : Seq(TriggerType), logs : Seq(LogType)])
  /\ Len(results) <= Len(inputs)

(* A well-formed file is read as what it says, every combination of its    *)
(* lists in order and nothing else, and never ends the process: whichever  *)
(* of the overlapping rules of an environment and of the lists nested in   *)
(* it the longest match picks, however many files came before.             *)
GoodFilesMeanWhatTheySay ==
  /\ \A i \in DOMAIN results :
       Fresh(i) /\ inputs[i].good /\ inputs[i].ended => results[i] = Meaning(inputs[i].means)
  /\ phase = "exited" => ~ (Fresh(Len(results) + 1) /\ inputs[Len(results) + 1].good)

(* The newline is what ends a list without braces: when the last line of   *)
(* a file has none, its declaration is lost, silently, and only that one.  *)
LastLineNeedsItsNewline ==
  \A i \in DOMAIN results :
    LET ds == inputs[i].means IN
    Fresh(i) /\ inputs[i].good /\ ~ inputs[i].ended
      => results[i] = Meaning(IF ds[Len(ds)].braces[2] THEN ds ELSE Front(ds))

(* Damage to a declaration (a symbol missing or repeated) never touches    *)
(* the declarations before it in the file: they were delivered, in order,  *)
(* also when the damage ends the process.                                  *)
DamageOnlyAfter ==
  \A i \in 1 .. Len(results) + 1 :
    LET got == IF i <= Len(results) THEN results[i] ELSE [triggers |-> triggers, logs |-> logs]
    IN Fresh(i) /\ (i <= Len(results) \/ phase = "exited")
         => /\ IsPrefix(TriggersOf(inputs[i].means), got.triggers) \/ inputs[i].good
            /\ IsPrefix(LogsOf(inputs[i].means), got.logs) \/ inputs[i].good

(* The actions that end a declaration pop "back to INITIAL", and leave no  *)
(* half-read value to the next declaration, in a good file.                *)
BackToInitial ==
  [][ Fresh(Len(results) + 1) /\ phase = "lexing" /\ inputs[Len(results) + 1].good
      /\ output' # output
      => lexer' = <<"INITIAL", <<>>>> /\ elapsed' = 0 /\ lists' = <<<<>>, <<>>, <<>>, <<>>>> ]_vars

(* Whatever the files hold, every run() returns or ends the process: each  *)
(* match, the default rule's included, takes something off the text.       *)
EveryFileIsRead ==
  <>(phase = "exited" \/ (phase = "idle" /\ Len(results) = Len(inputs)))
=============================================================================
