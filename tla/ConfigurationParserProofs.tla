-------------------- MODULE ConfigurationParserProofs --------------------
(***************************************************************************)
(* The parser, for any files of a process: the shapes of its variables,    *)
(* how its conditions nest, where alone a file can end the process, and    *)
(* that what a file has produced is never taken back.                      *)
(*                                                                         *)
(* Which ends a match can have is computed by a fold and stays unknown     *)
(* here: every lemma holds whatever the active rules match, so long as a   *)
(* match lies in the text.                                                 *)
(***************************************************************************)
EXTENDS ConfigurationParser, FiniteSetTheorems, SequenceTheorems, TLAPS

-----------------------------------------------------------------------------
(* Texts and lists.                                                        *)

\* The letters of a symbol are symbols, and there is one at least.
LEMMA LettersType ==
  ASSUME NEW s \in Symbols
  PROVE  Letters(s) \in Seq(Symbols) /\ Len(Letters(s)) >= 1
<1>0. {"m", "x", "d", "s"} \subseteq Symbols
  BY DEF Symbols, Keywords, DurationUnits
<1>1. CASE s = "memory"
  BY <1>0, <1>1 DEF Letters
<1>2. CASE s = "disk"
  BY <1>0, <1>2 DEF Letters
<1>3. CASE s = "mb"
  BY <1>0, <1>3 DEF Letters
<1>4. CASE s \in {"last", "resolution"}
  <2>1. Letters(s) = <<"x", "s", "x">>
    BY <1>4 DEF Letters
  <2> QED
    BY <1>0, <2>1
<1>5. CASE s = "under"
  BY <1>0, <1>5 DEF Letters
<1>6. CASE s \notin {"memory", "disk", "mb", "last", "resolution", "under"}
  <2>1. Letters(s) = <<s>>
    BY <1>6 DEF Letters
  <2> QED
    BY <2>1
<1> QED
  BY <1>1, <1>2, <1>3, <1>4, <1>5, <1>6

\* What is left of a text behind a position in it is a text.
LEMMA RestType ==
  ASSUME text \in Seq(Symbol), NEW p \in 0 .. 2 * Len(text)
  PROVE  Rest(p) \in Seq(Symbol)
<1> DEFINE k == p \div 2
<1>1. k \in Nat /\ k <= Len(text) /\ (p % 2 # 0 => k < Len(text))
  OBVIOUS
<1>2. CASE p % 2 = 0
  BY <1>1, <1>2 DEF Rest
<1>3. CASE p % 2 # 0
  <2>1. text[k + 1].sym \in Symbols
    <3>1. text[k + 1] \in Symbol
      BY <1>1, <1>3
    <3> QED
      BY <3>1 DEF Symbol
  <2> DEFINE letters == Letters(text[k + 1].sym)
             tail    == [i \in 1 .. Len(letters) - 1 |-> Sym(letters[i + 1])]
  <2>2. letters \in Seq(Symbols) /\ Len(letters) >= 1
    BY <2>1, LettersType
  <2> HIDE DEF letters
  <2>3. ASSUME NEW i \in 1 .. Len(letters) - 1 PROVE Sym(letters[i + 1]) \in Symbol
    BY <2>2 DEF Sym, Symbol
  <2>4. tail \in Seq(Symbol)
    BY <2>2, <2>3
  <2>5. SubSeq(text, k + 2, Len(text)) \in Seq(Symbol)
    BY <1>1, <1>3
  <2>6. Rest(p) = tail \o SubSeq(text, k + 2, Len(text))
    BY <1>3 DEF Rest, letters
  <2> QED
    BY <2>4, <2>5, <2>6
<1> QED
  BY <1>2, <1>3

\* A remainder and a quotient of an index of a product are indices of its
\* factors.
LEMMA Factors ==
  ASSUME NEW a \in Nat, NEW b \in Nat, NEW n \in 0 .. a * b - 1
  PROVE  n \div b \in 0 .. a - 1 /\ n % b \in 0 .. b - 1
<1>1. b > 0
  OBVIOUS
<1>2. n % b \in 0 .. b - 1 /\ n \div b \in Int /\ n = b * (n \div b) + (n % b)
  BY <1>1
<1>3. n \div b >= 0
  BY <1>1, <1>2
<1>4. n \div b < a
  <2> DEFINE q == n \div b
  <2>1. q \in Int /\ b * q <= n /\ n < a * b
    BY <1>2
  <2> HIDE DEF q
  <2>2. SUFFICES ASSUME q >= a PROVE FALSE
    BY <2>1 DEF q
  <2>3. b * q >= b * a
    BY <2>1, <2>2, <1>1
  <2> QED
    BY <2>1, <2>3
<1> QED
  BY <1>2, <1>3, <1>4

\* The cross product of two lists is a list of pairs of their members.
LEMMA CrossType ==
  ASSUME NEW A, NEW B, NEW outer \in Seq(A), NEW inner \in Seq(B)
  PROVE  Cross(outer, inner) \in Seq(A \X B)
<1> DEFINE size == Len(outer) * Len(inner)
<1>1. size \in Nat
  OBVIOUS
<1>2. ASSUME NEW k \in 1 .. size
      PROVE  <<outer[((k - 1) \div Len(inner)) + 1], inner[((k - 1) % Len(inner)) + 1]>> \in A \X B
  <2>1. k - 1 \in 0 .. Len(outer) * Len(inner) - 1
    BY <1>1
  <2> DEFINE m == k - 1
  <2>2. m \div Len(inner) \in 0 .. Len(outer) - 1
        /\ m % Len(inner) \in 0 .. Len(inner) - 1
    <3>1. m \in 0 .. Len(outer) * Len(inner) - 1 /\ Len(outer) \in Nat /\ Len(inner) \in Nat
      BY <2>1
    <3> HIDE DEF m
    <3> QED
      BY <3>1, Factors
  <2> QED
    BY <2>2
<1> HIDE DEF size
<1>3. Cross(outer, inner) = [k \in 1 .. size |->
        <<outer[((k - 1) \div Len(inner)) + 1], inner[((k - 1) % Len(inner)) + 1]>>]
  BY DEF Cross, size
<1> QED
  BY <1>1, <1>2, <1>3

-----------------------------------------------------------------------------
(* The rules.  What an action may be given, and where it may be active:    *)
(* only a declaration is opened in INITIAL, nothing is popped there.       *)

Declared == Conditions \ {"INITIAL"}
Atom     == [sym : Symbols, least : {0, 1}, many : BOOLEAN]
Patterns == SUBSET Seq(Atom)

Pops   == {"EndValues", "SingleValue", "EndTrigger", "EndLogDurations", "EndLog"}
Plain  == {"Skip", "ReadValue", "NextValue", "EndValues", "ReadElement", "EndTrigger",
           "EndLogDurations", "EndLog"}
Lists  == {"trigger", "log", "resolution"}

RuleSet ==
  [in : SUBSET Conditions, like : Patterns, action : {"Skip"}, arg : {""}]
    \cup [in : SUBSET Conditions, like : Patterns, action : {"Push"}, arg : {"logEnv", "triggerEnv"}]
    \cup [in : SUBSET Declared, like : Patterns, action : Plain, arg : {""}]
    \cup [in : SUBSET Declared, like : Patterns, action : {"Push"}, arg : Declared]
    \cup [in : SUBSET Declared, like : Patterns, action : {"TriggerResource", "LogResource"},
          arg : Resources]
    \cup [in : SUBSET Declared, like : Patterns, action : {"PushValues"},
          arg : Fluctuations \X Declared]
    \cup [in : SUBSET Declared, like : Patterns, action : {"SetUnit", "SingleValue"}, arg : Units]
    \cup [in : SUBSET Declared, like : Patterns, action : {"AddElement"}, arg : DurationUnits]
    \cup [in : SUBSET Declared, like : Patterns, action : {"NextDuration"}, arg : Lists]

\* The patterns of the rules are sequences of atoms.
LEMMA PatternsType ==
  /\ \A w \in Symbols : /\ Word(w) \in Patterns /\ Opening(w) \in Patterns /\ Item(w) \in Patterns
                        /\ Spaced(w) \in Patterns /\ Between(w) \in Patterns
                        /\ {<<Plus(w)>>} \in Patterns
  /\ Closing \in Patterns /\ Digits \in Patterns /\ BlankOrEnd \in Patterns
<1>1. \A w \in Symbols : One(w) \in Atom /\ Plus(w) \in Atom /\ Many(w) \in Atom
  BY DEF One, Plus, Many, Atom
<1>2. {"ws", "nl", "{", "}", "number"} \subseteq Symbols
  BY DEF Symbols
<1>3. \A a, b, c, d \in Atom : /\ <<a>> \in Seq(Atom) /\ <<a, b>> \in Seq(Atom)
                              /\ <<a, b, c>> \in Seq(Atom) /\ <<a, b, c, d>> \in Seq(Atom)
  OBVIOUS
<1>4. \A p, q \in Seq(Atom) : {p} \in Patterns /\ {p, q} \in Patterns
  BY DEF Patterns
<1> HIDE DEF Patterns
<1>5. ASSUME NEW w \in Symbols
      PROVE  /\ Word(w) \in Patterns /\ Opening(w) \in Patterns /\ Item(w) \in Patterns
             /\ Spaced(w) \in Patterns /\ Between(w) \in Patterns
             /\ {<<Plus(w)>>} \in Patterns
  <2>1. /\ One(w) \in Atom /\ Plus(w) \in Atom
        /\ Many("ws") \in Atom /\ Plus("ws") \in Atom /\ One("{") \in Atom
    BY <1>1, <1>2
  <2>2. /\ <<One(w), Plus("ws")>> \in Seq(Atom)
        /\ <<One(w), Plus("ws"), One("{"), Many("ws")>> \in Seq(Atom)
        /\ <<Many("ws"), One(w)>> \in Seq(Atom)
        /\ <<Many("ws"), One(w), Plus("ws")>> \in Seq(Atom)
        /\ <<Many("ws"), One(w), Many("ws")>> \in Seq(Atom)
        /\ <<Plus(w)>> \in Seq(Atom)
    BY <2>1, <1>3
  <2> QED
    BY <2>2, <1>4 DEF Word, Opening, Item, Spaced, Between
<1>6. Closing \in Patterns /\ Digits \in Patterns /\ BlankOrEnd \in Patterns
  <2>1. /\ Many("ws") \in Atom /\ Many("nl") \in Atom /\ One("}") \in Atom
        /\ One("number") \in Atom
    BY <1>1, <1>2
  <2>2. /\ <<Many("ws"), One("}"), Many("ws"), Many("nl")>> \in Seq(Atom)
        /\ <<One("number")>> \in Seq(Atom)
        /\ <<Many("ws")>> \in Seq(Atom) /\ <<Many("nl")>> \in Seq(Atom)
    BY <2>1, <1>3
  <2> QED
    BY <2>2, <1>4 DEF Closing, Digits, BlankOrEnd
<1> QED
  BY <1>5, <1>6

\* The words that open a list of durations.
LEMMA LastType ==
  /\ {LastWord \o <<Plus("ws"), One("{"), Many("ws")>>,
      LastFor \o <<Plus("ws"), One("{"), Many("ws")>>} \in Patterns
  /\ {LastWord \o <<Plus("ws")>>, LastFor \o <<Plus("ws")>>} \in Patterns
<1>1. \A w \in {"ws", "{", "last", "for"} : One(w) \in Atom /\ Plus(w) \in Atom /\ Many(w) \in Atom
  BY DEF One, Plus, Many, Atom, Symbols, Keywords
<1>2. \A a, b, c \in Atom : /\ <<a>> \in Seq(Atom) /\ <<a, b>> \in Seq(Atom)
                            /\ <<a, b, c>> \in Seq(Atom)
  OBVIOUS
<1>3. /\ <<Plus("ws"), One("{"), Many("ws")>> \in Seq(Atom) /\ <<Plus("ws")>> \in Seq(Atom)
      /\ <<One("ws"), One("for")>> \in Seq(Atom) /\ <<Many("ws"), One("last")>> \in Seq(Atom)
  BY <1>1, <1>2
<1>4. \A p, q \in Seq(Atom) : p \o q \in Seq(Atom) /\ {p, q} \in Patterns
  BY DEF Patterns
<1>5. LastWord \in Seq(Atom)
  BY <1>3 DEF LastWord
<1>6. LastFor \in Seq(Atom)
  BY <1>3, <1>4, <1>5 DEF LastFor
<1> QED
  BY <1>3, <1>4, <1>5, <1>6

\* A rule of a declaration.
LEMMA RuleType ==
  ASSUME NEW In \in SUBSET Declared, NEW like \in Patterns
  PROVE  /\ \A r \in Resources : /\ Rule(In, like, "TriggerResource", r) \in RuleSet
                                 /\ Rule(In, like, "LogResource", r) \in RuleSet
         /\ \A c \in Declared : Rule(In, like, "Push", c) \in RuleSet
         /\ \A f \in Fluctuations, c \in Declared :
              Rule(In, like, "PushValues", <<f, c>>) \in RuleSet
         /\ \A u \in Units : /\ Rule(In, like, "SetUnit", u) \in RuleSet
                             /\ Rule(In, like, "SingleValue", u) \in RuleSet
         /\ \A u \in DurationUnits : Rule(In, like, "AddElement", u) \in RuleSet
         /\ \A x \in Lists : Rule(In, like, "NextDuration", x) \in RuleSet
         /\ \A action \in Plain : Rule(In, like, action, "") \in RuleSet
  BY DEF Rule, RuleSet

LEMMA DurationRulesType ==
  ASSUME NEW In \in SUBSET Declared
  PROVE  DurationRules(In) \in Seq(RuleSet)
<1>1. DurationUnits \subseteq Symbols /\ DurationUnits = {"s", "m", "h", "d"}
  BY DEF Symbols, DurationUnits
<1>2. Rule(In, Digits, "ReadElement", "") \in RuleSet
  BY PatternsType, RuleType DEF Plain
<1>3. \A u \in DurationUnits : Rule(In, Item(u), "AddElement", u) \in RuleSet
  BY <1>1, PatternsType, RuleType
<1>4. \A a, b, c, d, e \in RuleSet : <<a, b, c, d, e>> \in Seq(RuleSet)
  OBVIOUS
<1> QED
  BY <1>1, <1>2, <1>3, <1>4 DEF DurationRules

LEMMA ResourceRulesType ==
  /\ ResourceRules("triggerEnv", "TriggerResource") \in Seq(RuleSet)
  /\ ResourceRules("logEnv", "LogResource") \in Seq(RuleSet)
<1>1. /\ {"triggerEnv"} \in SUBSET Declared /\ {"logEnv"} \in SUBSET Declared
      /\ Resources \subseteq Symbols /\ Resources = {"cpu", "memory", "disk"}
  BY DEF Declared, Conditions, Resources, Symbols, Keywords
<1>2. \A r \in Resources : /\ Rule({"triggerEnv"}, Word(r), "TriggerResource", r) \in RuleSet
                           /\ Rule({"logEnv"}, Word(r), "LogResource", r) \in RuleSet
  BY <1>1, PatternsType, RuleType
<1>3. \A a, b, c \in RuleSet : <<a, b, c>> \in Seq(RuleSet)
  OBVIOUS
<1> QED
  BY <1>1, <1>2, <1>3 DEF ResourceRules

LEMMA FluctuationRulesType == FluctuationRules \in Seq(RuleSet)
<1> DEFINE In == {"triggerEnv"}
<1>1. /\ In \in SUBSET Declared
      /\ {"resourceSetEnv", "resourceSingleNoEnv"} \subseteq Declared
      /\ {"under", "over"} \subseteq Symbols /\ {"under", "over"} \subseteq Fluctuations
  BY DEF Declared, Conditions, Fluctuations, Symbols, Keywords
<1> HIDE DEF In
<1>2. \A f \in {"under", "over"} :
        /\ Rule(In, Opening(f), "PushValues", <<f, "resourceSetEnv">>) \in RuleSet
        /\ Rule(In, Word(f), "PushValues", <<f, "resourceSingleNoEnv">>) \in RuleSet
  BY <1>1, PatternsType, RuleType
<1>3. \A a, b, c, d \in RuleSet : <<a, b, c, d>> \in Seq(RuleSet)
  OBVIOUS
<1> QED
  BY <1>2, <1>3 DEF FluctuationRules, In

LEMMA ValueRulesType == ValueSetRules \in Seq(RuleSet) /\ SingleValueRules \in Seq(RuleSet)
<1>1. /\ {"triggerEnv", "resourceSetEnv"} \in SUBSET Declared
      /\ {"triggerEnv", "resourceSingleNoEnv"} \in SUBSET Declared
      /\ Units \subseteq Symbols /\ Units = {"%", "mb", "gb"}
      /\ "," \in Symbols /\ "}" \in Symbols /\ {"ReadValue", "NextValue", "EndValues"} \subseteq Plain
  BY DEF Declared, Conditions, Units, Symbols, Keywords, Plain
<1>2. \A In \in SUBSET Declared :
        /\ Rule(In, Digits, "ReadValue", "") \in RuleSet
        /\ Rule(In, Between(","), "NextValue", "") \in RuleSet
        /\ Rule(In, Between("}"), "EndValues", "") \in RuleSet
        /\ \A u \in Units : /\ Rule(In, Item(u), "SetUnit", u) \in RuleSet
                            /\ Rule(In, Spaced(u), "SingleValue", u) \in RuleSet
  BY <1>1, PatternsType, RuleType
<1>3. \A a, b, c, d, e, f \in RuleSet : /\ <<a, b, c, d>> \in Seq(RuleSet)
                                        /\ <<a, b, c, d, e, f>> \in Seq(RuleSet)
  OBVIOUS
<1> QED
  BY <1>1, <1>2, <1>3 DEF ValueSetRules, SingleValueRules

LEMMA OpeningRulesType ==
  LastRules \in Seq(RuleSet) /\ LogForRules \in Seq(RuleSet) /\ ResolutionRules \in Seq(RuleSet)
<1>1. /\ {"triggerEnv"} \in SUBSET Declared /\ {"logEnv"} \in SUBSET Declared
      /\ {"triggerDurationSetEnv", "triggerDurationSingleNoEnv", "logDurationSetEnv",
          "logDurationSingleNoEnv", "logResolutionSetEnv", "logResolutionSingleNoEnv"}
           \subseteq Declared
      /\ {"for", "resolution"} \subseteq Symbols
  BY DEF Declared, Conditions, Symbols, Keywords
<1>2. \A In \in SUBSET Declared, like \in Patterns, c \in Declared :
        Rule(In, like, "Push", c) \in RuleSet
  BY RuleType
<1>3. \A a, b \in RuleSet : <<a, b>> \in Seq(RuleSet)
  OBVIOUS
<1>4. LastRules \in Seq(RuleSet)
  BY <1>1, <1>2, <1>3, LastType DEF LastRules
<1>5. \A w \in {"for", "resolution"} : Opening(w) \in Patterns /\ Word(w) \in Patterns
  BY <1>1, PatternsType
<1>6. LogForRules \in Seq(RuleSet) /\ ResolutionRules \in Seq(RuleSet)
  BY <1>1, <1>2, <1>3, <1>5 DEF LogForRules, ResolutionRules
<1> QED
  BY <1>4, <1>6

\* The rules that end a list of durations, behind those that read one.
LEMMA ClosingRulesType ==
  ASSUME NEW In \in SUBSET Declared, NEW like \in Patterns, NEW kind \in Lists,
         NEW action \in {"EndTrigger", "EndLogDurations", "EndLog"}
  PROVE  /\ DurationRules(In) \o <<Rule(In, Between(","), "NextDuration", kind),
                                   Rule(In, like, action, "")>> \in Seq(RuleSet)
         /\ DurationRules(In) \o <<Rule(In, like, action, "")>> \in Seq(RuleSet)
<1>1. Between(",") \in Patterns
  BY PatternsType DEF Symbols
<1>2. action \in Plain
  BY DEF Plain
<1>3. /\ Rule(In, Between(","), "NextDuration", kind) \in RuleSet
      /\ Rule(In, like, action, "") \in RuleSet
  BY <1>1, <1>2, RuleType
<1>4. \A a, b \in RuleSet : <<a>> \in Seq(RuleSet) /\ <<a, b>> \in Seq(RuleSet)
  OBVIOUS
<1>5. \A s, t \in Seq(RuleSet) : s \o t \in Seq(RuleSet)
  OBVIOUS
<1> QED
  BY <1>3, <1>4, <1>5, DurationRulesType

LEMMA EndRulesType ==
  /\ TriggerDurationSetRules \in Seq(RuleSet) /\ TriggerDurationRules \in Seq(RuleSet)
  /\ LogDurationSetRules \in Seq(RuleSet) /\ LogDurationRules \in Seq(RuleSet)
  /\ LogResolutionSetRules \in Seq(RuleSet) /\ LogResolutionRules \in Seq(RuleSet)
<1>1. /\ {"triggerEnv", "triggerDurationSetEnv"} \in SUBSET Declared
      /\ {"triggerEnv", "triggerDurationSingleNoEnv"} \in SUBSET Declared
      /\ {"logEnv", "logDurationSetEnv"} \in SUBSET Declared
      /\ {"logEnv", "logDurationSingleNoEnv"} \in SUBSET Declared
      /\ {"logEnv", "logResolutionSetEnv"} \in SUBSET Declared
      /\ {"logEnv", "logResolutionSingleNoEnv"} \in SUBSET Declared
  BY DEF Declared, Conditions
<1>2. /\ Closing \in Patterns /\ BlankOrEnd \in Patterns
      /\ Spaced("}") \in Patterns /\ {<<Plus("ws")>>} \in Patterns
  BY PatternsType DEF Symbols
<1>3. TriggerDurationSetRules \in Seq(RuleSet) /\ TriggerDurationRules \in Seq(RuleSet)
  BY <1>1, <1>2, ClosingRulesType DEF TriggerDurationSetRules, TriggerDurationRules, Lists
<1>4. LogDurationSetRules \in Seq(RuleSet) /\ LogDurationRules \in Seq(RuleSet)
  BY <1>1, <1>2, ClosingRulesType DEF LogDurationSetRules, LogDurationRules, Lists
<1>5. LogResolutionSetRules \in Seq(RuleSet) /\ LogResolutionRules \in Seq(RuleSet)
  BY <1>1, <1>2, ClosingRulesType DEF LogResolutionSetRules, LogResolutionRules, Lists
<1> QED
  BY <1>3, <1>4, <1>5

LEMMA StartRulesType == StartRules \in Seq(RuleSet)
<1>1. /\ {<<Plus("ws")>>} \in Patterns /\ {<<Plus("nl")>>} \in Patterns
      /\ Word("log") \in Patterns /\ Word("trigger") \in Patterns
  BY PatternsType DEF Symbols, Keywords
<1>2. \A like \in Patterns : /\ Rule(Conditions, like, "Skip", "") \in RuleSet
                             /\ Rule(Conditions, like, "Push", "logEnv") \in RuleSet
                             /\ Rule(Conditions, like, "Push", "triggerEnv") \in RuleSet
  BY DEF Rule, RuleSet
<1>3. \A a, b, c, d \in RuleSet : <<a, b, c, d>> \in Seq(RuleSet)
  OBVIOUS
<1> QED
  BY <1>1, <1>2, <1>3 DEF StartRules

LEMMA RulesType == Rules \in Seq(RuleSet)
<1>1. \A s, t \in Seq(RuleSet) : s \o t \in Seq(RuleSet)
  OBVIOUS
<1> QED
  BY <1>1, ResourceRulesType, FluctuationRulesType, ValueRulesType, OpeningRulesType,
     EndRulesType, StartRulesType DEF Rules

-----------------------------------------------------------------------------
(* Matches.                                                                *)

\* What an active rule gives its action.
LEMMA ArgType ==
  ASSUME NEW r \in RuleSet
  PROVE  /\ r.in \subseteq Conditions
         /\ r.action = "Push" => /\ r.arg \in Declared
                                 /\ r.arg \in {"logEnv", "triggerEnv"} \/ r.in \subseteq Declared
         /\ r.action = "PushValues" => /\ r.arg \in Fluctuations \X Declared
                                       /\ r.in \subseteq Declared
         /\ r.action \in {"TriggerResource", "LogResource"} => r.arg \in Resources
         /\ r.action \in {"SetUnit", "SingleValue"} => r.arg \in Units
         /\ r.action = "AddElement" => r.arg \in DurationUnits
         /\ r.action \in Pops => r.in \subseteq Declared
<1>1. {"logEnv", "triggerEnv"} \subseteq Declared /\ Declared \subseteq Conditions
  BY DEF Declared, Conditions
<1> QED
  BY <1>1 DEF RuleSet, Plain, Pops

\* A match that wins lies in the text; unless it is the default rule's, its
\* rule is active and takes something.
LEMMA WinnerType ==
  ASSUME text \in Seq(Symbol), NEW m \in Winners(Found)
  PROVE  /\ m.end \in 0 .. 2 * Len(text) /\ m.rule \in Nat
         /\ m.rule > 0 => /\ m.end > 0
                          /\ Rules[m.rule] \in RuleSet /\ condition \in Rules[m.rule].in
<1>1. DOMAIN Rules = 1 .. Len(Rules) /\ \A i \in DOMAIN Rules : Rules[i] \in RuleSet
  BY RulesType
<1>2. m \in Found /\ \A o \in Found : m.end > o.end \/ (m.end = o.end /\ m.rule <= o.rule)
  BY DEF Winners
<1>3. [end |-> 0, rule |-> 0] \in Found
  BY DEF Found
<1>4. CASE m = [end |-> 0, rule |-> 0]
  BY <1>4
<1>5. CASE m # [end |-> 0, rule |-> 0]
  <2>1. PICK r \in {q \in DOMAIN Rules : condition \in Rules[q].in} :
          \E p \in MatchEnds(Rules[r].like) : m = [end |-> p, rule |-> r]
    BY <1>2, <1>5 DEF Found
  <2>2. PICK p \in MatchEnds(Rules[r].like) : m = [end |-> p, rule |-> r]
    BY <2>1
  <2>3. p \in 0 .. 2 * Len(text)
    BY DEF MatchEnds
  <2>4. m.end = p /\ m.rule = r /\ r \in Nat /\ r > 0
    BY <1>1, <2>1, <2>2
  <2>5. m.end > 0
    BY <1>2, <1>3, <2>3, <2>4
  <2> QED
    BY <1>1, <2>1, <2>3, <2>4, <2>5
<1> QED
  BY <1>4, <1>5

-----------------------------------------------------------------------------
(* The stack of conditions.                                                *)

StackOK == condition \in Conditions /\ stack \in Seq(Conditions) /\ Nested(Append(stack, condition))

\* Outside INITIAL something is below the condition.
LEMMA NotEmpty ==
  ASSUME StackOK, condition # "INITIAL"
  PROVE  /\ Len(stack) \in Nat /\ Len(stack) >= 1
         /\ Len(stack) = 1 => /\ stack = <<"INITIAL">>
                              /\ condition \in {"triggerEnv", "logEnv"}
<1> DEFINE chain == Append(stack, condition)
<1>1. /\ stack \in Seq(Conditions) /\ chain[1] = "INITIAL"
      /\ Len(chain) > 1 => chain[2] \in {"triggerEnv", "logEnv"}
  BY DEF StackOK, Nested
<1>2. Len(stack) # 0
  BY <1>1
<1> QED
  BY <1>1, <1>2

\* A condition that is pushed nests.
LEMMA PushNests ==
  ASSUME StackOK, NEW env \in Declared, yy_push_state(env),
         condition # "INITIAL" \/ env \in {"logEnv", "triggerEnv"}
  PROVE  StackOK'
<1> DEFINE chain == Append(stack, condition)
<1>1. /\ stack \in Seq(Conditions) /\ condition \in Conditions
      /\ stack' = chain /\ condition' = env /\ env \in Conditions /\ env # "INITIAL"
  BY DEF StackOK, yy_push_state, Declared
<1>2. /\ chain[1] = "INITIAL" /\ \A i \in 2 .. Len(chain) : chain[i] # "INITIAL"
      /\ Len(chain) > 1 => chain[2] \in {"triggerEnv", "logEnv"}
  BY DEF StackOK, Nested
<1>3. chain \in Seq(Conditions) /\ Len(chain) = Len(stack) + 1 /\ chain[Len(stack) + 1] = condition
  BY <1>1
<1> HIDE DEF chain
<1>4. /\ Append(chain, env) \in Seq(Conditions) /\ Len(Append(chain, env)) = Len(chain) + 1
      /\ \A i \in 1 .. Len(chain) : Append(chain, env)[i] = chain[i]
      /\ Append(chain, env)[Len(chain) + 1] = env
  BY <1>1, <1>3
<1>5. Len(chain) = 1 => env \in {"triggerEnv", "logEnv"}
  BY <1>1, <1>2, <1>3
<1>6. Len(stack) \in Nat
  BY <1>1
<1> QED
  BY <1>1, <1>2, <1>3, <1>4, <1>5, <1>6 DEF StackOK, Nested

\* One condition or two that are popped outside INITIAL leave a stack that
\* nests, or the process ends: two, when only INITIAL is below.
LEMMA PopNests ==
  ASSUME StackOK, condition # "INITIAL", NEW times \in {1, 2}, yy_pop_state(times)
  PROVE  /\ StackOK'
         /\ \/ phase' = phase
            \/ /\ times = 2 /\ phase' = "exited" /\ UNCHANGED lexer
               /\ stack = <<"INITIAL">> /\ condition \in {"triggerEnv", "logEnv"}
<1>1. Len(stack) \in Nat /\ Len(stack) >= 1
  BY NotEmpty
<1>2. CASE Len(stack) < times
  <2>1. Len(stack) = 1 /\ times = 2 /\ phase' = "exited" /\ UNCHANGED lexer
    <3>1. CASE times = 1
      BY <1>1, <1>2, <3>1
    <3>2. CASE times = 2
      <4>1. Len(stack) = 1
        <5>1. ASSUME NEW n \in Nat, n >= 1, n < 2 PROVE n = 1
          BY <5>1
        <5> QED
          BY <1>1, <1>2, <3>2, <5>1
      <4>2. phase' = "exited" /\ UNCHANGED lexer
        BY <1>2 DEF yy_pop_state
      <4> QED
        BY <3>2, <4>1, <4>2
    <3> QED
      BY <3>1, <3>2
  <2>2. StackOK'
    BY <2>1 DEF StackOK, Nested, lexer
  <2> QED
    BY <2>1, <2>2, NotEmpty
<1>3. CASE ~ (Len(stack) < times)
  <2> DEFINE chain == Append(stack, condition)
             k     == Len(stack) - times
  <2>1. /\ condition' = stack[k + 1] /\ stack' = SubSeq(stack, 1, k) /\ phase' = phase
        /\ k \in Nat /\ k + 1 <= Len(stack)
    BY <1>1, <1>3 DEF yy_pop_state
  <2>2. /\ stack \in Seq(Conditions) /\ chain[1] = "INITIAL"
        /\ \A i \in 2 .. Len(chain) : chain[i] # "INITIAL"
        /\ Len(chain) > 1 => chain[2] \in {"triggerEnv", "logEnv"}
        /\ Len(chain) = Len(stack) + 1 /\ \A i \in 1 .. Len(stack) : chain[i] = stack[i]
    BY DEF StackOK, Nested
  <2> HIDE DEF chain, k
  <2> DEFINE left == Append(SubSeq(stack, 1, k), stack[k + 1])
  <2>3. /\ SubSeq(stack, 1, k) \in Seq(Conditions) /\ stack[k + 1] \in Conditions
        /\ left \in Seq(Conditions) /\ Len(left) = k + 1
        /\ \A i \in 1 .. k + 1 : left[i] = stack[i]
    BY <2>1, <2>2
  <2>4. left = Append(stack', condition')
    BY <2>1
  <2> HIDE DEF left
  <2>5. Nested(left)
    BY <1>1, <2>1, <2>2, <2>3 DEF Nested
  <2> QED
    BY <2>1, <2>3, <2>4, <2>5 DEF StackOK
<1> QED
  BY <1>2, <1>3

-----------------------------------------------------------------------------
(* The parts of TypeOK and what a step of one action does to each.         *)

TimingOK == elapsed \in Nat /\ element \in Nat

CurrentOK ==
  /\ trigger \in [resource : Resources, fluctuation : Fluctuations]
  /\ value \in Value /\ logResource \in Resources

ListsOK ==
  /\ values \in Seq(Value)
  /\ durations \in Seq(Nat) /\ logDurations \in Seq(Nat) /\ logResolutions \in Seq(Nat)

OutputOK == triggers \in Seq(TriggerType) /\ logs \in Seq(LogType)

ResultsOK ==
  /\ results \in Seq([triggers : Seq(TriggerType), logs : Seq(LogType)])
  /\ Len(results) <= Len(inputs)

LEMMA TypeParts ==
  TypeOK <=> /\ phase \in {"idle", "lexing", "exited"} /\ text \in Seq(Symbol)
             /\ StackOK /\ TimingOK /\ CurrentOK /\ ListsOK /\ OutputOK /\ ResultsOK
  BY DEF TypeOK, StackOK, TimingOK, CurrentOK, ListsOK, OutputOK, ResultsOK

\* The files of a process are given once and for all, and it lexes one of
\* them that has no result yet.
ParserInv ==
  /\ TypeOK /\ inputs \in Inputs
  /\ phase = "lexing" => Len(results) < Len(inputs)

\* The triggers and logs of a declaration.
LEMMA ProducedType ==
  ASSUME CurrentOK, ListsOK, NEW times \in Seq(Nat)
  PROVE  /\ produceTriggersCrossproduct(times) \in Seq(TriggerType)
         /\ produceLogsCrossproduct(times) \in Seq(LogType)
<1>1. Cross(values, times) \in Seq(Value \X Nat)
  BY CrossType DEF ListsOK
<1>2. Cross(logDurations, times) \in Seq(Nat \X Nat)
  BY CrossType DEF ListsOK
<1>3. \A p \in Value \X Nat :
        [resource |-> trigger.resource, fluctuation |-> trigger.fluctuation,
         value |-> p[1].n, unit |-> p[1].unit, duration |-> p[2]] \in TriggerType
  BY DEF CurrentOK, Value, TriggerType
<1>4. \A p \in Nat \X Nat :
        [resource |-> logResource, duration |-> p[1], resolution |-> p[2]] \in LogType
  BY DEF CurrentOK, LogType
<1>5. produceTriggersCrossproduct(times) \in Seq(TriggerType)
  BY <1>1, <1>3 DEF produceTriggersCrossproduct, Each
<1>6. produceLogsCrossproduct(times) \in Seq(LogType)
  BY <1>2, <1>4 DEF produceLogsCrossproduct, Each
<1> QED
  BY <1>5, <1>6

\* A list that is extended has what was there before in front.
LEMMA ExtendedPrefix ==
  ASSUME NEW S, NEW s \in Seq(S), NEW t \in Seq(S)
  PROVE  IsPrefix(s, s \o t)
<1>1. Len(s) <= Len(s \o t) /\ SubSeq(s, 1, Len(s)) = s
  OBVIOUS
<1>2. SubSeq(s \o t, 1, Len(s)) = s
  OBVIOUS
<1> QED
  BY <1>1, <1>2 DEF IsPrefix

-----------------------------------------------------------------------------
(* One step of the lexer.                                                  *)

\* What every match of a rule has: a shorter text, and a rule that fits.
LEMMA MatchedType ==
  ASSUME TypeOK, NEW m \in Winners(Found), NEW action, Matched(m, action)
  PROVE  /\ text' \in Seq(Symbol)
         /\ action = "Push" => /\ Arg(m) \in Declared
                               /\ Arg(m) \in {"logEnv", "triggerEnv"} \/ condition # "INITIAL"
         /\ action = "PushValues" => /\ Arg(m) \in Fluctuations \X Declared
                                     /\ condition # "INITIAL"
         /\ action \in {"TriggerResource", "LogResource"} => Arg(m) \in Resources
         /\ action \in {"SetUnit", "SingleValue"} => Arg(m) \in Units
         /\ action = "AddElement" => Arg(m) \in DurationUnits
         /\ action \in Pops => condition # "INITIAL"
<1>1. text \in Seq(Symbol)
  BY TypeParts
<1>2. m.end \in 0 .. 2 * Len(text) /\ Rules[m.rule] \in RuleSet /\ condition \in Rules[m.rule].in
  BY <1>1, WinnerType DEF Matched
<1>3. text' \in Seq(Symbol)
  BY <1>1, <1>2, RestType DEF Matched
<1>4. Rules[m.rule].action = action /\ Rules[m.rule].arg = Arg(m)
  BY DEF Matched, Arg
<1>5. Rules[m.rule].in \subseteq Declared => condition # "INITIAL"
  BY <1>2 DEF Declared
<1> QED
  BY <1>2, <1>3, <1>4, <1>5, ArgType

\* The parts an action leaves alone.
LEMMA Unchanged ==
  ASSUME TypeOK
  PROVE  /\ UNCHANGED lexer => StackOK'
         /\ UNCHANGED timing => TimingOK'
         /\ UNCHANGED current => CurrentOK'
         /\ UNCHANGED lists => ListsOK'
         /\ UNCHANGED output => OutputOK'
         /\ Process => ResultsOK' /\ UNCHANGED <<inputs, results>>
         /\ Lexing => phase' = phase
  BY TypeParts DEF StackOK, Nested, TimingOK, CurrentOK, ListsOK, OutputOK, ResultsOK,
                   lexer, timing, current, lists, output, Process, Lexing

\* The first symbol of a text.
LEMMA HeadType ==
  ASSUME TypeOK, text # <<>>
  PROVE  Head(text).n \in Nat /\ Head(text).sym \in Symbols /\ Len(text) \in Nat /\ Len(text) >= 1
<1>1. text \in Seq(Symbol)
  BY TypeParts
<1>2. Head(text) \in Symbol /\ Len(text) \in Nat /\ Len(text) >= 1
  BY <1>1
<1> QED
  BY <1>2 DEF Symbol

LEMMA SecondsType == \A u \in DurationUnits : SecondsIn(u) \in Nat
  BY DEF SecondsIn, DurationUnits

\* A duration that is complete goes to one of the lists.
LEMMA TakeDurationType ==
  ASSUME TypeOK, NEW list, TakeDuration(list)
  PROVE  TimingOK' /\ ListsOK'
<1>1. /\ durations \in Seq(Nat) /\ logDurations \in Seq(Nat) /\ logResolutions \in Seq(Nat)
      /\ values \in Seq(Value) /\ elapsed \in Nat /\ element \in Nat
  BY TypeParts DEF ListsOK, TimingOK
<1>2. durations' \in Seq(Nat)
  BY <1>1 DEF TakeDuration
<1>3. logDurations' \in Seq(Nat)
  BY <1>1 DEF TakeDuration
<1>4. logResolutions' \in Seq(Nat)
  BY <1>1 DEF TakeDuration
<1> QED
  BY <1>1, <1>2, <1>3, <1>4 DEF TakeDuration, TimingOK, ListsOK

(* What a match keeps, and how it leaves the process.  Grown: nothing is   *)
(* taken back.  Ended: where alone a step ends the process.                *)
Grown == IsPrefix(triggers, triggers') /\ IsPrefix(logs, logs')

Ended ==
  stack = <<"INITIAL">> /\ condition \in {"triggerEnv", "logEnv"} /\ UNCHANGED <<lexer, output>>

StepOK ==
  /\ TypeOK' /\ UNCHANGED <<inputs, results>> /\ Grown
  /\ phase' = phase \/ (phase' = "exited" /\ Ended)

LEMMA SamePrefix == ASSUME TypeOK, UNCHANGED output PROVE Grown
<1>1. \A S : \A s \in Seq(S) : IsPrefix(s, s)
  BY DEF IsPrefix
<1> QED
  BY <1>1, TypeParts DEF OutputOK, output, Grown

\* A match that leaves the phase, the process and the output alone.
LEMMA InsideStep ==
  ASSUME TypeOK, Lexing, UNCHANGED output, text' \in Seq(Symbol),
         StackOK', TimingOK', CurrentOK', ListsOK'
  PROVE  StepOK
<1>1. ResultsOK' /\ UNCHANGED <<inputs, results>> /\ phase' = phase /\ OutputOK'
  BY Unchanged DEF Lexing
<1>2. phase' \in {"idle", "lexing", "exited"}
  BY <1>1, TypeParts
<1>3. TypeOK'
  BY <1>1, <1>2
  DEF TypeOK, StackOK, TimingOK, CurrentOK, ListsOK, OutputOK, ResultsOK
<1> QED
  BY <1>1, <1>3, SamePrefix DEF StepOK

\* A match that may end the process.
LEMMA PoppingStep ==
  ASSUME TypeOK, Process, text' \in Seq(Symbol), Grown,
         StackOK', TimingOK', CurrentOK', ListsOK', OutputOK',
         phase' = phase \/ (phase' = "exited" /\ Ended)
  PROVE  StepOK
<1>1. ResultsOK' /\ UNCHANGED <<inputs, results>>
  BY Unchanged
<1>2. phase' \in {"idle", "lexing", "exited"}
  BY <1>1, TypeParts
<1>3. TypeOK'
  BY <1>1, <1>2
  DEF TypeOK, StackOK, TimingOK, CurrentOK, ListsOK, OutputOK, ResultsOK
<1> QED
  BY <1>1, <1>3 DEF StepOK

LEMMA EchoStep ==
  ASSUME TypeOK, text # <<>>, NEW m \in Winners(Found), Echo(m)
  PROVE  StepOK
<1>1. text \in Seq(Symbol) /\ Len(text) \in Nat /\ Len(text) >= 1
  BY HeadType, TypeParts
<1>2. {1, 2} \subseteq 0 .. 2 * Len(text)
  BY <1>1
<1>3. text' \in Seq(Symbol)
  BY <1>1, <1>2, RestType DEF Echo
<1> QED
  BY <1>3, InsideStep, Unchanged DEF Echo

LEMMA SkipStep ==
  ASSUME TypeOK, NEW m \in Winners(Found), Skip(m)
  PROVE  StepOK
  BY MatchedType, InsideStep, Unchanged DEF Skip

LEMMA PushStep ==
  ASSUME TypeOK, NEW m \in Winners(Found), Push(m)
  PROVE  StepOK
<1>1. /\ text' \in Seq(Symbol) /\ Arg(m) \in Declared
      /\ Arg(m) \in {"logEnv", "triggerEnv"} \/ condition # "INITIAL"
  BY MatchedType DEF Push
<1>2. StackOK'
  BY <1>1, PushNests, TypeParts DEF Push
<1> QED
  BY <1>1, <1>2, InsideStep, Unchanged DEF Push, lists

LEMMA TriggerResourceStep ==
  ASSUME TypeOK, NEW m \in Winners(Found), TriggerResource(m)
  PROVE  StepOK
<1>1. text' \in Seq(Symbol) /\ Arg(m) \in Resources
  BY MatchedType DEF TriggerResource
<1>2. CurrentOK'
  BY <1>1, TypeParts DEF TriggerResource, CurrentOK
<1> QED
  BY <1>1, <1>2, InsideStep, Unchanged DEF TriggerResource

LEMMA PushValuesStep ==
  ASSUME TypeOK, NEW m \in Winners(Found), PushValues(m)
  PROVE  StepOK
<1>1. text' \in Seq(Symbol) /\ Arg(m) \in Fluctuations \X Declared /\ condition # "INITIAL"
  BY MatchedType DEF PushValues
<1>2. Arg(m)[1] \in Fluctuations /\ Arg(m)[2] \in Declared
  BY <1>1
<1>3. StackOK'
  BY <1>1, <1>2, PushNests, TypeParts DEF PushValues
<1>4. CurrentOK'
  BY <1>2, TypeParts DEF PushValues, CurrentOK
<1> QED
  BY <1>1, <1>3, <1>4, InsideStep, Unchanged DEF PushValues

LEMMA ReadValueStep ==
  ASSUME TypeOK, text # <<>>, NEW m \in Winners(Found), ReadValue(m)
  PROVE  StepOK
<1>1. text' \in Seq(Symbol)
  BY MatchedType DEF ReadValue
<1>2. CurrentOK'
  BY HeadType, TypeParts DEF ReadValue, CurrentOK, Value
<1> QED
  BY <1>1, <1>2, InsideStep, Unchanged DEF ReadValue

LEMMA SetUnitStep ==
  ASSUME TypeOK, NEW m \in Winners(Found), SetUnit(m)
  PROVE  StepOK
<1>1. text' \in Seq(Symbol) /\ Arg(m) \in Units
  BY MatchedType DEF SetUnit
<1>2. CurrentOK'
  BY <1>1, TypeParts DEF SetUnit, CurrentOK, Value
<1> QED
  BY <1>1, <1>2, InsideStep, Unchanged DEF SetUnit

LEMMA NextValueStep ==
  ASSUME TypeOK, NEW m \in Winners(Found), NextValue(m)
  PROVE  StepOK
<1>1. text' \in Seq(Symbol)
  BY MatchedType DEF NextValue
<1>2. ListsOK'
  BY TypeParts DEF NextValue, ListsOK, CurrentOK
<1> QED
  BY <1>1, <1>2, InsideStep, Unchanged DEF NextValue

LEMMA EndValuesStep ==
  ASSUME TypeOK, NEW m \in Winners(Found), EndValues(m)
  PROVE  StepOK
<1>1. text' \in Seq(Symbol) /\ condition # "INITIAL"
  BY MatchedType DEF EndValues, Pops
<1>2. StackOK' /\ phase' = phase
  BY <1>1, PopNests, TypeParts DEF EndValues
<1>3. ListsOK'
  BY TypeParts DEF EndValues, ListsOK, CurrentOK
<1> QED
  BY <1>1, <1>2, <1>3, InsideStep, Unchanged DEF EndValues, Lexing

LEMMA SingleValueStep ==
  ASSUME TypeOK, NEW m \in Winners(Found), SingleValue(m)
  PROVE  StepOK
<1>1. text' \in Seq(Symbol) /\ condition # "INITIAL" /\ Arg(m) \in Units
  BY MatchedType DEF SingleValue, Pops
<1>2. StackOK' /\ phase' = phase
  BY <1>1, PopNests, TypeParts DEF SingleValue
<1>3. CurrentOK'
  BY <1>1, TypeParts DEF SingleValue, CurrentOK, Value
<1>4. ListsOK'
  BY <1>3, TypeParts DEF SingleValue, ListsOK, CurrentOK
<1> QED
  BY <1>1, <1>2, <1>3, <1>4, InsideStep, Unchanged DEF SingleValue, Lexing

LEMMA ReadElementStep ==
  ASSUME TypeOK, text # <<>>, NEW m \in Winners(Found), ReadElement(m)
  PROVE  StepOK
<1>1. text' \in Seq(Symbol)
  BY MatchedType DEF ReadElement
<1>2. TimingOK'
  BY HeadType, TypeParts DEF ReadElement, TimingOK
<1> QED
  BY <1>1, <1>2, InsideStep, Unchanged DEF ReadElement

LEMMA AddElementStep ==
  ASSUME TypeOK, NEW m \in Winners(Found), AddElement(m)
  PROVE  StepOK
<1>1. text' \in Seq(Symbol) /\ Arg(m) \in DurationUnits
  BY MatchedType DEF AddElement
<1>2. TimingOK'
  <2>1. SecondsIn(Arg(m)) \in Nat /\ elapsed \in Nat /\ element \in Nat
    BY <1>1, SecondsType, TypeParts DEF TimingOK
  <2>2. elapsed' = elapsed + element * SecondsIn(Arg(m)) /\ element' = element
    BY DEF AddElement
  <2>3. \A a, b, c \in Nat : a + b * c \in Nat
    OBVIOUS
  <2> QED
    BY <2>1, <2>2, <2>3 DEF TimingOK
<1> QED
  BY <1>1, <1>2, InsideStep, Unchanged DEF AddElement

LEMMA NextDurationStep ==
  ASSUME TypeOK, NEW m \in Winners(Found), NextDuration(m)
  PROVE  StepOK
<1>1. text' \in Seq(Symbol)
  BY MatchedType DEF NextDuration
<1> QED
  BY <1>1, TakeDurationType, InsideStep, Unchanged DEF NextDuration

LEMMA LogResourceStep ==
  ASSUME TypeOK, NEW m \in Winners(Found), LogResource(m)
  PROVE  StepOK
<1>1. text' \in Seq(Symbol) /\ Arg(m) \in Resources
  BY MatchedType DEF LogResource
<1>2. CurrentOK'
  BY <1>1, TypeParts DEF LogResource, CurrentOK
<1> QED
  BY <1>1, <1>2, InsideStep, Unchanged DEF LogResource

LEMMA EndLogDurationsStep ==
  ASSUME TypeOK, NEW m \in Winners(Found), EndLogDurations(m)
  PROVE  StepOK
<1>1. text' \in Seq(Symbol) /\ condition # "INITIAL"
  BY MatchedType DEF EndLogDurations, Pops
<1>2. StackOK' /\ phase' = phase
  BY <1>1, PopNests, TypeParts DEF EndLogDurations
<1> QED
  BY <1>1, <1>2, TakeDurationType, InsideStep, Unchanged DEF EndLogDurations, Lexing

LEMMA EndTriggerStep ==
  ASSUME TypeOK, NEW m \in Winners(Found), EndTrigger(m)
  PROVE  StepOK
<1>1. text' \in Seq(Symbol) /\ condition # "INITIAL"
  BY MatchedType DEF EndTrigger, Pops
<1>2. /\ StackOK'
      /\ \/ phase' = phase
         \/ /\ phase' = "exited" /\ UNCHANGED lexer
            /\ stack = <<"INITIAL">> /\ condition \in {"triggerEnv", "logEnv"}
  BY <1>1, PopNests, TypeParts DEF EndTrigger
<1>3. TimingOK'
  BY TypeParts DEF EndTrigger, TimingOK
<1> DEFINE times == Append(durations, elapsed)
           made  == produceTriggersCrossproduct(times)
<1>4. /\ times \in Seq(Nat) /\ triggers \in Seq(TriggerType) /\ logs \in Seq(LogType)
      /\ values \in Seq(Value)
      /\ durations \in Seq(Nat) /\ logDurations \in Seq(Nat) /\ logResolutions \in Seq(Nat)
  BY TypeParts DEF ListsOK, TimingOK, OutputOK
<1>5. made \in Seq(TriggerType)
  BY <1>4, ProducedType, TypeParts
<1> HIDE DEF times, made
<1>6. \/ phase' = "exited" /\ durations' = times /\ values' = values /\ triggers' = triggers
      \/ phase' # "exited" /\ triggers' = triggers \o made /\ values' = <<>> /\ durations' = <<>>
  BY DEF EndTrigger, times, made
<1>7. UNCHANGED <<element, current, logDurations, logResolutions, logs>> /\ Process
  BY DEF EndTrigger
<1>8. ListsOK'
  <2>0. <<>> \in Seq(Value) /\ <<>> \in Seq(Nat)
    OBVIOUS
  <2>1. values' \in Seq(Value)
    BY <1>4, <1>6, <2>0
  <2>2. durations' \in Seq(Nat)
    BY <1>4, <1>6, <2>0
  <2>3. logDurations' \in Seq(Nat) /\ logResolutions' \in Seq(Nat)
    BY <1>4, <1>7
  <2> QED
    BY <2>1, <2>2, <2>3 DEF ListsOK
<1>9. OutputOK'
  <2>1. triggers \o made \in Seq(TriggerType)
    BY <1>4, <1>5
  <2> QED
    BY <1>4, <1>6, <1>7, <2>1 DEF OutputOK
<1>10. Grown
  <2>1. IsPrefix(logs, logs') /\ IsPrefix(triggers, triggers)
    BY <1>4, <1>7 DEF IsPrefix
  <2>2. IsPrefix(triggers, triggers \o made)
    BY <1>4, <1>5, ExtendedPrefix
  <2> QED
    BY <1>6, <2>1, <2>2 DEF Grown
<1>11. phase' = phase \/ (phase' = "exited" /\ Ended)
  BY <1>2, <1>6, <1>7 DEF Ended, output
<1> QED
  BY <1>1, <1>2, <1>3, <1>7, <1>8, <1>9, <1>10, <1>11, PoppingStep, Unchanged

LEMMA EndLogStep ==
  ASSUME TypeOK, NEW m \in Winners(Found), EndLog(m)
  PROVE  StepOK
<1>1. text' \in Seq(Symbol) /\ condition # "INITIAL"
  BY MatchedType DEF EndLog, Pops
<1>2. /\ StackOK'
      /\ \/ phase' = phase
         \/ /\ phase' = "exited" /\ UNCHANGED lexer
            /\ stack = <<"INITIAL">> /\ condition \in {"triggerEnv", "logEnv"}
  BY <1>1, PopNests, TypeParts DEF EndLog
<1>3. TimingOK'
  BY TypeParts DEF EndLog, TimingOK
<1> DEFINE times == Append(logResolutions, elapsed)
           made  == produceLogsCrossproduct(times)
<1>4. /\ times \in Seq(Nat) /\ triggers \in Seq(TriggerType) /\ logs \in Seq(LogType)
      /\ values \in Seq(Value)
      /\ durations \in Seq(Nat) /\ logDurations \in Seq(Nat) /\ logResolutions \in Seq(Nat)
  BY TypeParts DEF ListsOK, TimingOK, OutputOK
<1>5. made \in Seq(LogType)
  BY <1>4, ProducedType, TypeParts
<1> HIDE DEF times, made
<1>6. \/ phase' = "exited" /\ logResolutions' = times /\ logDurations' = logDurations /\ logs' = logs
      \/ /\ phase' # "exited" /\ logs' = logs \o made
         /\ logDurations' = <<>> /\ logResolutions' = <<>>
  BY DEF EndLog, times, made
<1>7. UNCHANGED <<element, current, values, durations, triggers>> /\ Process
  BY DEF EndLog
<1>8. ListsOK'
  <2>0. <<>> \in Seq(Nat)
    OBVIOUS
  <2>1. logDurations' \in Seq(Nat)
    BY <1>4, <1>6, <2>0
  <2>2. logResolutions' \in Seq(Nat)
    BY <1>4, <1>6, <2>0
  <2>3. values' \in Seq(Value) /\ durations' \in Seq(Nat)
    BY <1>4, <1>7
  <2> QED
    BY <2>1, <2>2, <2>3 DEF ListsOK
<1>9. OutputOK'
  <2>1. logs \o made \in Seq(LogType)
    BY <1>4, <1>5
  <2> QED
    BY <1>4, <1>6, <1>7, <2>1 DEF OutputOK
<1>10. Grown
  <2>1. IsPrefix(triggers, triggers') /\ IsPrefix(logs, logs)
    BY <1>4, <1>7 DEF IsPrefix
  <2>2. IsPrefix(logs, logs \o made)
    BY <1>4, <1>5, ExtendedPrefix
  <2> QED
    BY <1>6, <2>1, <2>2 DEF Grown
<1>11. phase' = phase \/ (phase' = "exited" /\ Ended)
  BY <1>2, <1>6, <1>7 DEF Ended, output
<1> QED
  BY <1>1, <1>2, <1>3, <1>7, <1>8, <1>9, <1>10, <1>11, PoppingStep, Unchanged

LEMMA MatchStep == TypeOK /\ NextMatch => StepOK
<1> SUFFICES ASSUME TypeOK, NextMatch PROVE StepOK
  OBVIOUS
<1>1. text # <<>>
  BY DEF NextMatch
<1>2. PICK m \in Winners(Found) : Match(m)
  BY DEF NextMatch
<1> QED
  BY <1>1, <1>2, EchoStep, SkipStep, PushStep, TriggerResourceStep, PushValuesStep,
     ReadValueStep, SetUnitStep, NextValueStep, EndValuesStep, SingleValueStep,
     ReadElementStep, AddElementStep, NextDurationStep, EndTriggerStep, LogResourceStep,
     EndLogDurationsStep, EndLogStep DEF Match

-----------------------------------------------------------------------------
(* The process.                                                            *)

LEMMA ParserInitial == Init => ParserInv
<1> SUFFICES ASSUME Init PROVE ParserInv
  OBVIOUS
<1>1. inputs \in Inputs /\ Len(inputs) \in Nat
  BY InputsAssumption DEF Init
<1>2. StackOK
  <2>1. "INITIAL" \in Conditions /\ Append(<<>>, "INITIAL") = <<"INITIAL">>
    BY DEF Conditions
  <2> QED
    BY <2>1 DEF Init, StackOK, Nested
<1>3. TimingOK /\ CurrentOK /\ ListsOK /\ OutputOK
  BY DEF Init, TimingOK, CurrentOK, ListsOK, OutputOK, Resources, Fluctuations, Units, Value
<1>4. ResultsOK
  BY <1>1 DEF Init, ResultsOK
<1>5. phase = "idle" /\ text \in Seq(Symbol)
  BY DEF Init
<1> QED
  BY <1>1, <1>2, <1>3, <1>4, <1>5, TypeParts DEF ParserInv

LEMMA NewParserStep ==
  ASSUME ParserInv, NewParser
  PROVE  ParserInv' /\ phase' # "exited"
<1> USE DEF NewParser
<1>1. TypeOK /\ inputs \in Inputs /\ inputs' = inputs /\ results' = results
  BY DEF ParserInv
<1>2. Len(results) \in Nat
  BY <1>1, TypeParts DEF ResultsOK
<1>3. Len(results) + 1 \in 1 .. Len(inputs)
  BY <1>1, <1>2, InputsAssumption
<1>4. text' \in Seq(Symbol)
  BY <1>1, <1>3, InputsAssumption
<1>5. StackOK'
  <2>1. "INITIAL" \in Conditions /\ Append(<<>>, "INITIAL") = <<"INITIAL">>
    BY DEF Conditions
  <2> QED
    BY <2>1 DEF StackOK, Nested
<1>6. TimingOK' /\ CurrentOK' /\ ListsOK'
  BY <1>1, Unchanged
<1>7. OutputOK' /\ ResultsOK'
  BY <1>1, TypeParts DEF OutputOK, ResultsOK
<1>8. phase' = "lexing"
  OBVIOUS
<1>9. TypeOK'
  BY <1>4, <1>5, <1>6, <1>7, <1>8
  DEF TypeOK, StackOK, TimingOK, CurrentOK, ListsOK, OutputOK, ResultsOK
<1> QED
  BY <1>1, <1>8, <1>9 DEF ParserInv

LEMMA EndOfFileStep ==
  ASSUME ParserInv, EndOfFile
  PROVE  ParserInv' /\ phase' # "exited" /\ UNCHANGED output
<1> USE DEF EndOfFile
<1>1. /\ TypeOK /\ inputs \in Inputs /\ inputs' = inputs /\ text' = text /\ phase' = "idle"
      /\ Len(inputs) \in Nat /\ Len(results) < Len(inputs)
  BY InputsAssumption DEF ParserInv
<1>2. StackOK' /\ TimingOK' /\ CurrentOK' /\ ListsOK' /\ OutputOK'
  BY <1>1, Unchanged
<1>3. ResultsOK'
  <2>1. [triggers |-> triggers, logs |-> logs] \in [triggers : Seq(TriggerType), logs : Seq(LogType)]
    BY <1>1, TypeParts DEF OutputOK
  <2> QED
    BY <1>1, <2>1, TypeParts DEF ResultsOK
<1>4. text' \in Seq(Symbol)
  BY <1>1, TypeParts
<1>5. TypeOK'
  BY <1>1, <1>2, <1>3, <1>4
  DEF TypeOK, StackOK, TimingOK, CurrentOK, ListsOK, OutputOK, ResultsOK
<1> QED
  BY <1>1, <1>5 DEF ParserInv

LEMMA ParserStep == ParserInv /\ [Next]_vars => ParserInv'
<1> SUFFICES ASSUME ParserInv, [Next]_vars PROVE ParserInv'
  OBVIOUS
<1>1. CASE NextMatch
  <2>1. StepOK
    BY <1>1, MatchStep DEF ParserInv
  <2> QED
    BY <2>1 DEF StepOK, ParserInv
<1>2. CASE UNCHANGED vars
  <2>1. /\ UNCHANGED <<phase, text, inputs, results>>
        /\ UNCHANGED lexer /\ UNCHANGED timing /\ UNCHANGED current
        /\ UNCHANGED lists /\ UNCHANGED output
    BY <1>2 DEF vars
  <2>2. StackOK' /\ TimingOK' /\ CurrentOK' /\ ListsOK' /\ OutputOK'
    BY <2>1, Unchanged DEF ParserInv
  <2>3. ResultsOK' /\ phase' \in {"idle", "lexing", "exited"} /\ text' \in Seq(Symbol)
    BY <2>1, TypeParts DEF ParserInv, ResultsOK
  <2>4. TypeOK'
    BY <2>2, <2>3
    DEF TypeOK, StackOK, TimingOK, CurrentOK, ListsOK, OutputOK, ResultsOK
  <2> QED
    BY <2>1, <2>4 DEF ParserInv
<1> QED
  BY <1>1, <1>2, NewParserStep, EndOfFileStep DEF Next

(* Whatever the files hold and whichever rules match, the variables keep   *)
(* their shapes, a declaration is one level above INITIAL and its lists    *)
(* above it, and nothing is popped from under INITIAL.                     *)
THEOREM TypeCorrect == Spec => []TypeOK
<1>1. ParserInv => TypeOK
  BY DEF ParserInv
<1> QED
  BY <1>1, ParserInitial, ParserStep, PTL DEF Spec

(* A parser takes back nothing it has read: what a declaration produced    *)
(* stays in front of triggerTypes and logTypes, whatever follows it in the *)
(* file and however the file ends.                                         *)
THEOREM OutputOnlyGrows == Spec => [][phase = "lexing" => Grown]_vars
<1>1. ParserInv /\ [Next]_vars => [phase = "lexing" => Grown]_vars
  <2> SUFFICES ASSUME ParserInv, Next, phase = "lexing" PROVE Grown
    OBVIOUS
  <2>1. CASE NextMatch
    BY <2>1, MatchStep DEF ParserInv, StepOK
  <2>2. CASE EndOfFile
    BY <2>2, SamePrefix DEF EndOfFile, ParserInv
  <2> QED
    BY <2>1, <2>2 DEF Next, NewParser
<1> QED
  BY <1>1, ParserInitial, ParserStep, PTL DEF Spec

(* The stack of conditions underflows, and LexerError ends the process, at *)
(* one place only: a list of durations or of resolutions is closed though  *)
(* the declaration has opened none.  The triggers and logs read before are *)
(* as they were.                                                           *)
THEOREM UnderflowOnlyWithoutList ==
  Spec => [][phase # "exited" /\ phase' = "exited" => Ended]_vars
<1>1. ParserInv /\ [Next]_vars => [phase # "exited" /\ phase' = "exited" => Ended]_vars
  <2> SUFFICES ASSUME ParserInv, Next, phase # "exited", phase' = "exited" PROVE Ended
    OBVIOUS
  <2>1. CASE NextMatch
    BY <2>1, MatchStep DEF ParserInv, StepOK
  <2> QED
    BY <2>1, NewParserStep, EndOfFileStep DEF Next
<1> QED
  BY <1>1, ParserInitial, ParserStep, PTL DEF Spec

-----------------------------------------------------------------------------
(* The text gets shorter                                                   *)

(* The keywords of a text of which a rule may take the first letter alone, *)
(* by their distance from its end.                                         *)
Compound(s) == Len(Letters(s.sym)) > 1

Compounds == {j \in 0 .. Len(text) - 1 : Compound(text[Len(text) - j])}

(* What is left to lex: no keyword is more than four letters to the rules, *)
(* and one that is broken up leaves three symbols for one.                 *)
Remaining == Len(text) + 3 * Cardinality(Compounds)

\* A keyword has one letter or up to four, and these are symbols of one.
LEMMA LettersAreSimple ==
  ASSUME NEW s \in Symbols
  PROVE  /\ Len(Letters(s)) \in 1 .. 4
         /\ Len(Letters(s)) > 1 =>
              \A i \in 1 .. Len(Letters(s)) : Len(Letters(Letters(s)[i])) = 1
<1>0. \A l \in {"m", "x", "d", "s"} : Len(Letters(l)) = 1
  BY DEF Letters
<1>1. CASE s = "memory"
  BY <1>0, <1>1 DEF Letters
<1>2. CASE s = "disk"
  BY <1>0, <1>2 DEF Letters
<1>3. CASE s = "mb"
  BY <1>0, <1>3 DEF Letters
<1>4. CASE s \in {"last", "resolution"}
  <2>1. Letters(s) = <<"x", "s", "x">>
    BY <1>4 DEF Letters
  <2> QED
    BY <1>0, <2>1
<1>5. CASE s = "under"
  BY <1>0, <1>5 DEF Letters
<1>6. CASE s \notin {"memory", "disk", "mb", "last", "resolution", "under"}
  <2>1. Letters(s) = <<s>>
    BY <1>6 DEF Letters
  <2> QED
    BY <2>1
<1> QED
  BY <1>1, <1>2, <1>3, <1>4, <1>5, <1>6

LEMMA SymIsSimple ==
  ASSUME NEW s \in Symbols, Len(Letters(s)) = 1
  PROVE  Sym(s) \in Symbol /\ ~ Compound(Sym(s))
<1>1. Sym(s).sym = s /\ Sym(s) \in Symbol
  BY DEF Sym, Symbol
<1>2. ~ (Len(Letters(s)) > 1)
  <2>1. \A n : n = 1 => ~ (n > 1)
    OBVIOUS
  <2> QED
    BY <2>1, Zenon
<1> QED
  BY <1>1, <1>2, Zenon DEF Compound

\* The compound keywords of a text are finitely many.
LEMMA CompoundsFinite ==
  ASSUME text \in Seq(Symbol)
  PROVE  IsFiniteSet(Compounds) /\ Cardinality(Compounds) \in Nat
<1>1. IsFiniteSet(0 .. Len(text) - 1) /\ Compounds \in SUBSET (0 .. Len(text) - 1)
  BY FS_Interval DEF Compounds
<1> QED
  BY <1>1, FS_Subset, FS_CardinalityType

\* Two lists, one behind the other.
LEMMA Joined ==
  ASSUME NEW S, NEW front \in Seq(S), NEW rest \in Seq(S), NEW whole, whole = front \o rest
  PROVE  /\ whole \in Seq(S) /\ Len(whole) = Len(front) + Len(rest)
         /\ \A i \in 1 .. Len(whole) :
              whole[i] = IF i <= Len(front) THEN front[i] ELSE rest[i - Len(front)]
  BY ConcatProperties

\* What follows k symbols of the text, behind simple ones or none.
LEMMA SuffixCompounds ==
  ASSUME text \in Seq(Symbol), NEW k \in 1 .. Len(text), NEW front \in Seq(Symbol),
         text' = front \o SubSeq(text, k + 1, Len(text)),
         \A i \in 1 .. Len(front) : ~ Compound(front[i])
  PROVE  /\ text' \in Seq(Symbol) /\ Len(text') = Len(front) + Len(text) - k
         /\ Compounds' \subseteq {j \in Compounds : j < Len(text) - k}
<1> DEFINE rest == SubSeq(text, k + 1, Len(text))
<1>1. /\ rest \in Seq(Symbol) /\ Len(rest) = Len(text) - k
      /\ \A i \in 1 .. Len(text) - k : rest[i] = text[k + i]
  OBVIOUS
<1> HIDE DEF rest
<1>2. /\ text' = front \o rest /\ Len(front) \in Nat /\ Len(text) \in Nat
  BY DEF rest
<1>3. /\ text' \in Seq(Symbol) /\ Len(text') = Len(front) + Len(rest)
      /\ \A i \in 1 .. Len(text') :
           text'[i] = IF i <= Len(front) THEN front[i] ELSE rest[i - Len(front)]
  <2>1. text' = front \o rest /\ rest \in Seq(Symbol) /\ front \in Seq(Symbol)
    BY <1>1, <1>2
  <2>2. ASSUME NEW whole, whole = front \o rest
        PROVE  /\ whole \in Seq(Symbol) /\ Len(whole) = Len(front) + Len(rest)
               /\ \A i \in 1 .. Len(whole) :
                    whole[i] = IF i <= Len(front) THEN front[i] ELSE rest[i - Len(front)]
    BY <2>1, <2>2, Joined
  <2> QED
    BY <2>1, <2>2, Zenon
<1>4. ASSUME NEW j \in Compounds' PROVE j \in Compounds /\ j < Len(text) - k
  <2>1. j \in 0 .. Len(text') - 1 /\ Compound(text'[Len(text') - j])
    BY DEF Compounds, Compound
  <2> DEFINE i == Len(text') - j
  <2>2. /\ i \in 1 .. Len(text') /\ Compound(text'[i])
        /\ i - Len(front) = Len(text) - k - j
    <3>1. i \in 1 .. Len(text') /\ i - Len(front) = Len(text) - k - j
      <4>1. Len(text') = Len(front) + (Len(text) - k) /\ Len(text') \in Nat /\ j \in 0 .. Len(text') - 1
        BY <2>1, <1>1, <1>2, <1>3
      <4> QED
        BY <4>1, <1>2
    <3> QED
      BY <2>1, <3>1, Zenon
  <2> HIDE DEF i
  <2>3. text'[i] = IF i <= Len(front) THEN front[i] ELSE rest[i - Len(front)]
    BY <2>2, <1>3
  <2>4. i > Len(front)
    <3> SUFFICES ASSUME i <= Len(front) PROVE FALSE
      BY <2>2, <1>2, <1>3
    <3>1. i \in 1 .. Len(front) /\ text'[i] = front[i]
      BY <2>2, <2>3
    <3> QED
      BY <3>1, <2>2
  <2>5. Len(text) - k - j \in 1 .. Len(text) - k /\ k + (Len(text) - k - j) = Len(text) - j
    <3>1. ASSUME NEW a \in Int, NEW b \in Nat, NEW c \in Nat, NEW d \in Nat, NEW e \in Int,
                 a - b = c - d - e, a > b, e >= 0
          PROVE  c - d - e \in 1 .. c - d /\ d + (c - d - e) = c - e
      BY <3>1
    <3>2. i \in Int /\ k \in Nat /\ j \in Int /\ j >= 0
      BY <2>1, <2>2
    <3> QED
      BY <2>2, <2>4, <3>1, <3>2, <1>2
  <2>6. text'[i] = rest[Len(text) - k - j]
    BY <2>2, <2>3, <2>4, <1>2
  <2>7. rest[Len(text) - k - j] = text[Len(text) - j]
    BY <2>5, <1>1
  <2>8. j < Len(text) - k /\ j \in 0 .. Len(text) - 1
    BY <2>1, <2>5, <1>2
  <2> QED
    BY <2>2, <2>6, <2>7, <2>8 DEF Compounds
<1> QED
  BY <1>1, <1>3, <1>4

LEMMA SmallNumber == \A n \in 1 .. 4 : n - 1 \in Nat /\ (n = 1 \/ n > 1)
  OBVIOUS

\* A match that takes something leaves less.
LEMMA RestIsLess ==
  ASSUME text \in Seq(Symbol), NEW p \in 1 .. 2 * Len(text), text' = Rest(p)
  PROVE  Remaining' < Remaining
<1> DEFINE k == p \div 2
<1>1. k \in Nat /\ k <= Len(text) /\ (p % 2 # 0 => k < Len(text)) /\ (p % 2 = 0 => k >= 1)
  OBVIOUS
<1>2. CASE p % 2 = 0
  <2>1. text' = <<>> \o SubSeq(text, k + 1, Len(text)) /\ <<>> \in Seq(Symbol) /\ Len(<<>>) = 0
    BY <1>1, <1>2 DEF Rest
  <2>2. Len(text') = Len(text) - k /\ Compounds' \in SUBSET Compounds
    <3>1. k \in 1 .. Len(text) /\ Len(text) \in Nat
      BY <1>1, <1>2
    <3> HIDE DEF k
    <3>2. \A i \in 1 .. Len(<<>>) : ~ Compound(<<>>[i])
      BY <2>1
    <3>3. /\ Len(text') = Len(<<>>) + Len(text) - k
          /\ Compounds' \subseteq {j \in Compounds : j < Len(text) - k}
      BY <2>1, <3>1, <3>2, SuffixCompounds
    <3> QED
      BY <2>1, <3>1, <3>3
  <2>3. Cardinality(Compounds') <= Cardinality(Compounds) /\ Cardinality(Compounds') \in Nat
    BY <2>2, CompoundsFinite, FS_Subset, FS_CardinalityType
  <2> QED
    BY <1>1, <1>2, <2>2, <2>3, CompoundsFinite DEF Remaining
<1>3. CASE p % 2 # 0
  <2> DEFINE first   == text[k + 1].sym
             letters == Letters(first)
             front   == [i \in 1 .. Len(letters) - 1 |-> Sym(letters[i + 1])]
  <2>1. first \in Symbols
    <3>1. text[k + 1] \in Symbol
      BY <1>1, <1>3
    <3> QED
      BY <3>1 DEF Symbol
  <2> HIDE DEF first
  <2>2. /\ letters \in Seq(Symbols) /\ Len(letters) \in 1 .. 4
        /\ Len(letters) > 1 => \A i \in 1 .. Len(letters) : Len(Letters(letters[i])) = 1
    BY <2>1, LettersType, LettersAreSimple
  <2> HIDE DEF letters
  <2>3. ASSUME NEW i \in 1 .. Len(letters) - 1
        PROVE  Sym(letters[i + 1]) \in Symbol /\ ~ Compound(Sym(letters[i + 1]))
    <3>1. letters[i + 1] \in Symbols /\ Len(Letters(letters[i + 1])) = 1
      BY <2>2
    <3> QED
      BY <3>1, SymIsSimple
  <2>4. front \in Seq(Symbol) /\ Len(front) = Len(letters) - 1
    <3>1. Len(letters) - 1 \in Nat
      BY <2>2, SmallNumber
    <3> QED
      BY <2>3, <3>1
  <2>5. \A i \in 1 .. Len(front) : ~ Compound(front[i])
    BY <2>3, <2>4
  <2>6. text' = front \o SubSeq(text, (k + 1) + 1, Len(text))
    <3>1. Rest(p) = front \o SubSeq(text, k + 2, Len(text))
      BY <1>3 DEF Rest, letters, first
    <3>2. k + 2 = (k + 1) + 1
      BY <1>1
    <3> QED
      BY <3>1, <3>2
  <2>7. k + 1 \in 1 .. Len(text)
    BY <1>1, <1>3
  <2> HIDE DEF front, k
  <2>8. /\ Len(text') = Len(front) + Len(text) - (k + 1)
        /\ Compounds' \subseteq {j \in Compounds : j < Len(text) - (k + 1)}
    BY <2>4, <2>5, <2>6, <2>7, SuffixCompounds
  <2> DEFINE j == Len(text) - (k + 1)
  <2>9. Cardinality(Compounds') \in Nat /\ Cardinality(Compounds') <= Cardinality(Compounds)
    BY <2>8, CompoundsFinite, FS_Subset, FS_CardinalityType
  <2>10. CASE Len(letters) = 1
    BY <2>4, <2>7, <2>8, <2>9, <2>10, CompoundsFinite DEF Remaining
  <2>11. CASE Len(letters) > 1
    <3>1. j \in Compounds
      <4>1. j \in 0 .. Len(text) - 1 /\ Len(text) - j = k + 1
        BY <2>7
      <4> QED
        BY <4>1, <2>11 DEF Compounds, Compound, letters, first
    <3>2. Compounds' \in SUBSET (Compounds \ {j})
      BY <2>8, <2>7
    <3>3. Cardinality(Compounds \ {j}) = Cardinality(Compounds) - 1 /\ IsFiniteSet(Compounds \ {j})
      BY <3>1, CompoundsFinite, FS_RemoveElement
    <3>4. Cardinality(Compounds') <= Cardinality(Compounds) - 1
      BY <3>2, <3>3, FS_Subset
    <3>5. Len(text') <= 3 + Len(text) - (k + 1)
      BY <2>2, <2>4, <2>7, <2>8
    <3>6. Len(text') \in Int /\ Len(text) \in Nat /\ k + 1 >= 1 /\ k + 1 \in Nat
      BY <2>2, <2>4, <2>7, <2>8
    <3> QED
      BY <3>4, <3>5, <3>6, <2>9, CompoundsFinite DEF Remaining
  <2>12. Len(letters) = 1 \/ Len(letters) > 1
    BY <2>2, SmallNumber
  <2> QED
    BY <2>10, <2>11, <2>12
<1> QED
  BY <1>2, <1>3

(* Every match, the default rule's included, leaves less to lex than there *)
(* was: whichever rules are active and however the text is damaged, the    *)
(* lexer cannot stay where it is, also where a rule may match nothing or a *)
(* keyword falls apart into letters.                                       *)
THEOREM EveryMatchShortens == Spec => [][NextMatch => Remaining' < Remaining]_vars
<1>1. ASSUME TypeOK, NextMatch PROVE Remaining' < Remaining
  <2>1. PICK m \in Winners(Found) : Match(m)
    BY <1>1 DEF NextMatch
  <2>2. text \in Seq(Symbol) /\ text # <<>> /\ Len(text) \in Nat /\ Len(text) >= 1
    BY <1>1, TypeParts, HeadType DEF NextMatch
  <2>3. CASE Echo(m)
    <3>1. {1, 2} \subseteq 1 .. 2 * Len(text)
      BY <2>2
    <3> QED
      BY <2>2, <2>3, <3>1, RestIsLess DEF Echo
  <2>4. ASSUME NEW action, Matched(m, action) PROVE Remaining' < Remaining
    <3>1. m.end \in 1 .. 2 * Len(text) /\ text' = Rest(m.end)
      BY <2>2, <2>4, WinnerType DEF Matched
    <3> QED
      BY <2>2, <3>1, RestIsLess
  <2>5. Echo(m) \/ \E action \in Plain \cup Pops \cup
          {"Push", "TriggerResource", "PushValues", "SetUnit", "AddElement", "NextDuration",
           "LogResource"} : Matched(m, action)
    BY <2>1 DEF Match, Skip, Push, TriggerResource, PushValues, ReadValue, SetUnit, NextValue,
         EndValues, SingleValue, ReadElement, AddElement, NextDuration, EndTrigger, LogResource,
         EndLogDurations, EndLog, Plain, Pops
  <2> QED
    BY <2>3, <2>4, <2>5
<1>2. ParserInv /\ [Next]_vars => [NextMatch => Remaining' < Remaining]_vars
  BY <1>1 DEF ParserInv
<1> QED
  BY <1>2, ParserInitial, ParserStep, PTL DEF Spec
=============================================================================
