------------------------ MODULE ConfigurationGrammar ------------------------
(***************************************************************************)
(* The configuration files of the monitor: the symbols they are written    *)
(* in, what a well-formed declaration looks like and which trigger and log *)
(* types it stands for.  A declaration is                                  *)
(*                                                                         *)
(*   trigger cpu over {70%, 80%} last for 1h30m                            *)
(*   log memory for {5m, 1h} resolution 10s                                *)
(*                                                                         *)
(* A list may have braces; without them it has one member.  A declaration  *)
(* means every combination of the members of its two lists.                *)
(*                                                                         *)
(* A text is a sequence of symbols [sym, n]: a keyword, a unit, a bracket, *)
(* a comma, one blank ("ws"), one newline ("nl"), or a number, whose value *)
(* is n.  The lexer works on characters and some of its rules match single *)
(* letters, so that a keyword no rule expects is read letter by letter:    *)
(* Letters gives the letters of a keyword that can matter, "x" standing    *)
(* for a run of letters that no rule begins with.                          *)
(***************************************************************************)
EXTENDS Naturals, Sequences, SequencesExt

Keywords == {"trigger", "log", "cpu", "memory", "disk", "over", "under",
             "last", "for", "resolution", "mb", "gb"}

DurationUnits == {"s", "m", "h", "d"}

Symbols == Keywords \cup DurationUnits
             \cup {"%", "{", "}", ",", "ws", "nl", "number", "x"}

Symbol    == [sym : Symbols, n : Nat]
Sym(s)    == [sym |-> s, n |-> 0]
Number(k) == [sym |-> "number", n |-> k]

(* The characters of a keyword, as far as a rule of the lexer can tell.    *)
Letters(s) ==
  CASE s = "memory"                    -> <<"m", "x", "m", "x">>
    [] s = "disk"                      -> <<"d", "x", "s", "x">>
    [] s = "mb"                        -> <<"m", "x">>
    [] s \in {"last", "resolution"}    -> <<"x", "s", "x">>
    [] s = "under"                     -> <<"x", "d", "x">>
    [] OTHER                           -> <<s>>

SecondsIn(u) == CASE u = "s" -> 1 [] u = "m" -> 60 [] u = "h" -> 3600 [] u = "d" -> 86400

-----------------------------------------------------------------------------
(* Writing a declaration down.  An amount is <<number, unit>>; a duration  *)
(* is a sequence of amounts, added up; braced lists may have any length.   *)

Concat(ss) == FoldLeft(LAMBDA a, b : a \o b, <<>>, ss)

Amount(a) == <<Number(a[1]), Sym(a[2])>>

Written(duration) == Concat([i \in DOMAIN duration |-> Amount(duration[i])])

(* The members of a list, written down and separated by commas.            *)
List(members, braced) ==
  LET tail == [i \in 1 .. Len(members) - 1 |-> <<Sym(","), Sym("ws")>> \o members[i + 1]]
      body == members[1] \o Concat(tail)
  IN IF braced THEN <<Sym("{")>> \o body \o <<Sym("}")>> ELSE body

Words(ws) == Concat([i \in DOMAIN ws |-> <<Sym(ws[i]), Sym("ws")>>])

(* One line, without its newline.                                          *)
Line(d) ==
  LET Times(durations, braced) ==
        List([i \in DOMAIN durations |-> Written(durations[i])], braced)
  IN IF d.kind = "trigger"
       THEN Words(<<"trigger", d.resource, d.fluctuation>>)
              \o List([i \in DOMAIN d.values |-> Amount(d.values[i])], d.braces[1])
              \o <<Sym("ws")>> \o Words(d.last) \o Times(d.durations, d.braces[2])
       ELSE Words(<<"log", d.resource, "for">>) \o Times(d.durations, d.braces[1])
              \o <<Sym("ws")>> \o Words(<<"resolution">>)
              \o Times(d.resolutions, d.braces[2])

Text(ds) == Concat([i \in DOMAIN ds |-> Line(ds[i]) \o <<Sym("nl")>>])

-----------------------------------------------------------------------------
(* What a file of declarations means.                                      *)

Seconds(duration) ==
  FoldLeft(LAMBDA sum, a : sum + a[1] * SecondsIn(a[2]), 0, duration)

(* The combinations of the members of two lists, the first list outermost. *)
Cross(outer, inner) ==
  [k \in 1 .. Len(outer) * Len(inner) |->
     <<outer[((k - 1) \div Len(inner)) + 1], inner[((k - 1) % Len(inner)) + 1]>>]

Each(pairs, Made(_)) == [k \in DOMAIN pairs |-> Made(pairs[k])]

TriggersOf(ds) ==
  Concat([k \in DOMAIN ds |->
    IF ds[k].kind = "log" THEN <<>>
    ELSE Each(Cross(ds[k].values, ds[k].durations),
              LAMBDA p : [resource |-> ds[k].resource,
                          fluctuation |-> ds[k].fluctuation,
                          value |-> p[1][1], unit |-> p[1][2],
                          duration |-> Seconds(p[2])])])

LogsOf(ds) ==
  Concat([k \in DOMAIN ds |->
    IF ds[k].kind = "trigger" THEN <<>>
    ELSE Each(Cross(ds[k].durations, ds[k].resolutions),
              LAMBDA p : [resource |-> ds[k].resource,
                          duration |-> Seconds(p[1]), resolution |-> Seconds(p[2])])])
=============================================================================
