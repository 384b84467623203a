----------------------- MODULE MCConfigurationParser -----------------------
(***************************************************************************)
(* Files for ConfigurationParser: one or two declarations in every         *)
(* spelling, whole, without the last newline, or with one symbol of the    *)
(* last declaration left out or written twice, and processes that parse a  *)
(* second file.                                                            *)
(***************************************************************************)
EXTENDS ConfigurationParser

P70 == <<70, "%">>   G2 == <<2, "gb">>   M5 == <<5, "mb">>
S1 == <<<<1, "s">>>>   H2M3 == <<<<2, "h">>, <<3, "m">>>>   D1 == <<<<1, "d">>>>

Trigger(r, f, vs, last, ds, braces) ==
  [kind |-> "trigger", resource |-> r, fluctuation |-> f, values |-> vs, last |-> last,
   durations |-> ds, braces |-> braces]

Log(r, ds, rs, braces) ==
  [kind |-> "log", resource |-> r, durations |-> ds, resolutions |-> rs, braces |-> braces]

Triggers ==
  {Trigger("cpu", "over", <<P70>>, <<"last">>, <<H2M3>>, <<FALSE, FALSE>>),
   Trigger("memory", "under", <<M5>>, <<"last", "for">>, <<S1>>, <<FALSE, TRUE>>),
   Trigger("disk", "under", <<G2, P70>>, <<"last", "for">>, <<D1>>, <<TRUE, FALSE>>),
   Trigger("disk", "over", <<P70, M5>>, <<"last">>, <<S1, H2M3>>, <<TRUE, TRUE>>)}

Logs ==
  {Log("cpu", <<H2M3>>, <<S1>>, <<FALSE, FALSE>>),
   Log("memory", <<D1, H2M3>>, <<S1>>, <<TRUE, FALSE>>),
   Log("disk", <<S1>>, <<S1, D1>>, <<FALSE, TRUE>>)}

Declarations == Triggers \cup Logs
Lines        == {<<d>> : d \in Declarations} \cup {<<c, d>> : c, d \in Declarations}

Good(ds)  == [text |-> Text(ds), good |-> TRUE, ended |-> TRUE, means |-> ds]
Unended(ds) == [text |-> Front(Text(ds)), good |-> TRUE, ended |-> FALSE, means |-> ds]

(* The last declaration of ds with its i-th symbol left out or repeated.   *)
Damaged(ds, i, twice) ==
  LET whole == Text(<<ds[Len(ds)]>>)
      cut   == SubSeq(whole, 1, IF twice THEN i ELSE i - 1) \o SubSeq(whole, i, Len(whole))
      left  == SubSeq(whole, 1, i - 1) \o SubSeq(whole, i + 1, Len(whole))
  IN [text |-> Text(Front(ds)) \o (IF twice THEN cut ELSE left),
      good |-> FALSE, ended |-> TRUE, means |-> Front(ds)]

(* Where to damage: every symbol but the final newline.                    *)
Places(ds) == 1 .. Len(Line(ds[Len(ds)]))

DamagedFiles(Few) ==
  UNION {{Damaged(ds, i, twice) : i \in Places(ds), twice \in BOOLEAN} : ds \in Few}

(* The good file that follows a damaged one.                               *)
Short == CHOOSE d \in Logs : d.resource = "disk"

(* The declaration without a brace that comes before a damaged one.        *)
Single == CHOOSE d \in Triggers : d.resource = "cpu"

MCInputs ==
  {<<Good(ds)>> : ds \in Lines} \cup {<<Unended(ds)>> : ds \in Lines}
    \cup {<<Good(<<c>>), Good(<<d>>)>> : c, d \in Declarations}
    \cup {<<f, Good(<<d>>)>> : f \in DamagedFiles({<<c>> : c \in Declarations}), d \in {Short}}
    \cup {<<f>> : f \in DamagedFiles({<<c, d>> : c \in {Short, Single}, d \in Declarations})}
=============================================================================
