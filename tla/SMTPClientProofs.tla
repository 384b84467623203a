------------------------- MODULE SMTPClientProofs -------------------------
(***************************************************************************)
(* What a mail server is given, for any letters, any number of calls of    *)
(* sendEmail and any point at which the network fails.                     *)
(***************************************************************************)
EXTENDS SMTPClient, SequenceTheorems, TLAPS

(* The lines that occur in letters.                                        *)
Words == {"EHLO", "AUTH LOGIN", "user", "password", "MAIL FROM", "RCPT TO",
          "DATA", "SUBJECT", "From", "", "text", "."}
Args == {""} \cup UNION {{l.from, l.subject, l.message} \cup Range(l.to) : l \in Letters}
Lines == Words \X Args

ClientTypeOK ==
  /\ letter \in Letters /\ calls \in Seq(Letters)
  /\ op \in {"resolve", "connect", "read", "none"}
  /\ connection \in {"none", "open", "closed"}
  /\ caller \in {"idle", "running", "returned", "threw"}
  /\ toWrite \in Seq(Lines) /\ written \in Seq(Lines)

(* Only the first call can connect: it is the one that runs while the name *)
(* is resolved and the connection made, and nothing is written before.     *)
FirstCallConnects ==
  /\ calls = <<>> <=> caller = "idle"
  /\ calls = <<>> => op = "resolve"
  /\ op \in {"resolve", "connect"} =>
       /\ connection = "none"
       /\ calls # <<>> => caller = "running" /\ Len(calls) = 1 /\ letter = calls[1]
  /\ connection = "none" => written = <<>> /\ toWrite = <<>> /\ op # "read"
  /\ connection = "none" /\ op = "none" => hasError

(* While the first call writes, what is written and what is left make up   *)
(* its letter; lines are left only then.                                   *)
WholeLetter ==
  /\ toWrite # <<>> => caller = "running" /\ Len(calls) = 1
  /\ connection # "none" /\ caller = "running" /\ Len(calls) = 1
       => written \o toWrite = Script(calls[1])

ClientInv ==
  ClientTypeOK /\ FirstCallConnects /\ WholeLetter /\ OneLetterInOrder /\ ReturnMeansWritten

-----------------------------------------------------------------------------
(* Five or seven elements of a set make a sequence over it.                *)
LEMMA SevenInSeq ==
  ASSUME NEW S, NEW a \in S, NEW b \in S, NEW c \in S, NEW d \in S, NEW e \in S,
         NEW f \in S, NEW g \in S
  PROVE  <<a, b, c, d, e>> \in Seq(S) /\ <<a, b, c, d, e, f, g>> \in Seq(S)
  OBVIOUS

(* A letter's script is a sequence of lines.                               *)
LEMMA ScriptType == \A l \in Letters : Script(l) \in Seq(Lines)
<1> SUFFICES ASSUME NEW l \in Letters PROVE Script(l) \in Seq(Lines)
  OBVIOUS
<1> DEFINE first == <<Line("EHLO", ""), Line("AUTH LOGIN", ""), Line("user", ""),
                      Line("password", ""), Line("MAIL FROM", l.from)>>
           middle == [i \in 1 .. Len(l.to) |-> Line("RCPT TO", l.to[i])]
           last == <<Line("DATA", ""), Line("SUBJECT", l.subject), Line("From", l.from),
                     Line("", ""), Line("text", l.message), Line(".", ""), Line("", "")>>
<1>1. ASSUME NEW w \in Words, NEW a \in {"", l.from, l.subject, l.message} \cup Range(l.to)
      PROVE  Line(w, a) \in Lines
  <2>1. a \in Args
    <3>1. CASE a = ""
      BY <3>1 DEF Args
    <3>2. CASE a \in {l.from, l.subject, l.message} \cup Range(l.to)
      BY <3>2 DEF Args
    <3> QED
      BY <3>1, <3>2
  <2> QED
    BY <2>1 DEF Lines, Line
<1>2. first \in Seq(Lines)
  <2>1. Line("EHLO", "") \in Lines /\ Line("AUTH LOGIN", "") \in Lines
    BY <1>1 DEF Words
  <2>2. Line("user", "") \in Lines /\ Line("password", "") \in Lines
    BY <1>1 DEF Words
  <2>3. Line("MAIL FROM", l.from) \in Lines
    BY <1>1 DEF Words
  <2> QED
    BY <2>1, <2>2, <2>3, SevenInSeq
<1>3. middle \in Seq(Lines)
  <2>1. l.to \in Seq(Range(l.to))
    BY LettersAssumption
  <2>2. Len(l.to) \in Nat
    BY <2>1, LenProperties
  <2>3. ASSUME NEW i \in 1 .. Len(l.to) PROVE Line("RCPT TO", l.to[i]) \in Lines
    <3>1. l.to[i] \in Range(l.to)
      BY <2>1, ElementOfSeq
    <3> QED
      BY <1>1, <3>1 DEF Words
  <2>4. middle \in [1 .. Len(l.to) -> Lines]
    BY <2>3
  <2> QED
    BY <2>2, <2>4, SeqDef
<1>4. last \in Seq(Lines)
  <2>1. Line("DATA", "") \in Lines /\ Line("", "") \in Lines /\ Line(".", "") \in Lines
    BY <1>1 DEF Words
  <2>2. Line("SUBJECT", l.subject) \in Lines
    BY <1>1 DEF Words
  <2>3. Line("From", l.from) \in Lines /\ Line("text", l.message) \in Lines
    BY <1>1 DEF Words
  <2> QED
    BY <2>1, <2>2, <2>3, SevenInSeq
<1>5. first \o middle \in Seq(Lines)
  BY <1>2, <1>3, ConcatProperties
<1>6. (first \o middle) \o last \in Seq(Lines)
  BY <1>4, <1>5, ConcatProperties
<1> QED
  BY <1>6 DEF Script

(* Moving the first element over leaves the whole as it was.               *)
LEMMA MoveHead ==
  ASSUME NEW S, NEW s \in Seq(S), NEW t \in Seq(S), t # <<>>
  PROVE  /\ Append(s, Head(t)) \in Seq(S) /\ Tail(t) \in Seq(S)
         /\ Append(s, Head(t)) \o Tail(t) = s \o t
<1>1. Head(t) \in S /\ Tail(t) \in Seq(S) /\ Len(Tail(t)) = Len(t) - 1
      /\ \A i \in 1 .. Len(Tail(t)) : Tail(t)[i] = t[i + 1]
  BY HeadTailProperties
<1>2. Append(s, Head(t)) \in Seq(S) /\ Len(Append(s, Head(t))) = Len(s) + 1
      /\ \A i \in 1 .. Len(s) : Append(s, Head(t))[i] = s[i]
      /\ Append(s, Head(t))[Len(s) + 1] = t[1]
  BY <1>1
<1>3. Len(s) \in Nat /\ Len(t) \in Nat /\ Len(t) # 0
  BY LenProperties, EmptySeq
<1> DEFINE u == Append(s, Head(t)) \o Tail(t)
<1>4. u \in Seq(S) /\ Len(u) = Len(s) + 1 + (Len(t) - 1)
      /\ \A i \in 1 .. Len(u) : u[i] = IF i <= Len(s) + 1 THEN Append(s, Head(t))[i]
                                                           ELSE Tail(t)[i - (Len(s) + 1)]
  BY <1>1, <1>2, <1>3, ConcatProperties
<1>5. s \o t \in Seq(S) /\ Len(s \o t) = Len(s) + Len(t)
      /\ \A i \in 1 .. Len(s) + Len(t) : (s \o t)[i] = IF i <= Len(s) THEN s[i] ELSE t[i - Len(s)]
  BY ConcatProperties
<1>6. Len(u) = Len(s \o t)
  BY <1>3, <1>4, <1>5
<1>7. ASSUME NEW i \in 1 .. Len(u) PROVE u[i] = (s \o t)[i]
  <2>1. CASE i <= Len(s)
    BY <1>2, <1>3, <1>4, <1>5, <2>1
  <2>2. CASE i = Len(s) + 1
    BY <1>2, <1>3, <1>4, <1>5, <2>2
  <2>3. CASE i > Len(s) + 1
    <3>1. i - (Len(s) + 1) \in 1 .. Len(Tail(t))
      BY <1>1, <1>3, <1>4, <2>3
    <3>2. Tail(t)[i - (Len(s) + 1)] = t[i - Len(s)]
      BY <1>1, <1>3, <3>1
    <3> QED
      BY <1>3, <1>4, <1>5, <2>3, <3>2
  <2> QED
    BY <1>3, <2>1, <2>2, <2>3
<1>8. u = s \o t
  BY <1>4, <1>5, <1>6, <1>7, SeqEqual
<1> QED
  BY <1>1, <1>2, <1>8

(* What comes first in a concatenation is a prefix of it.                  *)
LEMMA FirstPartIsPrefix ==
  ASSUME NEW S, NEW s \in Seq(S), NEW t \in Seq(S)
  PROVE  IsPrefix(s, s \o t)
<1>1. Len(s) \in Nat /\ Len(t) \in Nat
  BY LenProperties
<1>2. Len(s) <= Len(s \o t)
  BY <1>1, ConcatProperties
<1>3. SubSeq(s, 1, Len(s)) = SubSeq(s \o t, 1, Len(s))
  <2>1. CASE Len(s) = 0
    BY <2>1, SubSeqEmpty
  <2>2. CASE Len(s) # 0
    BY <1>1, <2>2, SubSeqOfConcat1
  <2> QED
    BY <2>1, <2>2
<1> QED
  BY <1>2, <1>3 DEF IsPrefix

(* The first call of a sequence of calls stays the first.                  *)
LEMMA FirstCallStays ==
  ASSUME NEW S, NEW s \in Seq(S), NEW e \in S
  PROVE  /\ Append(s, e) \in Seq(S) /\ Append(s, e) # <<>> /\ Len(Append(s, e)) = Len(s) + 1
         /\ s = <<>> => Append(s, e)[1] = e
         /\ s # <<>> => Append(s, e)[1] = s[1] /\ Len(Append(s, e)) # 1
<1>1. Len(s) \in Nat /\ (s # <<>> => Len(s) # 0) /\ (s = <<>> => Len(s) = 0)
  BY LenProperties, EmptySeq
<1>2. Append(s, e) \in Seq(S) /\ Len(Append(s, e)) = Len(s) + 1
  OBVIOUS
<1>3. Append(s, e)[1] = IF Len(s) = 0 THEN e ELSE s[1]
  BY <1>1
<1>4. Append(s, e) # <<>>
  BY <1>1, <1>2, EmptySeq
<1> QED
  BY <1>1, <1>2, <1>3, <1>4

-----------------------------------------------------------------------------
LEMMA InitInv == Init => ClientInv
  BY EmptySeq
  DEF Init, ClientInv, ClientTypeOK, FirstCallConnects, WholeLetter, OneLetterInOrder,
      ReturnMeansWritten

(* The types are kept by every step.                                       *)
LEMMA StepType == ClientInv /\ [Next]_vars => ClientTypeOK'
<1> SUFFICES ASSUME ClientInv, [Next]_vars PROVE ClientTypeOK'
  OBVIOUS
<1> USE DEF ClientInv, ClientTypeOK, network
<1>1. CASE sendEmail
  <2>1. letter' \in Letters /\ calls' \in Seq(Letters)
    BY <1>1, FirstCallStays DEF sendEmail
  <2> QED
    BY <1>1, <2>1 DEF sendEmail
<1>2. CASE handleResolve
  BY <1>2 DEF handleResolve, Start, Done
<1>3. CASE handleConnect
  BY <1>3, ScriptType DEF handleConnect, Start, Done
<1>4. CASE handleRead
  BY <1>4 DEF handleRead, Done
<1>5. CASE writeLine
  <2>1. written' \in Seq(Lines) /\ toWrite' \in Seq(Lines)
    BY <1>5, MoveHead DEF writeLine
  <2> QED
    BY <1>5, <2>1 DEF writeLine
<1>6. CASE writeLineFails
  BY <1>6, EmptySeq DEF writeLineFails
<1>7. CASE RunReturns
  BY <1>7 DEF RunReturns
<1>8. CASE NetworkAnswers \/ PeerReplies \/ PeerCloses
  BY <1>8 DEF NetworkAnswers, PeerReplies, PeerCloses
<1>9. CASE UNCHANGED vars
  BY <1>9 DEF vars
<1> QED
  BY <1>1, <1>2, <1>3, <1>4, <1>5, <1>6, <1>7, <1>8, <1>9 DEF Next, Client

(* After a call of sendEmail the first letter is the one it was, if there  *)
(* was one: a later call finds the name resolved.                          *)
LEMMA CallStep == ClientInv /\ sendEmail => ClientInv'
<1> SUFFICES ASSUME ClientInv, sendEmail PROVE ClientInv'
  OBVIOUS
<1> USE DEF ClientInv, sendEmail, network
<1>1. ClientTypeOK'
  BY StepType DEF Next
<1>2. /\ calls' # <<>> /\ Len(calls') = Len(calls) + 1
      /\ calls = <<>> => calls'[1] = letter' /\ Len(calls') = 1
      /\ calls # <<>> => calls'[1] = calls[1] /\ Len(calls') # 1
  BY FirstCallStays, EmptySeq DEF ClientTypeOK
<1>3. FirstCallConnects'
  BY <1>2 DEF FirstCallConnects
<1>4. WholeLetter'
  BY <1>2 DEF WholeLetter, FirstCallConnects
<1>5. OneLetterInOrder'
  <2>1. CASE calls = <<>>
    <3>1. Script(calls'[1]) \in Seq(Lines)
      BY <1>1, <1>2, <2>1, ScriptType DEF ClientTypeOK
    <3>2. IsPrefix(<<>>, <<>> \o Script(calls'[1]))
      BY <3>1, EmptySeq, FirstPartIsPrefix
    <3>3. IsPrefix(<<>>, Script(calls'[1]))
      BY <3>1, <3>2, ConcatEmptySeq
    <3> QED
      BY <1>2, <2>1, <3>3 DEF OneLetterInOrder
  <2>2. CASE calls # <<>>
    BY <1>2, <2>2 DEF OneLetterInOrder
  <2> QED
    BY <2>1, <2>2
<1>6. ReturnMeansWritten'
  BY DEF ReturnMeansWritten
<1> QED
  BY <1>1, <1>3, <1>4, <1>5, <1>6

(* The letter that a connection that succeeds starts to write is the first *)
(* call's; a connection that fails is reported.                            *)
LEMMA ConnectStep == ClientInv /\ handleConnect => ClientInv'
<1> SUFFICES ASSUME ClientInv, handleConnect PROVE ClientInv'
  OBVIOUS
<1> USE DEF ClientInv, handleConnect, Handling
<1>1. ClientTypeOK'
  BY StepType DEF Next, Client
<1>2. calls # <<>> /\ Len(calls) = 1 /\ letter = calls[1] /\ written = <<>> /\ toWrite = <<>>
  BY DEF FirstCallConnects
<1>3. Script(letter) \in Seq(Lines)
  BY ScriptType DEF ClientTypeOK
<1>4. CASE outcome = "ok"
  <2>1. written' \o toWrite' = Script(calls'[1])
    BY <1>2, <1>3, <1>4, ConcatEmptySeq
  <2> QED
    BY <1>1, <1>2, <1>4, <2>1
    DEF Start, FirstCallConnects, WholeLetter, OneLetterInOrder, ReturnMeansWritten
<1>5. CASE outcome # "ok"
  BY <1>1, <1>2, <1>5
  DEF Done, FirstCallConnects, WholeLetter, OneLetterInOrder, ReturnMeansWritten
<1> QED
  BY <1>4, <1>5

(* A line that is written is the next of the letter.                       *)
LEMMA WriteStep == ClientInv /\ (writeLine \/ writeLineFails) => ClientInv'
<1> SUFFICES ASSUME ClientInv, writeLine \/ writeLineFails PROVE ClientInv'
  OBVIOUS
<1> USE DEF ClientInv, network
<1>1. ClientTypeOK'
  BY StepType DEF Next, Client
<1>2. caller = "running" /\ Len(calls) = 1 /\ connection # "none" /\ toWrite # <<>>
  BY DEF writeLine, writeLineFails, WholeLetter, FirstCallConnects
<1>3. calls # <<>>
  BY <1>2 DEF FirstCallConnects
<1>4. CASE writeLine
  <2>1. written' \in Seq(Lines) /\ toWrite' \in Seq(Lines)
        /\ written' \o toWrite' = written \o toWrite
    BY <1>2, <1>4, MoveHead DEF writeLine, ClientTypeOK
  <2>2. written' \o toWrite' = Script(calls[1])
    BY <1>2, <2>1 DEF WholeLetter
  <2>3. IsPrefix(written', Script(calls[1]))
    BY <2>1, <2>2, FirstPartIsPrefix
  <2> QED
    BY <1>1, <1>2, <1>3, <1>4, <2>2, <2>3
    DEF writeLine, FirstCallConnects, WholeLetter, OneLetterInOrder, ReturnMeansWritten
<1>5. CASE writeLineFails
  BY <1>1, <1>2, <1>3, <1>5
  DEF writeLineFails, FirstCallConnects, WholeLetter, OneLetterInOrder, ReturnMeansWritten
<1> QED
  BY <1>4, <1>5

LEMMA StepInv == ClientInv /\ [Next]_vars => ClientInv'
<1> SUFFICES ASSUME ClientInv, [Next]_vars PROVE ClientInv'
  OBVIOUS
<1>1. ClientTypeOK'
  BY StepType
<1> USE DEF ClientInv, network, FirstCallConnects, WholeLetter, OneLetterInOrder,
            ReturnMeansWritten
<1>2. CASE handleResolve
  BY <1>1, <1>2 DEF handleResolve, Handling, Start, Done, ClientTypeOK
<1>3. CASE handleRead
  BY <1>1, <1>3 DEF handleRead, Handling, Done, ClientTypeOK
<1>4. CASE RunReturns
  <2>1. Len(calls) = 1 => hasError \/ written = Script(calls[1])
    <3> SUFFICES ASSUME Len(calls) = 1, connection # "none"
                 PROVE  written = Script(calls[1])
      BY <1>4 DEF RunReturns
    <3>1. written \o <<>> = Script(calls[1])
      BY <1>4 DEF RunReturns
    <3> QED
      BY <3>1, ConcatEmptySeq DEF ClientTypeOK
  <2> QED
    BY <1>1, <1>4, <2>1 DEF RunReturns, ClientTypeOK
<1>5. CASE NetworkAnswers \/ PeerReplies \/ PeerCloses
  BY <1>1, <1>5 DEF NetworkAnswers, PeerReplies, PeerCloses, ClientTypeOK
<1>6. CASE UNCHANGED vars
  BY <1>1, <1>6 DEF vars
<1> QED
  BY <1>2, <1>3, <1>4, <1>5, <1>6, CallStep, ConnectStep, WriteStep DEF Next, Client

-----------------------------------------------------------------------------
(* Whatever letters and however many calls, and wherever the network fails *)
(* the client: the server is given the lines of the first letter, in order *)
(* and without a gap (handleConnect, writeLine).                           *)
THEOREM LetterInOrder == Spec => []OneLetterInOrder
<1>1. ClientInv => OneLetterInOrder
  BY DEF ClientInv
<1> QED
  BY <1>1, InitInv, StepInv, PTL DEF Spec

(* A first call that returns false has written the whole letter            *)
(* (sendEmail, handleResolve, handleConnect).                              *)
THEOREM FalseMeansWritten == Spec => []ReturnMeansWritten
<1>1. ClientInv => ReturnMeansWritten
  BY DEF ClientInv
<1> QED
  BY <1>1, InitInv, StepInv, PTL DEF Spec

-----------------------------------------------------------------------------
(* The way to the end of sendEmail                                         *)

Stage == CASE op = "resolve" -> 3 [] op = "connect" -> 2 [] op = "read" -> 1 [] op = "none" -> 0

(* What a call still has ahead of it: operations to start and to end,      *)
(* lines to write, and the one time the peer may close the connection.     *)
Ahead ==
  2 * Stage + (IF outcome = "pending" THEN 1 ELSE 0)
  + (IF op \in {"resolve", "connect"} THEN Len(Script(letter)) ELSE Len(toWrite))
  + (IF connection = "closed" THEN 0 ELSE 1)

LEMMA ScriptLength == ClientInv => Len(Script(letter)) \in Nat /\ Len(toWrite) \in Nat
  BY ScriptType, LenProperties DEF ClientInv, ClientTypeOK

(* Whatever happens while sendEmail runs, of the client, the network or    *)
(* the peer, it throws, it returns, or it has less ahead of it than        *)
(* before, so it ends unless it is left to wait (handleResolve,            *)
(* handleConnect, writeLine).                                              *)
THEOREM SendEmailAdvances ==
  Spec => [][caller = "running" => caller' # "running" \/ Ahead' < Ahead]_vars
<1>1. ClientInv /\ [Next]_vars
        => [caller = "running" => caller' # "running" \/ Ahead' < Ahead]_vars
  <2> SUFFICES ASSUME ClientInv, Next, caller = "running", caller' = "running"
               PROVE  Ahead' < Ahead
    BY DEF vars
  <2>1. Len(Script(letter)) \in Nat /\ Len(toWrite) \in Nat /\ Len(<<>>) = 0
    BY ScriptLength, EmptySeq
  <2>2. op \in {"resolve", "connect", "read", "none"}
    BY DEF ClientInv, ClientTypeOK
  <2>3. ~ (sendEmail \/ writeLineFails \/ RunReturns)
    BY DEF sendEmail, writeLineFails, RunReturns
  <2>4. letter' = letter
    BY <2>3 DEF Next, Client, handleResolve, handleConnect, handleRead, writeLine,
                NetworkAnswers, PeerReplies, PeerCloses
  <2> DEFINE L == Len(Script(letter))
  <2>5. L \in Nat /\ Len(Script(letter')) = L
    BY <2>1, <2>4
  <2> HIDE DEF L
  <2>6. Ahead' = 2 * Stage' + (IF outcome' = "pending" THEN 1 ELSE 0)
                 + (IF op' \in {"resolve", "connect"} THEN L ELSE Len(toWrite'))
                 + (IF connection' = "closed" THEN 0 ELSE 1)
    BY <2>5 DEF Ahead
  <2>7. Ahead = 2 * Stage + (IF outcome = "pending" THEN 1 ELSE 0)
                + (IF op \in {"resolve", "connect"} THEN L ELSE Len(toWrite))
                + (IF connection = "closed" THEN 0 ELSE 1)
    BY DEF Ahead, L
  <2>8. CASE handleResolve
    BY <2>1, <2>5, <2>6, <2>7, <2>8 DEF handleResolve, Handling, Start, Done, Stage
  <2>9. CASE handleConnect
    <3>1. op = "connect" /\ outcome # "pending" /\ toWrite = <<>> /\ connection = "none"
      BY <2>9 DEF handleConnect, Handling, ClientInv, FirstCallConnects
    <3>2. CASE outcome = "ok"
      <4>1. op' = "read" /\ outcome' = "pending" /\ connection' = "open" /\ Len(toWrite') = L
        BY <2>9, <3>2 DEF handleConnect, Start, L
      <4> QED
        BY <2>5, <2>6, <2>7, <3>1, <4>1 DEF Stage
    <3>3. CASE outcome # "ok"
      <4>1. op' = "none" /\ outcome' = "ok" /\ connection' = connection /\ Len(toWrite') = 0
        BY <2>1, <2>9, <3>1, <3>3 DEF handleConnect, Done
      <4> QED
        BY <2>5, <2>6, <2>7, <3>1, <4>1 DEF Stage
    <3> QED
      BY <3>2, <3>3
  <2>10. CASE handleRead
    BY <2>1, <2>6, <2>7, <2>10 DEF handleRead, Handling, Done, Stage
  <2>11. CASE writeLine
    <3>1. op \notin {"resolve", "connect"} /\ op' = op /\ outcome' = outcome
          /\ connection' = connection /\ Stage' = Stage /\ Stage \in Nat
      BY <2>2, <2>11 DEF writeLine, network, ClientInv, FirstCallConnects, Stage
    <3>2. Len(toWrite') = Len(toWrite) - 1
      BY <2>11, HeadTailProperties DEF writeLine, ClientInv, ClientTypeOK
    <3> QED
      BY <2>1, <2>6, <2>7, <3>1, <3>2
  <2>12. CASE NetworkAnswers
    BY <2>1, <2>5, <2>6, <2>7, <2>12 DEF NetworkAnswers, Stage
  <2>13. CASE PeerReplies
    BY <2>1, <2>6, <2>7, <2>13 DEF PeerReplies, Stage
  <2>14. CASE PeerCloses
    <3>1. op \notin {"resolve", "connect"} /\ op' = op /\ Len(toWrite') = Len(toWrite)
          /\ Stage' = Stage /\ Stage \in Nat
      BY <2>2, <2>14 DEF PeerCloses, ClientInv, FirstCallConnects, Stage
    <3> QED
      BY <2>1, <2>6, <2>7, <2>14, <3>1 DEF PeerCloses
  <2> QED
    BY <2>3, <2>8, <2>9, <2>10, <2>11, <2>12, <2>13, <2>14 DEF Next, Client
<1> QED
  BY <1>1, InitInv, StepInv, PTL DEF Spec
=============================================================================
