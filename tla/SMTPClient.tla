---------------------------- MODULE SMTPClient ----------------------------
(***************************************************************************)
(* SMTPClient: one object that writes one letter to a mail server.  The    *)
(* constructor starts to resolve the server's name; sendEmail stores the   *)
(* letter and runs the io_service, whose handlers connect, write every     *)
(* line without reading a reply, and wait for one reply.  Nothing of the   *)
(* client limits a write or the wait for the reply, and a write that fails *)
(* throws through sendEmail.                                               *)
(***************************************************************************)
EXTENDS Naturals, Sequences, SequencesExt

CONSTANTS
  Letters,     \* records [from, to, subject, message]; to is a sequence of addresses
  MaxCalls     \* bound on the calls of sendEmail of one object

\* The recipients are the elements of a vector.
ASSUME LettersAssumption == \A l \in Letters : l.to \in Seq(Range(l.to))

VARIABLES
  letter,      \* mFrom, mTo, mSubject, mMessage
  hasError,    \* mHasError
  op,          \* the asynchronous operation in progress: resolve, connect, read or none
  outcome,     \* what it came to: pending, ok, error
  connection,  \* none, open, or closed by the peer
  toWrite,     \* the lines handleConnect has yet to write
  written,     \* the lines handed to the connection
  stopped,     \* mIOService ran out of work
  caller,      \* idle, running, returned, threw
  calls        \* the letters of the calls of sendEmail so far

network == <<connection, op, outcome>>
vars == <<letter, hasError, network, toWrite, written, stopped, caller, calls>>

Line(word, arg) == <<word, arg>>

(* The lines of a letter, in the order handleConnect writes them.          *)
Script(l) ==
  <<Line("EHLO", ""), Line("AUTH LOGIN", ""), Line("user", ""), Line("password", ""),
    Line("MAIL FROM", l.from)>>
  \o [i \in 1 .. Len(l.to) |-> Line("RCPT TO", l.to[i])]
  \o <<Line("DATA", ""), Line("SUBJECT", l.subject), Line("From", l.from), Line("", ""),
       Line("text", l.message), Line(".", ""), Line("", "")>>

-----------------------------------------------------------------------------
(* The constructor; mHasError is left with whatever was in its place.      *)
Init ==
  /\ letter \in Letters /\ hasError \in BOOLEAN
  /\ op = "resolve" /\ outcome = "pending" /\ connection = "none"
  /\ toWrite = <<>> /\ written = <<>> /\ stopped = FALSE
  /\ caller = "idle" /\ calls = <<>>

(* sendEmail: the fields, then run, which returns at once when stopped.    *)
sendEmail ==
  /\ caller # "running" /\ Len(calls) < MaxCalls
  /\ letter' \in Letters
  /\ calls' = Append(calls, letter') /\ caller' = "running"
  /\ UNCHANGED <<hasError, network, toWrite, written, stopped>>

\* A handler is only called by run, and only when no other handler is running.
Handling(o) == caller = "running" /\ ~ stopped /\ toWrite = <<>> /\ op = o /\ outcome # "pending"

Start(o) == op' = o /\ outcome' = "pending"
Done == op' = "none" /\ outcome' = "ok"

\* The first endpoint of the name is the only one that is tried.
handleResolve ==
  /\ Handling("resolve")
  /\ IF outcome = "ok" THEN Start("connect") /\ UNCHANGED hasError
                       ELSE Done /\ hasError' = TRUE
  /\ UNCHANGED <<letter, connection, toWrite, written, stopped, caller, calls>>

\* Mutant: a connection that fails is tried again.
handleConnectAgain ==
  /\ Handling("connect")
  /\ IF outcome = "ok" THEN /\ Start("read") /\ connection' = "open"
                            /\ toWrite' = Script(letter) /\ UNCHANGED hasError
                       ELSE /\ Start("connect") /\ hasError' = TRUE
                            /\ UNCHANGED <<connection, toWrite>>
  /\ UNCHANGED <<letter, written, stopped, caller, calls>>

\* Mutant: a connection that fails is not reported.
handleConnectSilent ==
  /\ Handling("connect")
  /\ IF outcome = "ok" THEN /\ Start("read") /\ connection' = "open"
                            /\ toWrite' = Script(letter)
                       ELSE Done /\ UNCHANGED <<connection, toWrite>>
  /\ UNCHANGED <<letter, hasError, written, stopped, caller, calls>>

(* handleConnect: the read is started before the first line is written.    *)
handleConnect ==
  /\ Handling("connect")
  /\ IF outcome = "ok" THEN /\ Start("read") /\ connection' = "open"
                            /\ toWrite' = Script(letter) /\ UNCHANGED hasError
                       ELSE /\ Done /\ hasError' = TRUE
                            /\ UNCHANGED <<connection, toWrite>>
  /\ UNCHANGED <<letter, written, stopped, caller, calls>>

(* writeLine, a write that the connection takes; one the peer has closed   *)
(* may still take some.                                                    *)
writeLine ==
  /\ toWrite # <<>>
  /\ written' = Append(written, Head(toWrite)) /\ toWrite' = Tail(toWrite)
  /\ UNCHANGED <<letter, hasError, network, stopped, caller, calls>>

\* Mutant: the error of a write is ignored, and the next line written.
writeLineFailsIgnored ==
  /\ toWrite # <<>> /\ connection = "closed"
  /\ toWrite' = Tail(toWrite)
  /\ UNCHANGED <<letter, hasError, network, written, stopped, caller, calls>>

(* writeLine, a write that fails: system_error leaves the handler, run and *)
(* sendEmail; the io_service is not stopped by it.                         *)
writeLineFails ==
  /\ toWrite # <<>> /\ connection = "closed"
  /\ toWrite' = <<>> /\ caller' = "threw"
  /\ UNCHANGED <<letter, hasError, network, written, stopped, calls>>

(* The lambda of async_read_until prints the reply, or the error, alike.   *)
handleRead ==
  /\ Handling("read")
  /\ Done
  /\ UNCHANGED <<letter, hasError, connection, toWrite, written, stopped, caller, calls>>

(* run has no work left: sendEmail returns mHasError.                      *)
RunReturns ==
  /\ caller = "running" /\ toWrite = <<>> /\ op = "none"
  /\ stopped' = TRUE /\ caller' = "returned"
  /\ UNCHANGED <<letter, hasError, network, toWrite, written, calls>>

-----------------------------------------------------------------------------
(* The resolver and the network end a resolution or a connection attempt.  *)
NetworkAnswers ==
  /\ op \in {"resolve", "connect"} /\ outcome = "pending"
  /\ outcome' \in {"ok", "error"}
  /\ UNCHANGED <<letter, hasError, op, connection, toWrite, written, stopped, caller, calls>>

\* The peer need never do either of these.
PeerReplies ==
  /\ connection = "open" /\ op = "read" /\ outcome = "pending"
  /\ outcome' = "ok"
  /\ UNCHANGED <<letter, hasError, op, connection, toWrite, written, stopped, caller, calls>>

PeerCloses ==
  /\ connection = "open"
  /\ connection' = "closed"
  /\ outcome' = IF op = "read" /\ outcome = "pending" THEN "error" ELSE outcome
  /\ UNCHANGED <<letter, hasError, op, toWrite, written, stopped, caller, calls>>

Client ==
  \/ handleResolve \/ handleConnect \/ handleRead
  \/ writeLine \/ writeLineFails \/ RunReturns

Next == sendEmail \/ Client \/ NetworkAnswers \/ PeerReplies \/ PeerCloses

(* The thread that runs the io_service goes on while it can, and a name or *)
(* connection attempt ends, if only by the system's own limits.  A write   *)
(* waits until the peer takes the line, and a peer that neither reads nor  *)
(* closes never does: only on a closed connection it is sure to end.       *)
WriteOnClosed == connection = "closed" /\ (writeLine \/ writeLineFails)

Fairness ==
  /\ WF_vars(handleResolve \/ handleConnect \/ handleRead \/ RunReturns)
  /\ WF_vars(WriteOnClosed) /\ WF_vars(NetworkAnswers)

Spec == Init /\ [][Next]_vars /\ Fairness

-----------------------------------------------------------------------------
(* Whatever fails and however often sendEmail is called, the peer is given *)
(* the lines of the first call's letter, in order and without a gap: never *)
(* a text without its recipients, or part of a later letter                *)
(* (handleConnect, writeLine).                                             *)
OneLetterInOrder ==
  IF calls = <<>> THEN written = <<>> ELSE IsPrefix(written, Script(calls[1]))

(* The first sendEmail that returns either wrote the whole letter or       *)
(* returns true (sendEmail, handleResolve, handleConnect).                 *)
ReturnMeansWritten ==
  (caller = "returned" /\ Len(calls) = 1) => (hasError \/ written = Script(calls[1]))

(* sendEmail ends, unless the peer leaves the connection open and for ever *)
(* either does not take the line to write or does not send the reply:      *)
(* nothing else may keep the caller (sendEmail, writeLine, handleConnect). *)
WaitsForTheReply == op = "read" /\ outcome = "pending" /\ toWrite = <<>>
WaitsToWrite == toWrite # <<>>
OnlyASilentPeerHoldsTheCaller ==
  \/ caller = "running" ~> caller # "running"
  \/ <>[](connection = "open" /\ WaitsForTheReply)
  \/ <>[](connection = "open" /\ WaitsToWrite)
=============================================================================
