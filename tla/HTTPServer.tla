---------------------------- MODULE HTTPServer ----------------------------
(***************************************************************************)
(* ServerBase<HTTP> of server_http.hpp with the one thread this program    *)
(* gives it, its connections, their timeouts and their clients.  The       *)
(* thread calls completion handlers one at a time; a handler enters a      *)
(* scope of the runner, does its work and leaves.  The owner starts, stops *)
(* and destroys the server from another thread, and either the server made *)
(* the io_service itself or it was given one that others run.              *)
(***************************************************************************)
EXTENDS ScopeRunner

CONSTANTS
  Connections,   \* the connection objects that may be alive at a time
  Io,            \* the thread that runs the io_service: Threads is {Io}
  Nobody,        \* no connection
  Requests,      \* for each connection, what its clients may send: records [kind, keep,
                 \* throws], whether another request may follow and the resource throws
  MaxDue         \* bound on the expired timers of one connection not handled yet

Kinds == {"plain", "unknown", "malformed", "large", "content", "chunked"}

ASSUME ServerAssumption ==
  /\ Threads = {Io} /\ Nobody \notin Connections
  /\ Requests \in [Connections -> SUBSET [kind : Kinds, keep : BOOLEAN, throws : BOOLEAN]]

VARIABLES
  conn,          \* the Connection objects, with the session each is held by
  connections,   \* the set of the same name: the connections that stop closes
  acceptor,      \* none, open, closed
  running,       \* does a thread run the io_service?
  internal,      \* internal_io_service
  handler,       \* the connection whose handler the thread is in
  owner          \* live, destroying (in ~ServerBase), halted (the runner), gone

control == <<acceptor, running, internal, owner>>
server == <<conn, connections, handler, control>>
vars == <<runner, server>>

NoRequest == [kind |-> "none", keep |-> FALSE, throws |-> FALSE]

-----------------------------------------------------------------------------
(* A connection: the asynchronous operation that holds it, what it came    *)
(* to, the request read, the socket (open, gone by the client, closed by   *)
(* the server), the timer, the handlers of expired timers not run yet, and *)
(* whether its client waits for an answer.                                 *)
Free == [op |-> "none", result |-> "pending", request |-> NoRequest, socket |-> "closed",
         timer |-> FALSE, due |-> 0, waits |-> FALSE]

set_timeout(c) == [c EXCEPT !.timer = TRUE]     \* a new timer; the one before is cancelled
cancel_timeout(c) == [c EXCEPT !.timer = FALSE] \* no effect on one that has expired

\* An operation on a socket that cannot take it ends with an error at once.
Async(c, op) ==
  [c EXCEPT !.op = op,
            !.result = IF c.socket = "open" \/ (c.socket = "gone" /\ op \in {"answer", "refusal"})
                       THEN "pending" ELSE "error"]

Fail(c) == [c EXCEPT !.result = IF c.op # "none" /\ c.result = "pending" THEN "error" ELSE @,
                     !.waits = FALSE]
close(c) == [Fail(c) EXCEPT !.socket = "closed"]

\* The handler returns without a new operation: its session, which holds the request, is over.
Drop(c) == [c EXCEPT !.op = "none", !.result = "pending", !.request = NoRequest]

read(c)   == [Async(set_timeout(c), "head") EXCEPT !.request = NoRequest]
send(c)   == Async(set_timeout(c), "answer")      \* by the deleter of the response
refuse(c) == Async(set_timeout(c), "refusal")     \* payload too large; nothing follows it

read_chunked_transfer_encoded(c) == Async(set_timeout(c), "chunkLine")

(* write: the resource function fills the response, or throws and leaves   *)
(* it empty; the deleter sends it either way.                              *)
write(c) == send(set_timeout(c))

(* A path and method without a resource: no answer, the session is over.   *)
find_resource(c) == IF c.request.kind = "unknown" THEN Drop(c) ELSE write(c)

(* What the handlers of each operation may make of their connection, once  *)
(* inside the scope.  Some or all of the content may have come along with  *)
(* the header, and a chunk with its line.                                  *)
AfterHead(c) ==
  CASE c.result # "ok" -> {Drop(c)}
    [] c.request.kind = "large" -> {refuse(c)}
    [] c.request.kind = "malformed" -> {Drop(c)}
    [] c.request.kind = "content" -> {Async(set_timeout(c), "content"), find_resource(c), Drop(c)}
    [] c.request.kind = "chunked" -> {read_chunked_transfer_encoded(c)}
    [] OTHER -> {find_resource(c)}

AfterContent(c) == IF c.result = "ok" THEN {find_resource(c), refuse(c)} ELSE {Drop(c)}

\* A chunk of length 0 is the last; an empty line or a line that is no length ends the session.
read_chunked_transfer_encoded_chunk(c) ==
  {read_chunked_transfer_encoded(c), find_resource(c), refuse(c)}

AfterChunkLine(c) ==
  IF c.result = "ok"
  THEN read_chunked_transfer_encoded_chunk(c) \cup {Async(set_timeout(c), "chunk"), Drop(c)}
  ELSE {Drop(c)}

AfterChunk(c) ==
  IF c.result = "ok" THEN read_chunked_transfer_encoded_chunk(c) ELSE {Drop(c)}

\* Mutant: the timeout is cancelled after the callback that reads the next request.
AfterAnswerCancelsLast(c) ==
  {cancel_timeout(IF c.result = "ok" /\ c.request.keep THEN read(c) ELSE Drop(c))}

AfterAnswer(c) == {IF c.result = "ok" /\ c.request.keep THEN read(c) ELSE Drop(c)}

After(c) ==
  CASE c.op = "head"      -> AfterHead(c)
    [] c.op = "content"   -> AfterContent(c)
    [] c.op = "chunkLine" -> AfterChunkLine(c)
    [] c.op = "chunk"     -> AfterChunk(c)
    [] c.op = "answer"    -> AfterAnswer(c)
    [] c.op = "refusal"   -> {Drop(c)}

-----------------------------------------------------------------------------
(* A connection that nothing holds any more is deleted: no operation, no   *)
(* timer and no handler of a timer.  Its deleter takes it from the set.    *)
Held(c) == c.op # "none" \/ c.timer \/ c.due > 0
Deleted(f) == [x \in DOMAIN f |-> IF Held(f[x]) THEN f[x] ELSE Free]
Living(f) == {x \in DOMAIN f : Held(f[x])}

Settle(f, registered) == conn' = Deleted(f) /\ connections' = registered \cap Living(f)

Unused == {x \in Connections : ~ Held(conn[x]) /\ x # handler}

(* The code makes connection objects without a limit.  So that one is left *)
(* for every accept that has a client, clients come and start is called    *)
(* only while there is room: the bound is on them, not on the server.      *)
Room == Cardinality(Unused) >
          Cardinality({x \in Connections : conn[x].op = "accept" /\ conn[x].result = "ok"})

\* accept: a new connection, registered at once, waits for a client.
Accepting ==
  [Free EXCEPT !.op = "accept", !.result = IF acceptor = "open" THEN "pending" ELSE "error"]

Init ==
  /\ RunnerInit
  /\ conn = [x \in Connections |-> Free] /\ connections = {}
  /\ acceptor = "none" /\ internal \in BOOLEAN /\ running = ~ internal
  /\ handler = Nobody /\ owner = "live"

-----------------------------------------------------------------------------
(* A completed operation calls its handler, which first cancels the        *)
(* timeout and then tries to enter a scope.                                *)
Begin(x) ==
  /\ running /\ handler = Nobody
  /\ conn[x].op # "none" /\ conn[x].result # "pending"
  /\ Load(Io)
  /\ handler' = x
  /\ conn' = [conn EXCEPT ![x] = IF @.op = "accept" THEN @ ELSE cancel_timeout(@)]
  /\ UNCHANGED <<connections, control>>

Locking == (Enter(Io) \/ Retry(Io)) /\ UNCHANGED server

\* No scope: the handler returns, its session is given up.
Refused ==
  /\ Refuse(Io)
  /\ Settle([conn EXCEPT ![handler] = Drop(@)], connections)
  /\ handler' = Nobody
  /\ UNCHANGED control

\* The work of a handler inside its scope, to the end of both.
Handle(op) ==
  /\ handler # Nobody /\ conn[handler].op = op
  /\ Leave(Io)
  /\ \E c \in After(conn[handler]) : Settle([conn EXCEPT ![handler] = c], connections)
  /\ handler' = Nobody
  /\ UNCHANGED control

HeadRead      == Handle("head")
ContentRead   == Handle("content")
ChunkLineRead == Handle("chunkLine")
ChunkRead     == Handle("chunk")
Answered      == Handle("answer")
RefusalSent   == Handle("refusal")

(* The handler of async_accept: it accepts again unless the operation was  *)
(* aborted, then reads from the client it has got, if any.  Without one    *)
(* the connection dies at the end, and its record stands for the new one.  *)
Accepted ==
  /\ handler # Nobody /\ conn[handler].op = "accept"
  /\ Leave(Io)
  /\ CASE conn[handler].result = "aborted" ->
            Settle([conn EXCEPT ![handler] = Drop(@)], connections)
       [] conn[handler].result = "error" ->
            Settle([conn EXCEPT ![handler] = Accepting], connections \cup {handler})
       [] OTHER ->
            \E n \in Unused : Settle([conn EXCEPT ![handler] = read(@), ![n] = Accepting],
                                     connections \cup {n})
  /\ handler' = Nobody
  /\ UNCHANGED control

\* Mutant: the test of the error is the wrong way round.
TimedOutIgnored(x) ==
  /\ running /\ handler = Nobody /\ conn[x].due > 0
  /\ Settle([conn EXCEPT ![x].due = @ - 1], connections)
  /\ UNCHANGED <<runner, handler, control>>

\* The handler of an expired timer closes the socket, whatever uses it by now.
TimedOut(x) ==
  /\ running /\ handler = Nobody /\ conn[x].due > 0
  /\ Settle([conn EXCEPT ![x] = [close(conn[x]) EXCEPT !.due = @ - 1]], connections)
  /\ UNCHANGED <<runner, handler, control>>

-----------------------------------------------------------------------------
(* What time and the clients do.                                           *)
Env(x, c) == conn' = [conn EXCEPT ![x] = c] /\ UNCHANGED <<runner, connections, handler, control>>

Expire(x) ==
  /\ conn[x].timer /\ conn[x].due < MaxDue
  /\ Env(x, [conn[x] EXCEPT !.timer = FALSE, !.due = @ + 1])

Pending(x, ops) == conn[x].op \in ops /\ conn[x].result = "pending"

Connect(x) ==
  /\ Pending(x, {"accept"}) /\ Room
  /\ \/ Env(x, [conn[x] EXCEPT !.result = "ok", !.socket = "open"])
     \/ Env(x, [conn[x] EXCEPT !.result = "error"])

\* A client sends its next request when it has its answer, and no other at once.
Send(x) ==
  /\ Pending(x, {"head"}) /\ conn[x].socket = "open" /\ ~ conn[x].waits
  /\ \E r \in Requests[x] : Env(x, [conn[x] EXCEPT !.result = "ok", !.request = r, !.waits = TRUE])

SendOn(x) ==
  /\ Pending(x, {"content", "chunkLine", "chunk"}) /\ conn[x].socket = "open"
  /\ Env(x, [conn[x] EXCEPT !.result = "ok"])

\* An empty response reaches the socket, and not the client.
Receive(x) ==
  /\ Pending(x, {"answer", "refusal"})
  /\ Env(x, [conn[x] EXCEPT !.result = "ok",
                            !.waits = @ /\ conn[x].op = "answer" /\ conn[x].request.throws])

HangUp(x) ==
  /\ conn[x].socket = "open"
  /\ Env(x, [Fail(conn[x]) EXCEPT !.socket = "gone"])

-----------------------------------------------------------------------------
\* start, on a thread that then runs an io_service of the server's own.
Start ==
  /\ owner = "live" /\ acceptor # "open" /\ Room
  /\ internal => ~ running /\ handler = Nobody
  /\ acceptor' = "open" /\ running' = TRUE
  /\ \E n \in Unused :
       /\ conn' = [conn EXCEPT ![n] = [Accepting EXCEPT !.result = "pending"]]
       /\ connections' = connections \cup {n}
  /\ UNCHANGED <<runner, handler, internal, owner>>

\* Mutant: the set is cleared before the loop over it.
StopOneOfCleared(c, x) ==
  IF c.op = "accept" /\ c.result = "pending" THEN [c EXCEPT !.result = "aborted"] ELSE c

(* stop closes the acceptor, which aborts an accept in progress, and every *)
(* connection of the set.                                                  *)
StopOne(c, x) ==
  LET aborted == IF c.op = "accept" /\ c.result = "pending" THEN [c EXCEPT !.result = "aborted"]
                                                             ELSE c
  IN IF x \in connections THEN close(aborted) ELSE aborted

stop ==
  IF acceptor = "none" THEN UNCHANGED <<conn, connections, acceptor, running>>
  ELSE /\ acceptor' = "closed" /\ running' = (running /\ ~ internal)
       /\ conn' = [x \in Connections |-> StopOne(conn[x], x)]
       /\ connections' = {}

Stop ==
  /\ owner = "live" /\ acceptor = "open"
  /\ stop
  /\ UNCHANGED <<runner, handler, internal, owner>>

\* ~ServerBase, when no thread is in start: it stops the runner, then the server.
Destroy ==
  /\ owner = "live" /\ (internal => ~ running /\ handler = Nobody)
  /\ owner' = "destroying"
  /\ UNCHANGED <<runner, conn, connections, handler, acceptor, running, internal>>

HaltRunner ==
  /\ owner = "destroying" /\ RunnerStop
  /\ owner' = "halted"
  /\ UNCHANGED <<conn, connections, handler, acceptor, running, internal>>

DestroyOn ==
  /\ owner = "halted" /\ stop
  /\ owner' = "gone"
  /\ UNCHANGED <<runner, handler, internal>>

-----------------------------------------------------------------------------
InHandler ==
  \/ Locking \/ Refused \/ Accepted \/ HeadRead \/ ContentRead \/ ChunkLineRead \/ ChunkRead
  \/ Answered \/ RefusalSent

Next ==
  \/ InHandler
  \/ \E x \in Connections :
       \/ Begin(x) \/ TimedOut(x) \/ Expire(x)
       \/ Connect(x) \/ Send(x) \/ SendOn(x) \/ Receive(x) \/ HangUp(x)
  \/ Start \/ Stop \/ Destroy \/ HaltRunner \/ DestroyOn

(* A handler that was called goes on (an exchange that fails for no reason *)
(* changes nothing, so it cannot fail for ever), a timer expires, and the  *)
(* io_service forgets no connection that has a handler ready.              *)
Fairness ==
  /\ WF_vars(InHandler)
  /\ \A x \in Connections : WF_vars(Expire(x)) /\ SF_vars(Begin(x) \/ TimedOut(x))

Spec == Init /\ [][Next]_vars /\ Fairness

-----------------------------------------------------------------------------
(* No operation with a client waits without a limit: while it is pending   *)
(* on an open socket a timer runs, or an expired one is about to close it  *)
(* (set_timeout, cancel_timeout and the order they are called in).         *)
TimeoutGuardsEveryWait ==
  \A x \in Connections :
    (conn[x].op \notin {"none", "accept"} /\ conn[x].result = "pending"
       /\ conn[x].socket = "open")
      => (conn[x].timer \/ conn[x].due > 0)

(* After stop no client is served: not one whose accept had completed, not *)
(* one that a handler was working for (create_connection, stop, close).    *)
StoppedServesNobody ==
  acceptor = "closed" => \A x \in Connections : conn[x].socket # "open"

(* A client that has sent a request gets an answer or loses its            *)
(* connection, whatever the request, the handlers and the other clients    *)
(* do, and whoever stops the server (read, write, find_resource,           *)
(* set_timeout).  The exception is the client's own choice: each chunk     *)
(* renews the timeout, so one that sends chunks for ever is never served,  *)
(* and never loses its connection either.                                  *)
SendChunk(x) == conn[x].request.kind = "chunked" /\ SendOn(x)
Senders == {x \in Connections : Requests[x] # {}}
EveryRequestEnds ==
  \A x \in Senders :
    \/ conn[x].waits ~> ~ conn[x].waits
    \/ []<><<SendChunk(x)>>_vars
=============================================================================
