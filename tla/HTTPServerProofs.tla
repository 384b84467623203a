------------------------- MODULE HTTPServerProofs -------------------------
(***************************************************************************)
(* The scope runner on its own, for any number of threads and any          *)
(* interleaving of their atomic accesses: its count and that a stop is for *)
(* good.  Then the connections of the server, for any clients, requests,   *)
(* bounds and interleaving of the thread with the owner: which waits are   *)
(* limited, whom stop leaves served, and that the server uses its          *)
(* ScopeRunner as the class promises.                                      *)
(***************************************************************************)
EXTENDS HTTPServer, FiniteSetTheorems, TLAPS

RunnerTypeOK ==
  /\ count \in Int
  /\ scope \in [Threads -> {"out", "trying", "in"}]
  /\ expected \in [Threads -> Int]

(* The count is 0 exactly when nobody is inside, so an exchange of 0 for   *)
(* -1 cannot take a scope away from a thread.                              *)
RunnerInv == RunnerTypeOK /\ CountsTheScopes

(* The threads inside are finitely many.                                   *)
LEMMA InsideFinite == IsFiniteSet(Inside) /\ Cardinality(Inside) \in Nat
<1>1. IsFiniteSet(Inside)
  BY ThreadsAssumption, FS_Subset DEF Inside
<1> QED
  BY <1>1, FS_CardinalityType

(* A thread that changes to "in" adds one to the threads inside.           *)
LEMMA OneMoreInside ==
  ASSUME NEW t \in Threads, RunnerTypeOK, scope[t] # "in",
         scope' = [scope EXCEPT ![t] = "in"]
  PROVE  Cardinality(Inside') = Cardinality(Inside) + 1
<1>1. Inside' = Inside \cup {t}
  BY DEF Inside, RunnerTypeOK
<1>2. t \notin Inside
  BY DEF Inside
<1> QED
  BY <1>1, <1>2, InsideFinite, FS_AddElement

(* A thread inside that changes to "out" takes one away.                   *)
LEMMA OneLessInside ==
  ASSUME NEW t \in Threads, RunnerTypeOK, scope[t] = "in",
         scope' = [scope EXCEPT ![t] = "out"]
  PROVE  Cardinality(Inside') = Cardinality(Inside) - 1
<1>1. Inside' = Inside \ {t}
  BY DEF Inside, RunnerTypeOK
<1>2. t \in Inside
  BY DEF Inside
<1> QED
  BY <1>1, <1>2, InsideFinite, FS_RemoveElement

(* A thread that moves without entering or leaving changes nobody inside.  *)
LEMMA SameInside ==
  ASSUME NEW t \in Threads, NEW s \in {"out", "trying"}, RunnerTypeOK, scope[t] # "in",
         scope' = [scope EXCEPT ![t] = s]
  PROVE  Inside' = Inside
  BY DEF Inside, RunnerTypeOK

LEMMA RunnerInitial == RunnerInit => RunnerInv
<1> SUFFICES ASSUME RunnerInit PROVE RunnerInv
  OBVIOUS
<1>1. RunnerTypeOK
  BY DEF RunnerInit, RunnerTypeOK
<1>2. Inside = {}
  BY DEF RunnerInit, Inside
<1> QED
  BY <1>1, <1>2, FS_EmptySet DEF RunnerInit, RunnerInv, CountsTheScopes

LEMMA RunnerStep == RunnerInv /\ [RunnerNext]_runner => RunnerInv'
<1> SUFFICES ASSUME RunnerInv, [RunnerNext]_runner PROVE RunnerInv'
  OBVIOUS
<1> USE DEF RunnerInv
<1>1. ASSUME NEW t \in Threads, Load(t) PROVE RunnerInv'
  <2>1. RunnerTypeOK'
    BY <1>1 DEF Load, RunnerTypeOK
  <2>2. Inside' = Inside
    BY <1>1, SameInside DEF Load
  <2> QED
    BY <1>1, <2>1, <2>2 DEF Load, CountsTheScopes
<1>2. ASSUME NEW t \in Threads, Enter(t) PROVE RunnerInv'
  <2>1. RunnerTypeOK'
    BY <1>2 DEF Enter, RunnerTypeOK
  <2>2. Cardinality(Inside') = Cardinality(Inside) + 1
    BY <1>2, OneMoreInside DEF Enter
  <2>3. count = Cardinality(Inside)
    BY <1>2 DEF Enter, CountsTheScopes, RunnerTypeOK
  <2> QED
    BY <1>2, <2>1, <2>2, <2>3 DEF Enter, CountsTheScopes
<1>3. ASSUME NEW t \in Threads, Retry(t) PROVE RunnerInv'
  <2>1. RunnerTypeOK'
    BY <1>3 DEF Retry, RunnerTypeOK
  <2>2. Inside' = Inside
    BY <1>3 DEF Retry, Inside
  <2> QED
    BY <1>3, <2>1, <2>2 DEF Retry, CountsTheScopes
<1>4. ASSUME NEW t \in Threads, Refuse(t) PROVE RunnerInv'
  <2>1. RunnerTypeOK'
    BY <1>4 DEF Refuse, RunnerTypeOK
  <2>2. Inside' = Inside
    BY <1>4, SameInside DEF Refuse
  <2> QED
    BY <1>4, <2>1, <2>2 DEF Refuse, CountsTheScopes
<1>5. ASSUME NEW t \in Threads, Leave(t) PROVE RunnerInv'
  <2>1. RunnerTypeOK'
    BY <1>5 DEF Leave, RunnerTypeOK
  <2>2. Cardinality(Inside') = Cardinality(Inside) - 1
    BY <1>5, OneLessInside DEF Leave
  <2>3. t \in Inside
    BY <1>5 DEF Leave, Inside
  <2>4. count = Cardinality(Inside)
    BY <2>3 DEF CountsTheScopes
  <2> QED
    BY <1>5, <2>1, <2>2, <2>4 DEF Leave, CountsTheScopes
<1>6. CASE RunnerStop
  <2>1. RunnerTypeOK'
    BY <1>6 DEF RunnerStop, RunnerTypeOK
  <2>2. Inside = {}
    BY <1>6, InsideFinite, FS_EmptySet DEF RunnerStop, CountsTheScopes
  <2>3. Inside' = Inside
    BY <1>6 DEF RunnerStop, Inside
  <2> QED
    BY <1>6, <2>1, <2>2, <2>3 DEF RunnerStop, CountsTheScopes
<1>7. CASE UNCHANGED runner
  <2>1. Inside' = Inside
    BY <1>7 DEF runner, Inside
  <2> QED
    BY <1>7, <2>1 DEF runner, RunnerTypeOK, CountsTheScopes
<1> QED
  BY <1>1, <1>2, <1>3, <1>4, <1>5, <1>6, <1>7 DEF RunnerNext

(* The count of a ScopeRunner is the number of scopes that run, or -1 and  *)
(* none runs, for any threads: when stop returns nobody is inside.         *)
THEOREM ScopesCounted == RunnerSpec => []CountsTheScopes
<1>1. RunnerInv => CountsTheScopes
  BY DEF RunnerInv
<1> QED
  BY <1>1, RunnerInitial, RunnerStep, PTL DEF RunnerSpec

(* No access of a thread changes the count of a runner that is stopped.    *)
LEMMA HaltedStays ==
  ASSUME RunnerInv, [RunnerNext]_runner, count = -1
  PROVE  count' = -1
<1>1. Inside = {}
  <2>1. count # Cardinality(Inside)
    BY InsideFinite
  <2> QED
    BY <2>1 DEF RunnerInv, CountsTheScopes
<1>2. ASSUME NEW t \in Threads PROVE ~ Enter(t) /\ ~ Leave(t)
  BY <1>1 DEF Enter, Leave, Inside
<1> QED
  BY <1>2 DEF RunnerNext, Load, Retry, Refuse, RunnerStop, runner

(* Once stop has returned no scope is entered again: the count stays -1.   *)
THEOREM StoppedForGood == RunnerSpec => [][count = -1 => count' = -1]_runner
<1>1. RunnerInv /\ [RunnerNext]_runner => [count = -1 => count' = -1]_runner
  BY HaltedStays
<1> QED
  BY <1>1, RunnerInitial, RunnerStep, PTL DEF RunnerSpec

-----------------------------------------------------------------------------
(* The server.                                                             *)

Operations == {"none", "accept", "head", "content", "chunkLine", "chunk", "answer", "refusal"}
Waiting == Operations \ {"none", "accept"}

\* What a connection may hold as its request.
AnyRequest == (UNION {Requests[x] : x \in Connections}) \cup {NoRequest}

Connection ==
  [op : Operations, result : {"pending", "ok", "error", "aborted"},
   request : AnyRequest, socket : {"open", "gone", "closed"},
   timer : BOOLEAN, due : Nat, waits : BOOLEAN]

ServerTypeOK ==
  /\ conn \in [Connections -> Connection]
  /\ connections \in SUBSET Connections
  /\ acceptor \in {"none", "open", "closed"}
  /\ handler \in Connections \cup {Nobody}

\* TimeoutGuardsEveryWait of one connection.
Guarded(c) ==
  c.op \in Waiting /\ c.result = "pending" /\ c.socket = "open" => c.timer \/ c.due > 0

EveryoneGuarded == \A x \in Connections : Guarded(conn[x])

\* Whom the acceptor may still give a client, and who has one, is in the set
\* that stop closes; none is left when the acceptor is closed.
AcceptPending(c) == c.op = "accept" /\ c.result = "pending"

StopReaches(f, registered, a) ==
  \A x \in Connections :
    /\ f[x].socket = "open" => x \in registered /\ a # "closed"
    /\ AcceptPending(f[x]) => x \in registered /\ a = "open"

ServerInv == ServerTypeOK /\ EveryoneGuarded /\ StopReaches(conn, connections, acceptor)

-----------------------------------------------------------------------------
(* What the functions of a connection make of it *)

\* c may become d without a new client, and its wait is limited.
Step(c, d) ==
  /\ d \in Connection /\ Guarded(d)
  /\ d.socket = "open" => c.socket = "open"
  /\ AcceptPending(d) => AcceptPending(c)

(* Every operation but accept is started under a new timer.                *)
LEMMA TimedOperation ==
  ASSUME NEW c \in Connection, NEW op \in Waiting
  PROVE  Step(c, Async(set_timeout(c), op))
<1> DEFINE d == set_timeout(c)
           r == IF d.socket = "open" \/ (d.socket = "gone" /\ op \in {"answer", "refusal"})
                THEN "pending" ELSE "error"
           e == [d EXCEPT !.op = op, !.result = r]
<1>1. d \in Connection /\ d.timer = TRUE /\ d.socket = c.socket
  BY DEF set_timeout, Connection
<1>2. r \in {"pending", "error"} /\ op \in Operations /\ op # "accept"
  BY DEF Waiting
<1> HIDE DEF d, r
<1>3. e \in Connection /\ e.timer = TRUE /\ e.op = op /\ e.socket = c.socket
  BY <1>1, <1>2 DEF Connection
<1>4. e = Async(set_timeout(c), op)
  BY DEF Async, d, r
<1> HIDE DEF e
<1>5. Step(c, e)
  BY <1>2, <1>3 DEF Step, Guarded, AcceptPending
<1> QED
  BY <1>4, <1>5

LEMMA NoRequestIsAny == NoRequest \in AnyRequest
  BY DEF AnyRequest

LEMMA TimedTwice ==
  ASSUME NEW c \in Connection
  PROVE  set_timeout(c) \in Connection /\ set_timeout(set_timeout(c)) = set_timeout(c)
         /\ set_timeout(c).socket = c.socket
  BY DEF set_timeout, Connection

LEMMA DropStep == ASSUME NEW c \in Connection PROVE Step(c, Drop(c))
<1> DEFINE e == [c EXCEPT !.op = "none", !.result = "pending", !.request = NoRequest]
<1>1. e \in Connection /\ e.op = "none" /\ e.socket = c.socket
  BY NoRequestIsAny DEF Connection, Operations
<1>2. e = Drop(c)
  BY DEF Drop
<1> HIDE DEF e
<1> QED
  BY <1>1, <1>2 DEF Step, Guarded, AcceptPending, Waiting

LEMMA ReadStep == ASSUME NEW c \in Connection PROVE Step(c, read(c))
<1> DEFINE d == Async(set_timeout(c), "head")
           e == [d EXCEPT !.request = NoRequest]
<1>1. Step(c, d)
  BY TimedOperation DEF Waiting, Operations
<1>2. e = read(c)
  BY DEF read
<1> HIDE DEF d
<1>3. e \in Connection /\ e.op = d.op /\ e.result = d.result /\ e.socket = d.socket
      /\ e.timer = d.timer /\ e.due = d.due
  BY <1>1, NoRequestIsAny DEF Step, Connection
<1> HIDE DEF e
<1> QED
  BY <1>1, <1>2, <1>3 DEF Step, Guarded, AcceptPending

LEMMA FindResourceStep == ASSUME NEW c \in Connection PROVE Step(c, find_resource(c))
<1>1. write(c) = Async(set_timeout(c), "answer")
  BY TimedTwice DEF write, send
<1>2. Step(c, write(c))
  BY <1>1, TimedOperation DEF Waiting, Operations
<1> QED
  BY <1>2, DropStep DEF find_resource

(* Whatever the handler of an operation does: what the connection waits    *)
(* for next is limited, and it gets no new client.                         *)
LEMMA AfterStep ==
  ASSUME NEW c \in Connection, c.op \in Waiting, NEW d \in After(c)
  PROVE  Step(c, d)
<1>1. Step(c, Drop(c)) /\ Step(c, read(c)) /\ Step(c, find_resource(c))
  BY DropStep, ReadStep, FindResourceStep
<1>2. /\ Step(c, refuse(c)) /\ Step(c, read_chunked_transfer_encoded(c))
      /\ Step(c, Async(set_timeout(c), "content")) /\ Step(c, Async(set_timeout(c), "chunk"))
  BY TimedOperation DEF refuse, read_chunked_transfer_encoded, Waiting, Operations
<1>3. CASE c.op = "head"
  BY <1>1, <1>2, <1>3 DEF After, AfterHead
<1>4. CASE c.op = "content"
  BY <1>1, <1>2, <1>4 DEF After, AfterContent
<1>5. CASE c.op = "chunkLine"
  BY <1>1, <1>2, <1>5 DEF After, AfterChunkLine, read_chunked_transfer_encoded_chunk
<1>6. CASE c.op = "chunk"
  BY <1>1, <1>2, <1>6 DEF After, AfterChunk, read_chunked_transfer_encoded_chunk
<1>7. CASE c.op = "answer"
  BY <1>1, <1>7 DEF After, AfterAnswer
<1>8. CASE c.op = "refusal"
  BY <1>1, <1>8 DEF After
<1> QED
  BY <1>3, <1>4, <1>5, <1>6, <1>7, <1>8 DEF Waiting, Operations

(* A closed connection has no open socket and no accept in progress.       *)
LEMMA CloseStep ==
  ASSUME NEW c \in Connection
  PROVE  /\ Step(c, close(c)) /\ close(c).socket = "closed" /\ ~ AcceptPending(close(c))
         /\ close(c).due = c.due
         /\ Fail(c) \in Connection /\ (Fail(c).result = "pending" => Fail(c).op = "none")
         /\ Fail(c).due = c.due
<1> DEFINE r == IF c.op # "none" /\ c.result = "pending" THEN "error" ELSE c.result
           e == [c EXCEPT !.result = r, !.waits = FALSE]
<1>1. r \in {"pending", "ok", "error", "aborted"} /\ (r = "pending" => c.op = "none")
  BY DEF Connection
<1>2. e = Fail(c)
  BY DEF Fail, Connection
<1> HIDE DEF r
<1>3. e \in Connection /\ e.op = c.op /\ e.result = r /\ e.due = c.due
  BY <1>1 DEF Connection
<1> HIDE DEF e
<1> DEFINE f == [e EXCEPT !.socket = "closed"]
<1>4. f \in Connection /\ f.socket = "closed" /\ f.op = e.op /\ f.result = e.result /\ f.due = e.due
  BY <1>3 DEF Connection
<1>5. f = close(c)
  BY <1>2 DEF close
<1> HIDE DEF f
<1> QED
  BY <1>1, <1>2, <1>3, <1>4, <1>5 DEF Step, Guarded, AcceptPending

-----------------------------------------------------------------------------
(* What the steps of the server make of all of them *)

LEMMA FreeConnection ==
  /\ Free \in Connection /\ Guarded(Free) /\ Free.socket # "open" /\ ~ AcceptPending(Free)
  BY NoRequestIsAny DEF Free, Connection, Guarded, AcceptPending, Waiting, Operations

(* Deleting the connections that nothing holds keeps the invariant.        *)
LEMMA SettleKeeps ==
  ASSUME NEW f \in [Connections -> Connection], NEW registered \in SUBSET Connections,
         \A x \in Connections : Guarded(f[x]), StopReaches(f, registered, acceptor),
         Settle(f, registered), acceptor' = acceptor, ServerTypeOK,
         handler' \in Connections \cup {Nobody}
  PROVE  ServerInv'
<1>1. \A x \in Connections : conn'[x] = IF Held(f[x]) THEN f[x] ELSE Free
  BY DEF Settle, Deleted
<1>2. ServerTypeOK'
  BY FreeConnection DEF ServerTypeOK, Settle, Deleted
<1>3. EveryoneGuarded'
  BY <1>1, FreeConnection DEF EveryoneGuarded
<1>4. ASSUME NEW x \in Connections, conn'[x].socket = "open" \/ AcceptPending(conn'[x])
      PROVE  conn'[x] = f[x] /\ (x \in registered => x \in connections')
  <2>1. Held(f[x]) /\ conn'[x] = f[x]
    BY <1>1, <1>4, FreeConnection
  <2> QED
    BY <2>1 DEF Settle, Living
<1>5. StopReaches(conn, connections, acceptor)'
  BY <1>4 DEF StopReaches
<1> QED
  BY <1>2, <1>3, <1>5 DEF ServerInv

(* A handler that ends: its connection takes a step, nobody else does.     *)
LEMMA HandlerEnds ==
  ASSUME ServerInv, NEW f, NEW d,
         f = [conn EXCEPT ![handler] = d], handler \in Connections => Step(conn[handler], d),
         Settle(f, connections), acceptor' = acceptor, handler' = Nobody
  PROVE  ServerInv'
<1>1. f \in [Connections -> Connection]
  BY DEF ServerInv, ServerTypeOK, Step
<1>2. \A x \in Connections : f[x] = conn[x] \/ Step(conn[x], f[x])
  BY DEF ServerInv, ServerTypeOK
<1>3. \A x \in Connections : Guarded(f[x])
  BY <1>2 DEF ServerInv, EveryoneGuarded, Step
<1>4. StopReaches(f, connections, acceptor)
  BY <1>2 DEF ServerInv, StopReaches, Step
<1> QED
  BY <1>1, <1>3, <1>4, SettleKeeps DEF ServerInv, ServerTypeOK

(* One connection changes by itself.                                       *)
LEMMA OneChanges ==
  ASSUME ServerInv, NEW x \in Connections, NEW d \in Connection, Guarded(d),
         d.socket = "open" => x \in connections /\ acceptor # "closed",
         AcceptPending(d) => AcceptPending(conn[x]),
         conn' = [conn EXCEPT ![x] = d], UNCHANGED <<connections, acceptor>>,
         handler' \in Connections \cup {Nobody}
  PROVE  ServerInv'
<1>1. \A y \in Connections : conn'[y] = IF y = x THEN d ELSE conn[y]
  BY DEF ServerInv, ServerTypeOK
<1>2. ServerTypeOK' /\ EveryoneGuarded'
  BY <1>1 DEF ServerInv, ServerTypeOK, EveryoneGuarded
<1>3. StopReaches(conn, connections, acceptor)'
  BY <1>1 DEF ServerInv, StopReaches
<1> QED
  BY <1>2, <1>3 DEF ServerInv

(* A connection that is made waits for a client, or finds the acceptor     *)
(* closed.                                                                 *)
LEMMA NewConnection ==
  ASSUME NEW r \in {"pending", "error"}
  PROVE  LET n == [Free EXCEPT !.op = "accept", !.result = r]
         IN  n \in Connection /\ Guarded(n) /\ n.socket # "open"
             /\ (AcceptPending(n) <=> r = "pending")
  BY NoRequestIsAny DEF Free, Connection, Guarded, AcceptPending, Waiting, Operations

LEMMA BeginStep == ASSUME ServerInv, NEW x \in Connections, Begin(x) PROVE ServerInv'
<1> DEFINE d == IF conn[x].op = "accept" THEN conn[x] ELSE cancel_timeout(conn[x])
<1>1. conn[x] \in Connection /\ conn[x].result # "pending"
  BY DEF Begin, ServerInv, ServerTypeOK
<1>2. d \in Connection /\ d.op = conn[x].op /\ d.result = conn[x].result
      /\ d.socket = conn[x].socket
  BY <1>1 DEF cancel_timeout, Connection
<1>3. conn' = [conn EXCEPT ![x] = d] /\ UNCHANGED <<connections, acceptor>> /\ handler' = x
  BY DEF Begin, control, ServerInv, ServerTypeOK
<1> HIDE DEF d
<1>4. Guarded(d) /\ ~ AcceptPending(d)
  BY <1>1, <1>2 DEF Guarded, AcceptPending
<1>5. d.socket = "open" => x \in connections /\ acceptor # "closed"
  BY <1>2 DEF ServerInv, StopReaches
<1> QED
  BY <1>2, <1>3, <1>4, <1>5, OneChanges

LEMMA HandleStep == ASSUME ServerInv, NEW op \in Waiting, Handle(op) PROVE ServerInv'
<1>1. handler \in Connections /\ conn[handler].op = op /\ conn[handler] \in Connection
  BY DEF Handle, ServerInv, ServerTypeOK
<1>2. PICK d \in After(conn[handler]) : Settle([conn EXCEPT ![handler] = d], connections)
  BY DEF Handle
<1>3. Step(conn[handler], d)
  BY <1>1, AfterStep
<1>4. acceptor' = acceptor /\ handler' = Nobody
  BY DEF Handle, control
<1> QED
  BY <1>2, <1>3, <1>4, HandlerEnds

(* A handler that accepts again, on the record n, while its own connection *)
(* takes a step or makes room.                                             *)
LEMMA AcceptsAgain ==
  ASSUME ServerInv, NEW n \in Connections, NEW f \in [Connections -> Connection],
         \A x \in Connections : \/ f[x] = conn[x]
                                \/ Step(conn[x], f[x])
                                \/ (x = n /\ f[x] = Accepting),
         Settle(f, connections \cup {n}), acceptor' = acceptor, handler' = Nobody
  PROVE  ServerInv'
<1> DEFINE r == IF acceptor = "open" THEN "pending" ELSE "error"
           new == [Free EXCEPT !.op = "accept", !.result = r]
<1>1. new = Accepting
  BY DEF Accepting
<1>2. Guarded(new) /\ new.socket # "open" /\ (AcceptPending(new) => acceptor = "open")
  BY NewConnection
<1> HIDE DEF new
<1>3. \A x \in Connections : Guarded(f[x])
  BY <1>1, <1>2 DEF ServerInv, EveryoneGuarded, Step
<1>4. StopReaches(f, connections \cup {n}, acceptor)
  BY <1>1, <1>2 DEF ServerInv, StopReaches, Step
<1>5. connections \cup {n} \in SUBSET Connections /\ ServerTypeOK
  BY DEF ServerInv, ServerTypeOK
<1> QED
  BY <1>3, <1>4, <1>5, SettleKeeps

LEMMA AcceptingConnection == Accepting \in Connection
<1> DEFINE r == IF acceptor = "open" THEN "pending" ELSE "error"
           new == [Free EXCEPT !.op = "accept", !.result = r]
<1>1. new \in Connection
  BY NewConnection
<1> QED
  BY <1>1 DEF Accepting

LEMMA AcceptedStep == ASSUME ServerInv, Accepted PROVE ServerInv'
<1> DEFINE c == conn[handler]
           dropped == Drop(c)
           served == read(c)
<1>1. /\ handler \in Connections /\ c \in Connection /\ conn \in [Connections -> Connection]
      /\ acceptor' = acceptor /\ handler' = Nobody
  BY DEF Accepted, ServerInv, ServerTypeOK, control
<1>2. Step(c, dropped) /\ Step(c, served) /\ served \in Connection /\ Accepting \in Connection
  BY <1>1, ReadStep, DropStep, AcceptingConnection DEF Step
<1>3. \/ Settle([conn EXCEPT ![handler] = dropped], connections)
      \/ Settle([conn EXCEPT ![handler] = Accepting], connections \cup {handler})
      \/ \E n \in Unused :
           Settle([conn EXCEPT ![handler] = served, ![n] = Accepting], connections \cup {n})
  BY DEF Accepted
<1> HIDE DEF dropped, served
<1>4. CASE Settle([conn EXCEPT ![handler] = dropped], connections)
  BY <1>1, <1>2, <1>4, HandlerEnds
<1>5. CASE Settle([conn EXCEPT ![handler] = Accepting], connections \cup {handler})
  <2> DEFINE f == [conn EXCEPT ![handler] = Accepting]
  <2>1. f \in [Connections -> Connection]
        /\ \A x \in Connections : f[x] = IF x = handler THEN Accepting ELSE conn[x]
    BY <1>1, <1>2
  <2>2. Settle(f, connections \cup {handler})
    BY <1>5
  <2> HIDE DEF f
  <2> QED
    BY <1>1, <2>1, <2>2, AcceptsAgain
<1>6. ASSUME NEW n \in Unused,
             Settle([conn EXCEPT ![handler] = served, ![n] = Accepting], connections \cup {n})
      PROVE  ServerInv'
  <2> DEFINE new == Accepting
             f == [conn EXCEPT ![handler] = served]
             g == [f EXCEPT ![n] = new]
  <2>1. n \in Connections /\ n # handler
    BY DEF Unused
  <2>2. Settle(g, connections \cup {n})
    BY <1>6
  <2>3. new \in Connection /\ new = Accepting
    BY <1>2
  <2> HIDE DEF new
  <2>4. f \in [Connections -> Connection]
        /\ \A x \in Connections : f[x] = IF x = handler THEN served ELSE conn[x]
    BY <1>1, <1>2
  <2> HIDE DEF f
  <2>5. g \in [Connections -> Connection]
        /\ \A x \in Connections : g[x] = IF x = n THEN new ELSE f[x]
    BY <2>1, <2>3, <2>4
  <2> HIDE DEF g
  <2>6. \A x \in Connections : \/ g[x] = conn[x]
                                \/ Step(conn[x], g[x])
                                \/ (x = n /\ g[x] = Accepting)
    BY <1>2, <2>3, <2>4, <2>5
  <2> QED
    BY <1>1, <2>1, <2>2, <2>5, <2>6, AcceptsAgain
<1> QED
  BY <1>3, <1>4, <1>5, <1>6

LEMMA TimedOutStep == ASSUME ServerInv, NEW x \in Connections, TimedOut(x) PROVE ServerInv'
<1> DEFINE c == close(conn[x])
           d == [c EXCEPT !.due = @ - 1]
           f == [conn EXCEPT ![x] = d]
<1>1. conn[x] \in Connection /\ conn[x].due > 0
  BY DEF TimedOut, ServerInv, ServerTypeOK
<1>2. c \in Connection /\ c.socket = "closed" /\ ~ AcceptPending(c) /\ c.due = conn[x].due
  BY <1>1, CloseStep DEF Step
<1>3. Settle([conn EXCEPT ![x] = [close(conn[x]) EXCEPT !.due = @ - 1]], connections)
      /\ acceptor' = acceptor /\ handler' = handler
  BY DEF TimedOut, control
<1>4. f = [conn EXCEPT ![x] = [close(conn[x]) EXCEPT !.due = @ - 1]]
  OBVIOUS
<1> HIDE DEF c
<1>5. d \in Connection /\ d.socket = "closed" /\ ~ AcceptPending(d)
  BY <1>1, <1>2 DEF Connection, AcceptPending
<1> HIDE DEF d
<1>6. f \in [Connections -> Connection] /\ \A y \in Connections : f[y] = IF y = x THEN d ELSE conn[y]
  BY <1>5 DEF ServerInv, ServerTypeOK
<1> HIDE DEF f
<1>7. \A y \in Connections : Guarded(f[y])
  BY <1>5, <1>6 DEF ServerInv, EveryoneGuarded, Guarded
<1>8. StopReaches(f, connections, acceptor)
  BY <1>5, <1>6 DEF ServerInv, StopReaches
<1> QED
  BY <1>3, <1>4, <1>6, <1>7, <1>8, SettleKeeps DEF ServerInv, ServerTypeOK

(* Clients and time: no connection gets a client that the acceptor was not *)
(* waiting for, and a timer that expires has a handler to run.             *)
LEMMA ClientStep ==
  ASSUME ServerInv, NEW x \in Connections,
         Expire(x) \/ Connect(x) \/ Send(x) \/ SendOn(x) \/ Receive(x) \/ HangUp(x)
  PROVE  ServerInv'
<1> DEFINE c == conn[x]
<1>1. c \in Connection /\ Guarded(c) /\ handler \in Connections \cup {Nobody}
      /\ c.due \in Nat
      /\ (c.socket = "open" => x \in connections /\ acceptor # "closed")
      /\ (AcceptPending(c) => x \in connections /\ acceptor = "open")
  BY DEF ServerInv, ServerTypeOK, EveryoneGuarded, StopReaches, Connection
<1>2. ASSUME NEW d \in Connection, Guarded(d), Env(x, d),
             d.socket = "open" => c.socket = "open" \/ AcceptPending(c),
             AcceptPending(d) => AcceptPending(c)
      PROVE  ServerInv'
  <2>1. conn' = [conn EXCEPT ![x] = d] /\ UNCHANGED <<connections, acceptor>> /\ handler' = handler
    BY <1>2 DEF Env, control
  <2>2. d.socket = "open" => x \in connections /\ acceptor # "closed"
    BY <1>1, <1>2
  <2> QED
    BY <1>1, <1>2, <2>1, <2>2, OneChanges
<1>3. CASE Expire(x)
  <2> DEFINE n == c.due + 1
             d == [c EXCEPT !.timer = FALSE, !.due = n]
  <2>1. Env(x, d)
    BY <1>3 DEF Expire
  <2>2. n \in Nat /\ n > 0
    BY <1>1
  <2> HIDE DEF c, n
  <2>3. d \in Connection /\ d.due = n /\ d.op = c.op /\ d.result = c.result /\ d.socket = c.socket
    BY <1>1, <2>2 DEF Connection
  <2> HIDE DEF d
  <2> QED
    BY <1>2, <2>1, <2>2, <2>3 DEF Guarded, AcceptPending
<1>4. CASE Connect(x)
  <2> DEFINE d == [c EXCEPT !.result = "ok", !.socket = "open"]
             e == [c EXCEPT !.result = "error"]
  <2>1. Env(x, d) \/ Env(x, e)
    BY <1>4 DEF Connect
  <2>2. c.op = "accept" /\ AcceptPending(c)
    BY <1>4 DEF Connect, Pending, AcceptPending
  <2>3. /\ d \in Connection /\ d.op = c.op /\ d.result = "ok"
        /\ e \in Connection /\ e.op = c.op /\ e.result = "error" /\ e.socket = c.socket
    BY <1>1 DEF Connection
  <2> HIDE DEF d, e, c
  <2>4. Guarded(d) /\ Guarded(e) /\ ~ AcceptPending(d) /\ ~ AcceptPending(e)
    BY <2>3 DEF Guarded, AcceptPending
  <2> QED
    BY <1>2, <2>1, <2>2, <2>3, <2>4
<1>5. CASE Send(x) \/ SendOn(x) \/ Receive(x)
  <2>1. PICK q \in AnyRequest, w \in BOOLEAN :
          Env(x, [c EXCEPT !.result = "ok", !.request = q, !.waits = w])
    <3>1. CASE Send(x)
      BY <3>1 DEF Send, AnyRequest
    <3>2. CASE SendOn(x)
      <4>1. [c EXCEPT !.result = "ok"] = [c EXCEPT !.result = "ok", !.request = c.request,
                                                   !.waits = c.waits]
        BY <1>1 DEF Connection
      <4>2. Env(x, [c EXCEPT !.result = "ok", !.request = c.request, !.waits = c.waits])
        BY <3>2, <4>1 DEF SendOn
      <4> QED
        BY <1>1, <4>2 DEF Connection
    <3>3. CASE Receive(x)
      <4> DEFINE w == c.waits /\ c.op = "answer" /\ c.request.throws
      <4>1. Env(x, [c EXCEPT !.result = "ok", !.waits = w])
        BY <3>3 DEF Receive
      <4>2. w \in BOOLEAN
        OBVIOUS
      <4> HIDE DEF w
      <4>3. [c EXCEPT !.result = "ok", !.waits = w]
              = [c EXCEPT !.result = "ok", !.request = c.request, !.waits = w]
        BY <1>1 DEF Connection
      <4>4. c.request \in AnyRequest
        BY <1>1 DEF Connection
      <4> HIDE DEF c
      <4>5. Env(x, [c EXCEPT !.result = "ok", !.request = c.request, !.waits = w])
        BY <4>1, <4>3
      <4> QED
        BY <4>2, <4>4, <4>5
    <3> QED
      BY <1>5, <3>1, <3>2, <3>3
  <2> DEFINE d == [c EXCEPT !.result = "ok", !.request = q, !.waits = w]
  <2>2. d \in Connection /\ d.op = c.op /\ d.result = "ok" /\ d.socket = c.socket
    BY <1>1 DEF Connection
  <2> HIDE DEF d, c
  <2>3. Guarded(d) /\ ~ AcceptPending(d)
    BY <2>2 DEF Guarded, AcceptPending
  <2> QED
    BY <1>2, <2>1, <2>2, <2>3 DEF d
<1>6. CASE HangUp(x)
  <2> DEFINE b == Fail(c)
             d == [b EXCEPT !.socket = "gone"]
  <2>1. Env(x, d)
    BY <1>6 DEF HangUp
  <2>2. b \in Connection /\ (b.result = "pending" => b.op = "none")
    BY <1>1, CloseStep
  <2> HIDE DEF b
  <2>3. d \in Connection /\ d.socket = "gone" /\ d.op = b.op /\ d.result = b.result
    BY <2>2 DEF Connection
  <2> HIDE DEF d, c
  <2>4. Guarded(d) /\ ~ AcceptPending(d)
    BY <2>2, <2>3 DEF Guarded, AcceptPending
  <2> QED
    BY <1>2, <2>1, <2>3, <2>4
<1> QED
  BY <1>3, <1>4, <1>5, <1>6

LEMMA StartStep == ASSUME ServerInv, Start PROVE ServerInv'
<1> DEFINE new == [Free EXCEPT !.op = "accept", !.result = "pending"]
<1>1. PICK n \in Unused : /\ conn' = [conn EXCEPT ![n] = [Accepting EXCEPT !.result = "pending"]]
                          /\ connections' = connections \cup {n}
  BY DEF Start
<1>2. acceptor' = "open" /\ handler' = handler /\ n \in Connections
  BY DEF Start, Unused
<1>3. new \in Connection /\ Guarded(new) /\ new.socket # "open"
  BY NewConnection
<1>4. [Accepting EXCEPT !.result = "pending"] = new
  BY DEF Accepting, Free
<1> HIDE DEF new
<1>5. \A x \in Connections : conn'[x] = IF x = n THEN new ELSE conn[x]
  BY <1>1, <1>2, <1>4 DEF ServerInv, ServerTypeOK
<1>6. ServerTypeOK'
  BY <1>1, <1>2, <1>3, <1>4 DEF ServerInv, ServerTypeOK
<1>7. EveryoneGuarded' /\ StopReaches(conn, connections, acceptor)'
  BY <1>1, <1>2, <1>3, <1>5 DEF ServerInv, EveryoneGuarded, StopReaches
<1> QED
  BY <1>6, <1>7 DEF ServerInv

(* stop: every connection with a client is in the set, every accept is     *)
(* aborted.                                                                *)
LEMMA StopStep ==
  ASSUME ServerInv, stop, handler' = handler
  PROVE  ServerInv'
<1>1. CASE acceptor = "none"
  BY <1>1 DEF stop, ServerInv, ServerTypeOK, EveryoneGuarded, StopReaches
<1>2. CASE acceptor # "none"
  <2>1. /\ acceptor' = "closed" /\ connections' = {}
        /\ conn' = [x \in Connections |-> StopOne(conn[x], x)]
    BY <1>2 DEF stop
  <2>2. ASSUME NEW x \in Connections
        PROVE  conn'[x] \in Connection /\ conn'[x].socket # "open" /\ ~ AcceptPending(conn'[x])
    <3> DEFINE c == conn[x]
               a == IF c.op = "accept" /\ c.result = "pending"
                    THEN [c EXCEPT !.result = "aborted"] ELSE c
    <3>1. c \in Connection /\ (c.socket = "open" => x \in connections)
      BY DEF ServerInv, ServerTypeOK, StopReaches
    <3>2. a \in Connection /\ ~ AcceptPending(a) /\ a.socket = c.socket
      BY <3>1 DEF Connection, AcceptPending
    <3>3. conn'[x] = IF x \in connections THEN close(a) ELSE a
      BY <2>1 DEF StopOne
    <3> HIDE DEF a, c
    <3> QED
      BY <3>1, <3>2, <3>3, CloseStep DEF Step
  <2> QED
    BY <2>1, <2>2 DEF ServerInv, ServerTypeOK, EveryoneGuarded, Guarded, StopReaches
<1> QED
  BY <1>1, <1>2

LEMMA ServerInitial == Init => ServerInv
  BY FreeConnection DEF Init, ServerInv, ServerTypeOK, EveryoneGuarded, StopReaches

LEMMA ServerStep == ServerInv /\ [Next]_vars => ServerInv'
<1> SUFFICES ASSUME ServerInv, [Next]_vars PROVE ServerInv'
  OBVIOUS
<1>1. ASSUME UNCHANGED <<conn, connections, acceptor, handler>> PROVE ServerInv'
  BY <1>1 DEF ServerInv, ServerTypeOK, EveryoneGuarded, StopReaches
<1>2. CASE Locking
  BY <1>1, <1>2 DEF Locking, server, control
<1>3. CASE Refused
  <2> DEFINE d == Drop(conn[handler])
  <2>1. Settle([conn EXCEPT ![handler] = d], connections)
        /\ acceptor' = acceptor /\ handler' = Nobody
    BY <1>3 DEF Refused, control
  <2>2. handler \in Connections => Step(conn[handler], d)
    BY DropStep DEF ServerInv, ServerTypeOK
  <2> HIDE DEF d
  <2> QED
    BY <2>1, <2>2, HandlerEnds
<1>4. CASE Accepted
  BY <1>4, AcceptedStep
<1>5. CASE HeadRead \/ ContentRead \/ ChunkLineRead \/ ChunkRead \/ Answered \/ RefusalSent
  BY <1>5, HandleStep
  DEF HeadRead, ContentRead, ChunkLineRead, ChunkRead, Answered, RefusalSent, Waiting, Operations
<1>6. ASSUME NEW x \in Connections, Begin(x) PROVE ServerInv'
  BY <1>6, BeginStep
<1>7. ASSUME NEW x \in Connections, TimedOut(x) PROVE ServerInv'
  BY <1>7, TimedOutStep
<1>8. ASSUME NEW x \in Connections,
             Expire(x) \/ Connect(x) \/ Send(x) \/ SendOn(x) \/ Receive(x) \/ HangUp(x)
      PROVE  ServerInv'
  BY <1>8, ClientStep
<1>9. CASE Start
  BY <1>9, StartStep
<1>10. CASE Stop \/ DestroyOn
  BY <1>10, StopStep DEF Stop, DestroyOn
<1>11. CASE Destroy \/ HaltRunner
  BY <1>1, <1>11 DEF Destroy, HaltRunner
<1>12. CASE UNCHANGED vars
  BY <1>1, <1>12 DEF vars, server, control
<1> QED
  BY <1>2, <1>3, <1>4, <1>5, <1>6, <1>7, <1>8, <1>9, <1>10, <1>11, <1>12 DEF Next, InHandler

-----------------------------------------------------------------------------
(* Of any clients and requests: an operation with a client never waits     *)
(* without a timer that runs or one that is about to close the socket      *)
(* (set_timeout, cancel_timeout).                                          *)
THEOREM EveryWaitIsTimed == Spec => []TimeoutGuardsEveryWait
<1>1. ServerInv => TimeoutGuardsEveryWait
  BY DEF ServerInv, ServerTypeOK, EveryoneGuarded, Guarded, TimeoutGuardsEveryWait, Waiting,
         Connection
<1> QED
  BY <1>1, ServerInitial, ServerStep, PTL DEF Spec

(* When stop has closed the acceptor no client is left with an open        *)
(* socket, and none is let in again, until the server is started again     *)
(* (create_connection, stop, close).                                       *)
THEOREM StopServesNobody == Spec => []StoppedServesNobody
<1>1. ServerInv => StoppedServesNobody
  BY DEF ServerInv, StopReaches, StoppedServesNobody
<1> QED
  BY <1>1, ServerInitial, ServerStep, PTL DEF Spec

-----------------------------------------------------------------------------
(* The server and its ScopeRunner *)

(* Every step of the server is one atomic access of the runner or none.    *)
LEMMA ServerRunnerStep == [Next]_vars => [RunnerNext]_runner
<1> SUFFICES ASSUME [Next]_vars PROVE [RunnerNext]_runner
  OBVIOUS
<1>1. Io \in Threads
  BY ServerAssumption
<1>2. CASE InHandler
  BY <1>1, <1>2
  DEF InHandler, Locking, Refused, Accepted, HeadRead, ContentRead, ChunkLineRead, ChunkRead,
      Answered, RefusalSent, Handle, RunnerNext
<1>3. ASSUME NEW x \in Connections,
             \/ Begin(x) \/ TimedOut(x) \/ Expire(x)
             \/ Connect(x) \/ Send(x) \/ SendOn(x) \/ Receive(x) \/ HangUp(x)
      PROVE  [RunnerNext]_runner
  BY <1>1, <1>3
  DEF Begin, TimedOut, Expire, Connect, Send, SendOn, Receive, HangUp, Env, RunnerNext
<1>4. CASE Start \/ Stop \/ Destroy \/ HaltRunner \/ DestroyOn
  BY <1>4 DEF Start, Stop, Destroy, HaltRunner, DestroyOn, RunnerNext
<1>5. CASE UNCHANGED vars
  BY <1>5 DEF vars
<1> QED
  BY <1>2, <1>3, <1>4, <1>5 DEF Next

(* The server implements ScopeRunner: its handlers and its destructor use  *)
(* the runner as the class provides.                                       *)
LEMMA ServerImplementsRunner == Spec => RunnerSpec
<1>1. Init => RunnerInit
  BY DEF Init
<1> QED
  BY <1>1, ServerRunnerStep, PTL DEF Spec, RunnerSpec

(* So the count is right in the server, whatever its handlers do.          *)
THEOREM ServerCountsTheScopes == Spec => []CountsTheScopes
  BY ServerImplementsRunner, ScopesCounted, PTL

(* Once the destructor has passed the runner, no handler is in its scope   *)
(* or enters it again: what is destroyed is used by nobody (~ServerBase).  *)
DestructorAlone == owner \in {"halted", "gone"} => count = -1 /\ Inside = {}

THEOREM DestructorIsAlone == Spec => []DestructorAlone
<1> DEFINE Halted == owner \in {"halted", "gone"} => count = -1
<1>1. Init => Halted
  BY DEF Init
<1>2. RunnerInv /\ Halted /\ [Next]_vars => Halted'
  <2> SUFFICES ASSUME RunnerInv, Halted, [Next]_vars PROVE Halted'
    OBVIOUS
  <2>1. CASE owner \in {"halted", "gone"}
    <3>1. count' = -1
      BY <2>1, ServerRunnerStep, HaltedStays
    <3> QED
      BY <3>1
  <2>2. CASE owner \notin {"halted", "gone"}
    <3>1. owner' = owner \/ owner' = "destroying" \/ HaltRunner
      BY <2>2
      DEF Next, InHandler, Locking, Refused, Accepted, HeadRead, ContentRead, ChunkLineRead,
          ChunkRead, Answered, RefusalSent, Handle, Begin, TimedOut, Expire, Connect, Send,
          SendOn, Receive, HangUp, Env, Start, Stop, Destroy, DestroyOn, vars, server, control
    <3> QED
      BY <2>2, <3>1 DEF HaltRunner, RunnerStop
  <2> QED
    BY <2>1, <2>2
<1>3. RunnerInv /\ Halted => DestructorAlone
  <2> SUFFICES ASSUME RunnerInv, count = -1 PROVE Inside = {}
    BY DEF DestructorAlone
  <2>1. count # Cardinality(Inside)
    BY InsideFinite
  <2> QED
    BY <2>1 DEF RunnerInv, CountsTheScopes
<1>4. Init => RunnerInv
  BY RunnerInitial DEF Init
<1>5. RunnerInv /\ [Next]_vars => RunnerInv'
  BY ServerRunnerStep, RunnerStep
<1> QED
  BY <1>1, <1>2, <1>3, <1>4, <1>5, PTL DEF Spec
=============================================================================
