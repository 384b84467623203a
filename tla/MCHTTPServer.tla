--------------------------- MODULE MCHTTPServer ---------------------------
(* Three connections: two clients in service while a third is waited for.  *)
(* The clients of one send chunked requests, those of another requests     *)
(* with a content whose resource throws, or that is too large; who gets    *)
(* the third sends nothing.                                                *)
EXTENDS HTTPServer
CONSTANTS c1, c2, c3
MCConnections == {c1, c2, c3}
MCRequests ==
  [x \in MCConnections |->
     CASE x = c1 -> {[kind |-> "chunked", keep |-> TRUE, throws |-> FALSE]}
       [] x = c2 -> {[kind |-> "content", keep |-> TRUE, throws |-> TRUE],
                    [kind |-> "large", keep |-> FALSE, throws |-> FALSE]}
       [] x = c3 -> {}]
=============================================================================
