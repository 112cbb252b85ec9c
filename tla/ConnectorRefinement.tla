------------------------- MODULE ConnectorRefinement -------------------------
(***************************************************************************)
(* DBConnector over the broker implements AtomicStore: run() makes a PUT   *)
(* and a GET for every file, and putValue() and getValue() return what the *)
(* database did at one moment of the call.                                 *)
(***************************************************************************)
EXTENDS DBConnector

\* The operation that node n is in, or has returned from, as run() sees it.
Intended(n) ==
  IF pc[n] \in {"putReply", "get"} THEN Put(KeyOf[file[n]], file[n]) ELSE Get(KeyOf[file[n]])

CallOf(n) ==
  IF interrupts[n] > 0 \/ pc[n] \notin {"putReply", "get", "getReply", "create"}
  THEN [phase |-> "none", request |-> NoMessage, result |-> Empty]
  ELSE CASE pc[n] \in {"get", "create"} ->
              [phase |-> "returned", request |-> Intended(n), result |-> value[n]]
         [] pc[n] \in {"putReply", "getReply"} /\ request[n] = Intended(n) ->
              [phase |-> "invoked", request |-> Intended(n), result |-> Empty]
         [] pc[n] \in {"putReply", "getReply"} /\ request[n] # Intended(n) ->
              [phase |-> "done", request |-> Intended(n), result |-> reply[n].value]

DB == INSTANCE AtomicStore WITH
  NoRequest <- NoMessage,
  Requests <- {Put(KeyOf[f], f) : f \in Files} \cup {Get(k) : k \in Keys},
  disturbed <- {n \in Nodes : interrupts[n] > 0},
  call <- [n \in Nodes |-> CallOf(n)]

(***************************************************************************)
(* A getValue() of DBConnector returns what was stored under its key at a  *)
(* moment between its send and its receive, and a putValue() has taken     *)
(* effect when it returns, whatever the other nodes do and however many of *)
(* their receives fail.                                                    *)
(***************************************************************************)
ConnectorImplementsStore == DB!StoreSpec
=============================================================================
