------------------------- MODULE SimulatorRefinement -------------------------
(***************************************************************************)
(* A Simulator whose database is RiakJavaKeyValueDB implements AtomicStore:*)
(* every access of its loops, and every pair that initialise() writes, is  *)
(* one operation.  The other databases make no call.                       *)
(***************************************************************************)
EXTENDS Simulator

Intended(n) == IF access[n].read THEN Get(access[n].key) ELSE Put(access[n].key, TheValue)

CallOf(n) ==
  IF interrupts[n] > 0 \/ ~UsesBroker(n) \/ ~access[n].made \/ pc[n] \notin {"receive", "loop"}
  THEN [phase |-> "none", request |-> NoMessage, result |-> Empty]
  ELSE CASE pc[n] = "loop" ->
              [phase |-> "returned", request |-> Intended(n), result |-> access[n].value]
         [] pc[n] = "receive" /\ request[n] = Intended(n) ->
              [phase |-> "invoked", request |-> Intended(n), result |-> Empty]
         [] pc[n] = "receive" /\ request[n] # Intended(n) ->
              [phase |-> "done", request |-> Intended(n), result |-> reply[n].value]

DB == INSTANCE AtomicStore WITH
  NoRequest <- NoMessage,
  Requests <- {Put(k, TheValue) : k \in Keys} \cup {Get(k) : k \in Keys},
  disturbed <- {n \in Nodes : interrupts[n] > 0},
  call <- [n \in Nodes |-> CallOf(n)]

(***************************************************************************)
(* getValue() and putValue() of RiakJavaKeyValueDB take effect at a moment *)
(* between their send() and their receive(), and return what the database  *)
(* did then, as long as no receive() of that node has failed.              *)
(***************************************************************************)
SimulatorImplementsStore == DB!StoreSpec
=============================================================================
