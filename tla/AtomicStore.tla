----------------------------- MODULE AtomicStore -----------------------------
(***************************************************************************)
(* What the benchmark takes its database for.  A node calls put or get and *)
(* waits; the operation takes effect at one moment between the call and    *)
(* its return, on the store as it is at that moment.                       *)
(*                                                                         *)
(* Nothing of this is promised to a node once a receive of it has been     *)
(* interrupted: it is "disturbed", what its calls return is left open, and *)
(* a request it has given up waiting for may still be executed.  The other *)
(* nodes keep their guarantee.                                             *)
(*                                                                         *)
(* DBConnector, Simulator, MessageSender and the broker together implement *)
(* this: see ConnectorRefinement and SimulatorRefinement.                  *)
(***************************************************************************)
EXTENDS Naturals

CONSTANTS
  Nodes,
  Keys,
  Empty,        \* what get returns for a key nobody has stored
  NoRequest,
  Requests      \* what the nodes ask for: records with op, key and value

VARIABLES
  store,       \* contents of the database
  call,        \* the last operation of each node
  disturbed    \* nodes that have had an interrupted receive

storeVars == <<store, call, disturbed>>

Call(phase, request, result) == [phase |-> phase, request |-> request, result |-> result]

NoCall == Call("none", NoRequest, Empty)

StoreInit ==
  /\ store = [k \in Keys |-> Empty]
  /\ call = [n \in Nodes |-> NoCall]
  /\ disturbed = {}

Write(request) == store' = [store EXCEPT ![request.key] = request.value]

Invoke(n) ==
  /\ n \notin disturbed
  /\ call[n].phase \in {"none", "returned"}
  /\ \E r \in Requests : call' = [call EXCEPT ![n] = Call("invoked", r, Empty)]
  /\ UNCHANGED <<store, disturbed>>

\* The operation takes effect.
Commit(n) ==
  /\ call[n].phase = "invoked"
  /\ LET r == call[n].request IN
       IF r.op = "PUT"
       THEN /\ Write(r)
            /\ call' = [call EXCEPT ![n] = Call("done", r, Empty)]
       ELSE /\ call' = [call EXCEPT ![n] = Call("done", r, store[r.key])]
            /\ UNCHANGED store
  /\ UNCHANGED disturbed

Return(n) ==
  /\ call[n].phase = "done"
  /\ call' = [call EXCEPT ![n].phase = "returned"]
  /\ UNCHANGED <<store, disturbed>>

Forget(n) ==
  /\ call[n].phase = "returned"
  /\ call' = [call EXCEPT ![n] = NoCall]
  /\ UNCHANGED <<store, disturbed>>

Disturb(n) ==
  /\ n \notin disturbed
  /\ disturbed' = disturbed \cup {n}
  /\ call' = [call EXCEPT ![n] = NoCall]
  /\ UNCHANGED store

\* A request of a disturbed node, whether anybody waits for it or not.
Stray(n) ==
  /\ n \in disturbed
  /\ \E r \in Requests : r.op = "PUT" /\ Write(r)
  /\ UNCHANGED <<call, disturbed>>

StoreNext ==
  \E n \in Nodes :
    Invoke(n) \/ Commit(n) \/ Return(n) \/ Forget(n) \/ Disturb(n) \/ Stray(n)

StoreSpec == StoreInit /\ [][StoreNext]_storeVars
=============================================================================
