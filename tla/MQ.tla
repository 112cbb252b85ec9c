--------------------------------- MODULE MQ ---------------------------------
(***************************************************************************)
(* The ZeroMQ PAIR sockets that src/MQ.cc wraps, as the controller and     *)
(* the workers use them.  Worker w owns two ports: the command port, open  *)
(* for the life of the process, and the data port, opened for one GETRESULTS*)
(* at a time.  The controller connects to both.                            *)
(*                                                                         *)
(* A queue stands for everything between the two ends of a connection:     *)
(* the sender's pipe, the wire and the receiver's pipe.  The connecting    *)
(* side has a pipe as soon as zmq_connect returns, so it can send before   *)
(* the peer is up; the binding side has one only while a peer is attached, *)
(* so its send blocks until then.  zmq_ctx_destroy waits until what the    *)
(* socket still holds has reached the peer (ZMQ_LINGER is never set).      *)
(***************************************************************************)
EXTENDS Integers, Sequences

CONSTANT N    \* the number of entries of commandHosts (and of dataHosts)

ASSUME NAssumption == N \in Nat

Workers == 1 .. N    \* node w is the w-th entry of both host lists

NoWorker == 0

VARIABLES
  linked,         \* nodes whose command port the controller is connected to
  bound,          \* nodes whose command socket is bound
  toWorker,       \* commands on their way to each node
  toController,   \* replies on their way back from each node
  dataLinked,     \* node the controller's data socket is connected to
  dataBound,      \* nodes whose data socket is bound
  dataQueue       \* results on their way from each node's data socket

commandVars == <<linked, bound, toWorker, toController>>
dataVars == <<dataLinked, dataBound, dataQueue>>
mqVars == <<commandVars, dataVars>>

MQInit ==
  /\ linked = {}
  /\ bound = {}
  /\ toWorker = [w \in Workers |-> <<>>]
  /\ toController = [w \in Workers |-> <<>>]
  /\ dataLinked = NoWorker
  /\ dataBound = {}
  /\ dataQueue = [w \in Workers |-> <<>>]

(***************************************************************************)
(* The command connection.                                                 *)
(***************************************************************************)
BindCommand(w) ==
  /\ bound' = bound \cup {w}
  /\ UNCHANGED <<linked, toWorker, toController, dataVars>>

ConnectCommand(w) ==
  /\ linked' = linked \cup {w}
  /\ UNCHANGED <<bound, toWorker, toController, dataVars>>

SendCommand(w, message) ==
  /\ w \in linked
  /\ toWorker' = [toWorker EXCEPT ![w] = Append(@, message)]
  /\ UNCHANGED <<linked, bound, toController, dataVars>>

ReceiveCommand(w) ==
  /\ w \in bound
  /\ toWorker[w] # <<>>
  /\ toWorker' = [toWorker EXCEPT ![w] = Tail(@)]
  /\ UNCHANGED <<linked, bound, toController, dataVars>>

SendToController(w, message) ==
  /\ w \in bound \cap linked
  /\ toController' = [toController EXCEPT ![w] = Append(@, message)]
  /\ UNCHANGED <<linked, bound, toWorker, dataVars>>

ReceiveReply(w) ==
  /\ toController[w] # <<>>
  /\ toController' = [toController EXCEPT ![w] = Tail(@)]
  /\ UNCHANGED <<linked, bound, toWorker, dataVars>>

\* closeSocket() and destroy() at the node: returns once its replies are out.
CloseCommandAtWorker(w) ==
  /\ toController[w] # <<>> => w \in linked
  /\ bound' = bound \ {w}
  /\ UNCHANGED <<linked, toWorker, toController, dataVars>>

\* closeSocket() and destroy() at the controller: returns once its commands are out.
CloseCommandAtController(w) ==
  /\ toWorker[w] # <<>> => w \in bound
  /\ linked' = linked \ {w}
  /\ UNCHANGED <<bound, toWorker, toController, dataVars>>

(***************************************************************************)
(* The data connection.                                                    *)
(***************************************************************************)
BindData(w) ==
  /\ dataBound' = dataBound \cup {w}
  /\ UNCHANGED <<commandVars, dataLinked, dataQueue>>

ConnectData(w) ==
  /\ dataLinked' = w
  /\ UNCHANGED <<commandVars, dataBound, dataQueue>>

SendResults(w, message) ==
  /\ w \in dataBound
  /\ dataLinked = w
  /\ dataQueue' = [dataQueue EXCEPT ![w] = Append(@, message)]
  /\ UNCHANGED <<commandVars, dataLinked, dataBound>>

\* MQ::receive(buffer, size) followed by closeSocket() and destroy(): whatever
\* is left in the pipe goes with the socket.
ReceiveResultsAndClose(w) ==
  /\ dataQueue[w] # <<>>
  /\ dataLinked' = NoWorker
  /\ dataQueue' = [dataQueue EXCEPT ![w] = <<>>]
  /\ UNCHANGED <<commandVars, dataBound>>

CloseDataAtWorker(w) ==
  /\ dataBound' = dataBound \ {w}
  /\ UNCHANGED <<commandVars, dataLinked, dataQueue>>
=============================================================================
