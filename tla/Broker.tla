------------------------------- MODULE Broker --------------------------------
(***************************************************************************)
(* The REQ sockets of the nodes, and the broker with the database behind   *)
(* it.  DBConnector uses such a socket through MQ, RiakJavaKeyValueDB      *)
(* through MessageSender, and both in the same way: send() and receive()   *)
(* print that a call has failed, and the caller does not look.             *)
(*                                                                         *)
(* A REQ socket refuses to send while a reply is owed to it.  An           *)
(* interrupted zmq_msg_recv leaves the message empty.  The broker is not   *)
(* part of the repository: it executes one request at a time, in any order *)
(* between nodes, and answers every one.                                   *)
(***************************************************************************)
EXTENDS Integers, Functions

CONSTANTS
  Nodes,
  Keys,
  Values,          \* what is stored under a key
  MaxInterrupts    \* bound: interrupted receives, of all nodes

Empty == 0    \* a value of no bytes: what an error reply carries

ASSUME BrokerAssumption == Empty \notin Values /\ MaxInterrupts \in Nat

VARIABLES
  request,      \* request of each node's socket on its way to the broker
  reply,        \* reply on its way to each node's socket
  store,        \* contents of the database, by key
  executed,     \* requests of each node the database has executed, by command
  interrupts    \* how many receives were interrupted

socketVars == <<request, reply, store, executed>>
brokerVars == <<socketVars, interrupts>>

NoMessage == [op |-> "none", key |-> Empty, value |-> Empty]
Put(k, v) == [op |-> "PUT", key |-> k, value |-> v]
Get(k) == [op |-> "GET", key |-> k, value |-> Empty]
OK(v) == [op |-> "OK", key |-> Empty, value |-> v]
Error == [op |-> "ERROR", key |-> Empty, value |-> Empty]

BrokerInit ==
  /\ request = [n \in Nodes |-> NoMessage]
  /\ reply = [n \in Nodes |-> NoMessage]
  /\ store = [k \in Keys |-> Empty]
  /\ executed = [n \in Nodes |-> [PUT |-> 0, GET |-> 0]]
  /\ interrupts = [n \in Nodes |-> 0]

Owed(n) == request[n] # NoMessage \/ reply[n] # NoMessage

\* Mutant of Send: a send that waits until the socket accepts the message.
SendWhenReady(n, message) ==
  /\ ~Owed(n)
  /\ request' = [request EXCEPT ![n] = message]
  /\ UNCHANGED <<reply, store, executed, interrupts>>

\* zmq_msg_send fails (EFSM) while a reply is owed to the socket.
Send(n, message) ==
  /\ request' = IF Owed(n) THEN request ELSE [request EXCEPT ![n] = message]
  /\ UNCHANGED <<reply, store, executed, interrupts>>

\* Mutant of Receive: a receive that does not wait.
ReceiveNow(n) ==
  /\ reply' = [reply EXCEPT ![n] = NoMessage]
  /\ UNCHANGED <<request, store, executed, interrupts>>

Receive(n) ==
  /\ reply[n] # NoMessage
  /\ reply' = [reply EXCEPT ![n] = NoMessage]
  /\ UNCHANGED <<request, store, executed, interrupts>>

\* A signal arrives while zmq_msg_recv waits.
Interrupt(n) ==
  /\ reply[n] = NoMessage
  /\ SumFunction(interrupts) < MaxInterrupts
  /\ interrupts' = [interrupts EXCEPT ![n] = @ + 1]
  /\ UNCHANGED socketVars

\* The context is destroyed: a reply is dropped, a request still goes out
\* (ZMQ_LINGER is not set).
Close(n) ==
  /\ reply' = [reply EXCEPT ![n] = NoMessage]
  /\ UNCHANGED <<request, store, executed, interrupts>>

\* The broker executes the request of n.  A GET of a key nobody has stored is
\* answered by an error.
Serve(n) ==
  /\ request[n] # NoMessage
  /\ request' = [request EXCEPT ![n] = NoMessage]
  /\ executed' = [executed EXCEPT ![n][request[n].op] = @ + 1]
  /\ LET m == request[n] IN
       IF m.op = "PUT"
       THEN /\ store' = [store EXCEPT ![m.key] = m.value]
            /\ reply' = [reply EXCEPT ![n] = OK(Empty)]
       ELSE /\ reply' = [reply EXCEPT ![n] = IF store[m.key] = Empty THEN Error
                                             ELSE OK(store[m.key])]
            /\ UNCHANGED store
  /\ UNCHANGED interrupts

=============================================================================
