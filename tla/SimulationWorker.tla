-------------------------- MODULE SimulationWorker --------------------------
(***************************************************************************)
(* The worker nodes (src/SimulationWorker.cc).  A node binds its command   *)
(* port and serves one command at a time: receive, handle, reply.  pc[w]   *)
(* is where its only thread is:                                            *)
(*   "down"      the process has not been started                          *)
(*   "receive"   blocked in mq.receive() at the head of the loop           *)
(*   "handle"    about to dispatch request[w]                              *)
(*   "sendData"  in sendDataToController(), blocked in mq.send()           *)
(*   "closeData" about to close the data socket and delete the connector   *)
(*   "reply"     about to send reply[w]                                    *)
(*   "close"     left the loop, about to close the command socket          *)
(*   "exited"    the process has returned from main                        *)
(*   "crashed"   the process was killed by the use of a dead connector     *)
(* The connector pointer is never initialised by the constructor and never *)
(* reset after delete; no handler looks at it, or at state, before it goes *)
(* through the pointer.                                                    *)
(***************************************************************************)
EXTENDS MQ

VARIABLES
  pc,
  state,       \* SimulatorState of each node
  connector,   \* what the DBConnector pointer of each node designates
  runs,        \* calls of DBConnector::run() its counters accumulate
  protobuf,    \* protobuf library: "up" until shut "down" for the process
  request,     \* requestString
  reply        \* replyString

workerVars == <<pc, state, connector, runs, protobuf, request, reply>>

Commands == {"INIT", "GO", "GETRESULTS", "RESTART", "EXIT"}
Replies == {"INITDONE", "RESULTSREADY", "DONERESULTS", "RESTARTING", "EXITING"}
NoMessage == ""   \* the empty string: what a reply is when no branch sets it

WorkerInit ==
  /\ pc = [w \in Workers |-> "down"]
  /\ state = [w \in Workers |-> "START"]
  /\ connector = [w \in Workers |-> "uninitialised"]
  /\ runs = [w \in Workers |-> 0]
  /\ protobuf = [w \in Workers |-> "up"]
  /\ request = [w \in Workers |-> NoMessage]
  /\ reply = [w \in Workers |-> NoMessage]

\* What GETRESULTS reports: the host name and the counters of the connector.
Results(w) == [hostname |-> w, runs |-> runs[w]]

Goto(w, label) == pc' = [pc EXCEPT ![w] = label]

\* Every branch of the dispatch ends by setting the reply string.
Answer(w, message) ==
  /\ reply' = [reply EXCEPT ![w] = message]
  /\ Goto(w, "reply")

StartWorker(w) ==
  /\ pc[w] = "down"
  /\ BindCommand(w)
  /\ Goto(w, "receive")
  /\ UNCHANGED <<state, connector, runs, protobuf, request, reply>>

ReceiveRequest(w) ==
  /\ pc[w] = "receive"
  /\ ReceiveCommand(w)
  /\ request' = [request EXCEPT ![w] = Head(toWorker[w])]
  /\ Goto(w, "handle")
  /\ UNCHANGED <<state, connector, runs, protobuf, reply>>

Dispatch(w, command) == pc[w] = "handle" /\ request[w] = command

\* Mutant of HandleInit: "if (!connector) connector = new DBConnector(...)".
HandleInitOnce(w) ==
  /\ Dispatch(w, "INIT")
  /\ connector' = [connector EXCEPT ![w] = IF @ = "uninitialised" THEN "live" ELSE @]
  /\ Answer(w, "INITDONE")
  /\ UNCHANGED <<state, runs, protobuf, request, mqVars>>

HandleInit(w) ==
  /\ Dispatch(w, "INIT")
  /\ connector' = [connector EXCEPT ![w] = "live"]
  /\ runs' = [runs EXCEPT ![w] = 0]
  /\ Answer(w, "INITDONE")
  /\ UNCHANGED <<state, protobuf, request, mqVars>>

HandleGo(w) ==
  /\ Dispatch(w, "GO")
  /\ runs' = [runs EXCEPT ![w] = @ + 1]
  /\ state' = [state EXCEPT ![w] = "RESULTS"]
  /\ Answer(w, "RESULTSREADY")
  /\ UNCHANGED <<connector, protobuf, request, mqVars>>

\* getResults(), writeString() and the bind of a fresh data socket.
HandleGetResults(w) ==
  /\ Dispatch(w, "GETRESULTS")
  /\ BindData(w)
  /\ Goto(w, "sendData")
  /\ UNCHANGED <<state, connector, runs, protobuf, request, reply>>

SendData(w) ==
  /\ pc[w] = "sendData"
  /\ SendResults(w, Results(w))
  /\ Goto(w, "closeData")
  /\ UNCHANGED <<state, connector, runs, protobuf, request, reply>>

CloseData(w) ==
  /\ pc[w] = "closeData"
  /\ CloseDataAtWorker(w)
  /\ connector' = [connector EXCEPT ![w] = "deleted"]
  /\ protobuf' = [protobuf EXCEPT ![w] = "down"]
  /\ Answer(w, "DONERESULTS")
  /\ UNCHANGED <<state, runs, request>>

HandleRestart(w) ==
  /\ Dispatch(w, "RESTART")
  /\ state' = [state EXCEPT ![w] = "START"]
  /\ Answer(w, "RESTARTING")
  /\ UNCHANGED <<connector, runs, protobuf, request, mqVars>>

HandleExit(w) ==
  /\ Dispatch(w, "EXIT")
  /\ state' = [state EXCEPT ![w] = "EXIT"]
  /\ Answer(w, "EXITING")
  /\ UNCHANGED <<connector, runs, protobuf, request, mqVars>>

\* Mutant of HandleUnknown: an unknown command is not answered.
IgnoreUnknown(w) ==
  /\ pc[w] = "handle"
  /\ request[w] \notin Commands
  /\ Goto(w, "receive")
  /\ UNCHANGED <<state, connector, runs, protobuf, request, reply, mqVars>>

\* No branch matches: replyString keeps its default, and is sent all the same.
HandleUnknown(w) ==
  /\ pc[w] = "handle"
  /\ request[w] \notin Commands
  /\ Answer(w, NoMessage)
  /\ UNCHANGED <<state, connector, runs, protobuf, request, mqVars>>

\* GO and GETRESULTS dereference the pointer unconditionally, and run() uses
\* messages of a library that ~DBConnector shuts down.  If the pointer
\* designates no object, or the library is down, the handler may seem to
\* work, as above, or the process may be killed.
UndefinedUse(w) ==
  /\ \/ Dispatch(w, "GO") /\ (connector[w] # "live" \/ protobuf[w] # "up")
     \/ Dispatch(w, "GETRESULTS") /\ connector[w] # "live"
  /\ Goto(w, "crashed")
  /\ bound' = bound \ {w}
  /\ UNCHANGED <<linked, toWorker, toController, dataVars,
                 state, connector, runs, protobuf, request, reply>>

\* mq.send() of the reply, then the test of the while loop.
SendReply(w) ==
  /\ pc[w] = "reply"
  /\ SendToController(w, reply[w])
  /\ Goto(w, IF state[w] \in {"EXIT", "ERROR"} THEN "close" ELSE "receive")
  /\ UNCHANGED <<state, connector, runs, protobuf, request, reply>>

CloseWorker(w) ==
  /\ pc[w] = "close"
  /\ CloseCommandAtWorker(w)
  /\ Goto(w, "exited")
  /\ UNCHANGED <<state, connector, runs, protobuf, request, reply>>

WorkerStep(w) ==
  \/ StartWorker(w)
  \/ ReceiveRequest(w)
  \/ HandleInit(w)
  \/ HandleGo(w)
  \/ HandleGetResults(w)
  \/ SendData(w)
  \/ CloseData(w)
  \/ HandleRestart(w)
  \/ HandleExit(w)
  \/ HandleUnknown(w)
  \/ UndefinedUse(w)
  \/ SendReply(w)
  \/ CloseWorker(w)

WorkerTypeOK ==
  /\ pc \in [Workers -> {"down", "receive", "handle", "sendData", "closeData",
                         "reply", "close", "exited", "crashed"}]
  /\ state \in [Workers -> {"START", "RESULTS", "EXIT", "ERROR", "DONE"}]
  /\ connector \in [Workers -> {"uninitialised", "live", "deleted"}]
  /\ runs \in [Workers -> Nat]
  /\ protobuf \in [Workers -> {"up", "down"}]
  /\ request \in [Workers -> Commands \cup {NoMessage}]
  /\ reply \in [Workers -> Replies \cup {NoMessage}]
=============================================================================
