---------------------------- MODULE ClusterFaults ----------------------------
(***************************************************************************)
(* SimulationCluster where calls fail and processes die.                   *)
(*                                                                         *)
(* A blocked zmq_msg_recv or zmq_msg_send that a signal interrupts returns *)
(* -1.  The wrappers of MQ.cc print a line and go on with the empty        *)
(* message, so each caller takes the failure for an answer:                *)
(*   "reply"    getAllNodes() counts the node as having replied            *)
(*   "data"     receiveDataFromWorker() parses whatever the buffer holds   *)
(*   "request"  the node dispatches the empty request, and answers it      *)
(*   "results"  the node goes on as if its results had been taken          *)
(* A process may be killed, and is started again by the operator, who runs *)
(* the controller again from the beginning:                                *)
(*   "controller", "worker"                                                *)
(* There is no timeout anywhere: a lost message is waited for forever.     *)
(***************************************************************************)
EXTENDS SimulationCluster

CONSTANTS
  FaultKinds,   \* the kinds of fault that happen
  MaxFaults     \* bound on their number

ASSUME FaultAssumption ==
  /\ FaultKinds \subseteq {"reply", "data", "request", "results", "controller", "worker"}
  /\ MaxFaults \in Nat

VARIABLES
  faults,      \* the number of faults so far
  happened,    \* their kinds
  restarted    \* the nodes that have been killed

faultHistory == <<faults, happened, restarted>>
faultVars == <<vars, faultHistory>>

\* What readString() makes of a buffer that was never filled.
Garbage == [hostname |-> NoWorker, runs |-> 0]

Fault(kind, killed) ==
  /\ kind \in FaultKinds
  /\ faults < MaxFaults
  /\ faults' = faults + 1
  /\ happened' = happened \cup {kind}
  /\ restarted' = restarted \cup killed

-----------------------------------------------------------------------------
\* Mutant of GetInterrupted: the command is sent again.
GetInterruptedRetries ==
  /\ Fault("reply", {})
  /\ stage \in GetStages
  /\ it <= N
  /\ SendCommand(it, [INITDONE |-> "INIT", RESULTSREADY |-> "GO",
                      DONERESULTS |-> "GETRESULTS", EXITING |-> "EXIT"][stage])
  /\ Advance
  /\ UNCHANGED <<dataHosts, allResults, simulationIteration, csvFiles, workerVars>>

\* getAllNodes() with an interrupted receive: no reply is consumed.
GetInterrupted ==
  /\ Fault("reply", {})
  /\ stage \in GetStages
  /\ it <= N
  /\ Advance
  /\ UNCHANGED <<dataHosts, allResults, simulationIteration, csvFiles, mqVars, workerVars>>

\* Mutant of ReceiveDataInterrupted: nothing is added to the results.
ReceiveDataSkipped ==
  /\ Fault("data", {})
  /\ stage = "DATARECEIVE"
  /\ dataLinked' = NoWorker
  /\ dataQueue' = [dataQueue EXCEPT ![dataLinked] = <<>>]
  /\ stage' = "GETRESULTS"
  /\ it' = it + 1
  /\ UNCHANGED <<dataHosts, allResults, simulationIteration, csvFiles, commandVars,
                 dataBound, workerVars>>

\* receiveDataFromWorker() with an interrupted receive: the data socket is
\* closed, and with it goes what was on its way.
ReceiveDataInterrupted ==
  /\ Fault("data", {})
  /\ stage = "DATARECEIVE"
  /\ dataLinked' = NoWorker
  /\ dataQueue' = [dataQueue EXCEPT ![dataLinked] = <<>>]
  /\ allResults' = Append(allResults, Garbage)
  /\ stage' = "GETRESULTS"
  /\ it' = it + 1
  /\ UNCHANGED <<dataHosts, simulationIteration, csvFiles, commandVars, dataBound, workerVars>>

\* Mutant of ReceiveRequestInterrupted: the message is taken all the same.
RequestLost(w) ==
  /\ Fault("request", {})
  /\ pc[w] = "receive"
  /\ ReceiveCommand(w)
  /\ request' = [request EXCEPT ![w] = NoMessage]
  /\ Goto(w, "handle")
  /\ UNCHANGED <<state, connector, runs, protobuf, reply, controllerVars>>

ReceiveRequestInterrupted(w) ==
  /\ Fault("request", {})
  /\ pc[w] = "receive"
  /\ request' = [request EXCEPT ![w] = NoMessage]
  /\ Goto(w, "handle")
  /\ UNCHANGED <<state, connector, runs, protobuf, reply, mqVars, controllerVars>>

SendDataInterrupted(w) ==
  /\ Fault("results", {})
  /\ pc[w] = "sendData"
  /\ dataLinked # w
  /\ Goto(w, "closeData")
  /\ UNCHANGED <<state, connector, runs, protobuf, request, reply, mqVars, controllerVars>>

-----------------------------------------------------------------------------
Prefixes(q) == {SubSeq(q, 1, k) : k \in 0 .. Len(q)}
Suffixes(q) == {SubSeq(q, k + 1, Len(q)) : k \in 0 .. Len(q)}

\* The controller is killed.  Commands that have reached a node stay there,
\* replies and results on their way to it are gone; files stay.
ControllerCrash ==
  /\ Fault("controller", {})
  /\ stage # "COMPLETE"
  /\ linked' = {}
  /\ toController' = [w \in Workers |-> <<>>]
  /\ dataLinked' = NoWorker
  /\ dataQueue' = [w \in Workers |-> <<>>]
  /\ toWorker' \in {q \in [Workers -> UNION {Prefixes(toWorker[w]) : w \in Workers}] :
                      \A w \in Workers : q[w] \in Prefixes(toWorker[w])}
  /\ stage' = "CONNECT"
  /\ it' = 1
  /\ dataHosts' = [k \in 1 .. N |-> k]
  /\ allResults' = <<>>
  /\ simulationIteration' \in UninitialisedInts
  /\ UNCHANGED <<csvFiles, bound, dataBound, workerVars>>

\* A node that answers a controller that has just died may do so into a
\* connection it does not know to be dead yet.
SendReplyLost(w) ==
  /\ faults > 0
  /\ "controller" \in FaultKinds
  /\ pc[w] = "reply"
  /\ w \notin linked
  /\ Goto(w, IF state[w] \in {"EXIT", "ERROR"} THEN "close" ELSE "receive")
  /\ UNCHANGED <<state, connector, runs, protobuf, request, reply, mqVars,
                 controllerVars, faultHistory>>

\* A node is killed.  What had reached it is gone, what is still with the
\* controller waits for the connection to come up again; the same holds for
\* its replies the other way round.
WorkerCrash(w) ==
  /\ Fault("worker", {w})
  /\ pc[w] \notin {"down", "exited"}
  /\ bound' = bound \ {w}
  /\ dataBound' = dataBound \ {w}
  /\ \E q \in Suffixes(toWorker[w]) : toWorker' = [toWorker EXCEPT ![w] = q]
  /\ \E q \in Prefixes(toController[w]) : toController' = [toController EXCEPT ![w] = q]
  /\ \E q \in Prefixes(dataQueue[w]) : dataQueue' = [dataQueue EXCEPT ![w] = q]
  /\ Goto(w, "down")
  /\ state' = [state EXCEPT ![w] = "START"]
  /\ connector' = [connector EXCEPT ![w] = "uninitialised"]
  /\ runs' = [runs EXCEPT ![w] = 0]
  /\ protobuf' = [protobuf EXCEPT ![w] = "up"]
  /\ UNCHANGED <<request, reply, linked, dataLinked, controllerVars>>

-----------------------------------------------------------------------------
FaultInit == Init /\ faults = 0 /\ happened = {} /\ restarted = {}

FaultStep ==
  \/ GetInterrupted
  \/ ReceiveDataInterrupted
  \/ ControllerCrash
  \/ \E w \in Workers :
       \/ ReceiveRequestInterrupted(w)
       \/ SendDataInterrupted(w)
       \/ SendReplyLost(w)
       \/ WorkerCrash(w)

FaultNext == FaultStep \/ (Next /\ UNCHANGED faultHistory)

FaultSpec == FaultInit /\ [][FaultNext]_faultVars

\* Faults are never due; the processes are scheduled as before.
FaultFairSpec ==
  /\ FaultSpec
  /\ WF_faultVars(ControllerStep /\ UNCHANGED <<workerVars, faultHistory>>)
  /\ \A w \in Workers :
       WF_faultVars(WorkerStep(w) /\ UNCHANGED <<controllerVars, faultHistory>>)

-----------------------------------------------------------------------------
(***************************************************************************)
(* Whatever was interrupted, and whoever was killed and started again, row *)
(* k is that of node k or garbage, and garbage only after an interrupted   *)
(* collection.  It reports exactly one call of run() if node k was not     *)
(* killed: neither the leftovers of an earlier controller nor the mishaps  *)
(* of other nodes reach its figures.  A result file has all the rows.      *)
(***************************************************************************)
RowsKeepTheirPlace ==
  /\ \A k \in 1 .. Len(allResults) :
       \/ allResults[k] = Garbage /\ "data" \in happened
       \/ /\ allResults[k].hostname = k
          /\ k \notin restarted => allResults[k].runs = 1
  /\ \A f \in csvFiles : Len(f.rows) = N

(***************************************************************************)
(* Only a node that has been killed itself can be asked to go through a    *)
(* pointer to no object: interrupted calls make the controller and the     *)
(* nodes drift apart, and a controller that is run again finds the nodes   *)
(* anywhere, but the queues keep the order of the commands.                *)
(***************************************************************************)
DeadOnlyAfterRestart ==
  \A w \in Workers \ restarted :
    pc[w] \in {"handle", "sendData", "closeData"}
      /\ request[w] \in {"GO", "GETRESULTS"} => connector[w] = "live"

(***************************************************************************)
(* INIT overwrites the pointer to a connector that nobody has deleted, and *)
(* leaks it with its sockets, only when an earlier controller was killed   *)
(* between the INIT and the GETRESULTS of that node.                       *)
(***************************************************************************)
LeaksOnlyAfterCrash ==
  \A w \in Workers :
    pc[w] = "handle" /\ request[w] = "INIT" /\ connector[w] = "live" =>
      "controller" \in happened

\* An earlier controller has left node w where the present one cannot use it:
\* it waits for the collection of its results, or is past it and has shut the
\* library down, before the present one has come to collect.
LeftBehind(w) ==
  \/ /\ stage \in {"INITDONE", "GO", "RESULTSREADY"}
     /\ pc[w] = "sendData" \/ protobuf[w] = "down"
  \/ protobuf[w] = "down" /\ request[w] = "GO"

(***************************************************************************)
(* Interrupted receives of commands and replies, however many, do not stop *)
(* the controller, and a controller that was killed can be run again: it   *)
(* returns with its results written, unless the transfer of some results   *)
(* was interrupted, a node was killed, or the earlier controller had come  *)
(* as far as to ask a node for its results.                                *)
(***************************************************************************)
ControllerReturns ==
  \/ <>(stage = "COMPLETE" /\ csvFiles # {})
  \/ <>(happened \cap {"data", "results", "worker"} # {})
  \/ <>(\E w \in Workers : LeftBehind(w))
=============================================================================
