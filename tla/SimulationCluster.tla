-------------------------- MODULE SimulationCluster --------------------------
(***************************************************************************)
(* One benchmark: a controller and the N nodes of its configuration file,  *)
(* over command and data connections that lose nothing.                    *)
(***************************************************************************)
EXTENDS SimulationController, SimulationWorker

vars == <<mqVars, controllerVars, workerVars>>

Init ==
  /\ MQInit
  /\ ControllerInit
  /\ WorkerInit

Done ==
  /\ stage = "COMPLETE"
  /\ \A w \in Workers : pc[w] = "exited"

\* A benchmark that has ended stays so; any other state without a successor
\* is a deadlock.
Terminated == Done /\ UNCHANGED vars

Next ==
  \/ ControllerStep /\ UNCHANGED workerVars
  \/ \E w \in Workers : WorkerStep(w) /\ UNCHANGED controllerVars
  \/ Terminated

Spec == Init /\ [][Next]_vars

\* The controller and every node are processes of their own.  A node is
\* started sooner or later: "First, the worker nodes must be fired up".
Fairness ==
  /\ WF_vars(ControllerStep /\ UNCHANGED workerVars)
  /\ \A w \in Workers : WF_vars(WorkerStep(w) /\ UNCHANGED controllerVars)

FairSpec == Spec /\ Fairness

-----------------------------------------------------------------------------
Row == [hostname : Workers, runs : Nat]

TypeOK ==
  /\ linked \subseteq Workers
  /\ bound \subseteq Workers
  /\ toWorker \in [Workers -> Seq(Commands)]
  /\ toController \in [Workers -> Seq(Replies \cup {NoMessage})]
  /\ dataLinked \in Workers \cup {NoWorker}
  /\ dataBound \subseteq Workers
  /\ dataQueue \in [Workers -> Seq(Row)]
  /\ stage \in Stages
  /\ it \in 1 .. N + 1
  /\ dataHosts \in Seq(Workers)
  /\ allResults \in Seq(Row)
  /\ simulationIteration \in UninitialisedInts
  /\ csvFiles \subseteq [iteration : Int, rows : Seq(Row)]
  /\ WorkerTypeOK

(***************************************************************************)
(* No handler checks the connector pointer: only the order in which the    *)
(* controller sends commands, and the queues keep them, makes GO and       *)
(* GETRESULTS find the object that INIT created and nobody deleted yet.    *)
(***************************************************************************)
ConnectorIsLive ==
  \A w \in Workers :
    pc[w] \in {"handle", "sendData", "closeData"}
      /\ request[w] \in {"GO", "GETRESULTS"} => connector[w] = "live"

(***************************************************************************)
(* The destructor of the connector shuts the protocol buffers library down *)
(* for the whole process, and run() needs it: a node never measures after  *)
(* it has been collected.                                                  *)
(***************************************************************************)
LibraryIsUp ==
  \A w \in Workers : pc[w] = "handle" /\ request[w] = "GO" => protobuf[w] = "up"

(***************************************************************************)
(* getAllNodes() counts any reply as the expected one, so the four         *)
(* barriers of run() rest on this: the reply it is about to take from a    *)
(* node answers the command of the same round.                             *)
(***************************************************************************)
RepliesMatchRound ==
  stage \in GetStages =>
    \A w \in Workers : toController[w] # <<>> => Head(toController[w]) = stage

(***************************************************************************)
(* A node measures only while the connectors of all nodes exist: no node   *)
(* is still being initialised, and none is already being collected, while  *)
(* another is inside DBConnector::run().  The published latencies are      *)
(* those of the whole cluster under load only if this holds.               *)
(***************************************************************************)
MeasuresTogether ==
  [][\A w \in Workers : runs'[w] > runs[w] =>
       \A v \in Workers : connector[v] = "live"]_vars

(***************************************************************************)
(* dataHosts is popped once per command connection, without any check that *)
(* the data came from the node that was asked: row k of the results is     *)
(* that of node k, after exactly one call of run().                        *)
(***************************************************************************)
RowsMatchHosts ==
  \A k \in 1 .. Len(allResults) : allResults[k] = [hostname |-> k, runs |-> 1]

(***************************************************************************)
(* Nodes wait on their data socket one at a time: a node blocked there has *)
(* been asked, and the controller is in its turn of the collection loop.   *)
(* Nobody is left blocked in a send that the controller will not come for. *)
(***************************************************************************)
OneSenderAtATime ==
  \A w \in Workers :
    pc[w] = "sendData" =>
      /\ stage \in {"DATACONNECT", "DATARECEIVE"}
      /\ it = w
      /\ stage = "DATACONNECT" => Head(dataHosts) = w

(***************************************************************************)
(* When the results are on disk the file has a row for every node, every   *)
(* node has left its loop, and no message is left in any queue for the     *)
(* destructor to wait for or to lose.                                      *)
(***************************************************************************)
PublishedMeansQuiescent ==
  csvFiles # {} =>
    /\ \A f \in csvFiles : Len(f.rows) = N
    /\ \A w \in Workers :
         /\ state[w] = "EXIT"
         /\ pc[w] \in {"close", "exited"}
         /\ toWorker[w] = <<>>
         /\ toController[w] = <<>>
         /\ dataQueue[w] = <<>>

(***************************************************************************)
(* README.md: "It will write a resultsX.csv file", X being the number      *)
(* given as simulationIteration.                                           *)
(***************************************************************************)
FileNamedAfterOption ==
  \A f \in csvFiles : f.iteration = SimulationIteration
=============================================================================
