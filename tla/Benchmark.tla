------------------------------ MODULE Benchmark ------------------------------
(***************************************************************************)
(* The whole program: the controller and the nodes of SimulationCluster,   *)
(* and in every node the DBConnector that INIT creates, GO runs and        *)
(* GETRESULTS reports and deletes, with the broker they all talk to.       *)
(*                                                                         *)
(* SimulationCluster takes the call of DBConnector::run() for one step.    *)
(* Here it lasts: the node is in "run" from the GO until run() returns,    *)
(* while the broker and the other nodes go on.  INIT, GO, GETRESULTS and   *)
(* EXIT are all that a controller sends; WorkerSession has the rest.       *)
(***************************************************************************)
EXTENDS SimulationCluster

CONSTANTS Keys, Values, KeyOf, SizeOf, BytesLimit, MaxInterrupts

\* The connectors start N runs, one for the GO to each node.
ASSUME BenchmarkAssumption ==
  /\ Values \subseteq Nat \ {0}
  /\ KeyOf \in [Values -> Keys]
  /\ SizeOf \in [Values -> Nat]
  /\ BytesLimit \in Nat \cup {-1}
  /\ MaxInterrupts \in Nat

VARIABLES
  dbPc, todo, file, value, loaded, total, calls,     \* DBConnector of each node
  dbRequest, dbReply, store, executed, interrupts,   \* its socket, and the broker
  reported       \* history: what each node has sent of its figures

DB == INSTANCE DBConnector WITH
  Nodes <- Workers, MaxRuns <- N, pc <- dbPc, request <- dbRequest, reply <- dbReply

connectorVars == <<dbPc, todo, file, value, loaded, total, calls>>
dbVars == <<connectorVars, dbRequest, dbReply, store, executed, interrupts>>
allVars == <<vars, dbVars, reported>>

NotReported == -1

\* DB!Init, except that there is no connector before INIT.
BenchmarkInit ==
  /\ Init
  /\ DB!BrokerInit
  /\ dbPc = [w \in Workers |-> "deleted"]
  /\ todo = [w \in Workers |-> {}]
  /\ file = [w \in Workers |-> DB!Empty]
  /\ value = [w \in Workers |-> DB!Empty]
  /\ loaded = [w \in Workers |-> 0]
  /\ total = [w \in Workers |-> 0]
  /\ calls = [w \in Workers |-> 0]
  /\ reported = [w \in Workers |-> NotReported]

-----------------------------------------------------------------------------
\* INIT: new DBConnector, with its counters at zero and a socket of its own.
CreateConnector(w) ==
  /\ HandleInit(w)
  /\ dbPc' = [dbPc EXCEPT ![w] = "idle"]
  /\ loaded' = [loaded EXCEPT ![w] = 0]
  /\ total' = [total EXCEPT ![w] = 0]
  /\ UNCHANGED <<todo, file, value, calls, dbRequest, dbReply, store, executed, interrupts,
                 reported>>

\* Mutant of StartRun: run() is started in a thread of its own, and the node
\* answers at once.
StartRunDetached(w) ==
  /\ HandleGo(w)
  /\ DB!Run(w)
  /\ UNCHANGED reported

\* GO: connector->run() is entered ...
StartRun(w) ==
  /\ Dispatch(w, "GO")
  /\ DB!Run(w)
  /\ Goto(w, "run")
  /\ UNCHANGED <<state, connector, runs, protobuf, request, reply, mqVars, reported>>

\* Mutant of FinishRun: the node goes back to its loop and does not answer.
FinishRunSilently(w) ==
  /\ pc[w] = "run"
  /\ dbPc[w] = "returned"
  /\ runs' = [runs EXCEPT ![w] = @ + 1]
  /\ state' = [state EXCEPT ![w] = "RESULTS"]
  /\ Goto(w, "receive")
  /\ UNCHANGED <<connector, protobuf, request, reply, mqVars, dbVars, reported>>

\* ... and returns.
FinishRun(w) ==
  /\ pc[w] = "run"
  /\ dbPc[w] = "returned"
  /\ runs' = [runs EXCEPT ![w] = @ + 1]
  /\ state' = [state EXCEPT ![w] = "RESULTS"]
  /\ Answer(w, "RESULTSREADY")
  /\ UNCHANGED <<connector, protobuf, request, mqVars, dbVars, reported>>

\* GETRESULTS: the figures of getResults() go with the row.
ReportResults(w) ==
  /\ SendData(w)
  /\ reported' = [reported EXCEPT ![w] = loaded[w]]
  /\ UNCHANGED dbVars

DeleteConnector(w) ==
  /\ CloseData(w)
  /\ DB!Delete(w)
  /\ UNCHANGED reported

\* What the node does without its connector.
NodeAlone(w) ==
  /\ \/ StartWorker(w)
     \/ ReceiveRequest(w)
     \/ HandleGetResults(w)
     \/ HandleExit(w)
     \/ SendReply(w)
     \/ CloseWorker(w)
  /\ UNCHANGED <<dbVars, reported>>

NodeThread(w) ==
  /\ \/ CreateConnector(w)
     \/ StartRun(w)
     \/ FinishRun(w)
     \/ ReportResults(w)
     \/ DeleteConnector(w)
     \/ NodeAlone(w)
  /\ UNCHANGED controllerVars

\* The same thread, inside run().
InsideRun(w) == DB!NodeStep(w) /\ UNCHANGED <<vars, reported>>

BrokerServes(w) == DB!Serve(w) /\ UNCHANGED <<connectorVars, vars, reported>>

ControllerMoves == ControllerStep /\ UNCHANGED <<workerVars, dbVars, reported>>

BenchmarkNext ==
  \/ ControllerMoves
  \/ \E w \in Workers : NodeThread(w) \/ InsideRun(w) \/ BrokerServes(w)
  \/ Done /\ UNCHANGED allVars

BenchmarkSpec == BenchmarkInit /\ [][BenchmarkNext]_allVars

\* The processes of SimulationCluster, and a broker that answers everybody.
FairBenchmarkSpec ==
  /\ BenchmarkSpec
  /\ WF_allVars(ControllerMoves)
  /\ \A w \in Workers :
       WF_allVars(NodeThread(w) \/ InsideRun(w)) /\ WF_allVars(BrokerServes(w))

-----------------------------------------------------------------------------
Measuring(w) == dbPc[w] \notin {"idle", "returned", "deleted"}

(***************************************************************************)
(* The benchmark measures the cluster under the load of all nodes: from    *)
(* the first request of run() to the last reply, at every node, the        *)
(* connectors of all nodes exist, none is still being created and none is  *)
(* already being collected.  No request is on its way at any other time,   *)
(* except one that a node whose receive was interrupted has left behind.   *)
(***************************************************************************)
LoadOnlyTogether ==
  \A w \in Workers :
    Measuring(w) \/ (dbRequest[w] # DB!NoMessage /\ interrupts[w] = 0) =>
      /\ \A v \in Workers : connector[v] = "live" /\ dbPc[v] # "deleted"
      /\ stage \in {"GO", "RESULTSREADY"}

(***************************************************************************)
(* The rows of the result file count what the database has executed for    *)
(* the node they name: the number of objects is that of its PUTs, less at  *)
(* most one for every receive of that node that was interrupted, and none  *)
(* of the other nodes' mishaps are in it.                                  *)
(***************************************************************************)
RowsCountWhatWasStored ==
  \A f \in csvFiles : \A k \in 1 .. Len(f.rows) :
    LET w == f.rows[k].hostname IN
      reported[w] - executed[w].PUT \in 0 .. interrupts[w]

(***************************************************************************)
(* The benchmark with its database ends with a result file, unless a node  *)
(* had to rebuild an object from an empty reply after an interrupted       *)
(* receive: neither the barriers of the controller nor the waiting for     *)
(* replies of the nodes ever wait for each other.                          *)
(***************************************************************************)
BenchmarkCompletesOverDatabase ==
  \/ <>(Done /\ csvFiles # {})
  \/ <>(\E w \in Workers : interrupts[w] > 0 /\ dbPc[w] = "undefined")

\* run() takes effect at its end.
clusterPc == [w \in Workers |-> IF pc[w] = "run" THEN "handle" ELSE pc[w]]

Cluster == INSTANCE SimulationCluster WITH pc <- clusterPc

(***************************************************************************)
(* SimulationCluster, which the proofs are about, is right to take run()   *)
(* for one step: with its requests, its interrupted receives and the       *)
(* broker in between, the controller and the nodes behave the same.        *)
(***************************************************************************)
ImplementsCluster == Cluster!Spec
=============================================================================
