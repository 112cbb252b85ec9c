--------------------------- MODULE BenchmarkProofs ---------------------------
(***************************************************************************)
(* Proofs, for any number of nodes and any files, that the whole program   *)
(* implements SimulationCluster and DBConnector, and that what their       *)
(* inductive invariants say of the controller and of the connectors makes  *)
(* the figures of a benchmark mean what they should.                       *)
(***************************************************************************)
EXTENDS Benchmark, TLAPS

-----------------------------------------------------------------------------
(***************************************************************************)
(* What ties the nodes of Benchmark to their connectors.  With it the      *)
(* whole program is, under one mapping, the cluster of SimulationCluster,  *)
(* and under another the connectors of DBConnector, and has the inductive  *)
(* invariants of both.                                                     *)
(***************************************************************************)

\* A node whose pointer has not been set yet is one whose connector waits for
\* its first run().
connectorPc ==
  [w \in Workers |-> IF connector[w] = "uninitialised" THEN "idle" ELSE dbPc[w]]

Connectors == INSTANCE DBConnector WITH
  Nodes <- Workers, MaxRuns <- N, pc <- connectorPc, request <- dbRequest, reply <- dbReply

(***************************************************************************)
(* What DBConnector allows, where anybody may call run() or delete the     *)
(* connector at any time, is more than what the protocol makes of it: the  *)
(* connectors of a benchmark do nothing that DBConnector does not.         *)
(***************************************************************************)
ImplementsConnectors == Connectors!Spec

LinkTypeOK ==
  /\ pc \in [Workers -> {"down", "receive", "handle", "run", "sendData", "closeData", "reply",
                         "close", "exited"}]
  /\ DOMAIN request = Workers
  /\ connector \in [Workers -> {"uninitialised", "live", "deleted"}]
  /\ dbPc \in [Workers -> {"idle", "next", "put", "putReply", "get", "getReply", "create",
                           "returned", "undefined", "deleted"}]
  /\ todo \in [Workers -> SUBSET Values]
  /\ loaded \in [Workers -> Nat]
  /\ total \in [Workers -> Nat]
  /\ reported \in [Workers -> Int]

\* The thread of a node is inside run() exactly while its connector is, the
\* pointer designates a connector exactly while there is one, and what a node
\* has sent of its figures is what they are.
NodeLink(w) ==
  /\ pc[w] = "run" => request[w] = "GO" /\ dbPc[w] \notin {"idle", "deleted"}
  /\ Measuring(w) => pc[w] = "run"
  /\ connector[w] = "live" <=> dbPc[w] # "deleted"
  /\ connector[w] = "uninitialised" => loaded[w] = 0 /\ total[w] = 0
  /\ pc[w] = "closeData" \/ connector[w] = "deleted" => reported[w] = loaded[w]

LinkInv == LinkTypeOK /\ \A w \in Workers : NodeLink(w)

-----------------------------------------------------------------------------
CP == INSTANCE ClusterProofs WITH pc <- clusterPc

KP == INSTANCE ConnectorProofs WITH
  Nodes <- Workers, MaxRuns <- N, pc <- connectorPc, request <- dbRequest, reply <- dbReply

LEMMA ConnectorConstants == KP!BrokerAssumption /\ KP!ConnectorAssumption
BY NAssumption, BenchmarkAssumption DEF KP!Empty, KP!Files

-----------------------------------------------------------------------------
\* The nodes and the controller, with run() as one step.
LEMMA SameControllerSteps ==
  ASSUME ControllerStep
  PROVE  CP!ControllerStep
BY DEF ControllerStep, CP!ControllerStep, EndLoop, CP!EndLoop, Connect, CP!Connect,
   SendAllNodes, CP!SendAllNodes, GetAllNodes, CP!GetAllNodes,
   SendGetResults, CP!SendGetResults,
   ConnectDataHost, CP!ConnectDataHost, ReceiveDataFromWorker, CP!ReceiveDataFromWorker,
   MergeResults, CP!MergeResults, CloseController, CP!CloseController,
   Advance, CP!Advance, LoopStages, CP!LoopStages, SendStages, CP!SendStages, GetStages,
   CP!GetStages, NextStage, CP!NextStage, CsvIteration, CP!CsvIteration,
   ConnectCommand, CP!ConnectCommand, SendCommand, CP!SendCommand,
   ReceiveReply, CP!ReceiveReply,
   CloseCommandAtController, CP!CloseCommandAtController, ConnectData, CP!ConnectData,
   ReceiveResultsAndClose, CP!ReceiveResultsAndClose, NoWorker, CP!NoWorker,
   Workers, CP!Workers, mqVars, CP!mqVars, commandVars, CP!commandVars, dataVars, CP!dataVars

LEMMA GotoMaps ==
  ASSUME LinkInv, NEW w \in Workers, NEW l, l # "run", Goto(w, l)
  PROVE  CP!Goto(w, l)
BY DEF Goto, CP!Goto, clusterPc, LinkInv, LinkTypeOK

LEMMA PlaceMaps ==
  ASSUME NEW w \in Workers, pc[w] # "run"
  PROVE  clusterPc[w] = pc[w]
BY DEF clusterPc

LEMMA NodeAloneMaps ==
  ASSUME LinkInv, NEW w \in Workers, NodeAlone(w)
  PROVE  CP!WorkerStep(w)
<1> USE PlaceMaps, GotoMaps DEF CP!WorkerStep
<1>1. CASE StartWorker(w)
  BY <1>1 DEF StartWorker, CP!StartWorker, BindCommand, CP!BindCommand, dataVars, CP!dataVars
<1>2. CASE ReceiveRequest(w)
  BY <1>2 DEF ReceiveRequest, CP!ReceiveRequest, ReceiveCommand, CP!ReceiveCommand,
     dataVars, CP!dataVars
<1>3. CASE HandleGetResults(w)
  BY <1>3 DEF HandleGetResults, CP!HandleGetResults, Dispatch, CP!Dispatch, BindData,
     CP!BindData, commandVars, CP!commandVars
<1>4. CASE HandleExit(w)
  BY <1>4 DEF HandleExit, CP!HandleExit, Dispatch, CP!Dispatch, Answer, CP!Answer,
     mqVars, CP!mqVars, commandVars, CP!commandVars, dataVars, CP!dataVars
<1>5. CASE SendReply(w)
  BY <1>5 DEF SendReply, CP!SendReply, SendToController, CP!SendToController,
     dataVars, CP!dataVars
<1>6. CASE CloseWorker(w)
  BY <1>6 DEF CloseWorker, CP!CloseWorker, CloseCommandAtWorker, CP!CloseCommandAtWorker,
     dataVars, CP!dataVars
<1>7. QED
  BY <1>1, <1>2, <1>3, <1>4, <1>5, <1>6 DEF NodeAlone

LEMMA CreateConnectorMaps ==
  ASSUME LinkInv, NEW w \in Workers, CreateConnector(w)
  PROVE  CP!WorkerStep(w)
BY PlaceMaps, GotoMaps DEF CreateConnector, HandleInit, CP!HandleInit, Dispatch, CP!Dispatch,
   Answer, CP!Answer, mqVars, CP!mqVars, commandVars, CP!commandVars, dataVars, CP!dataVars,
   CP!WorkerStep

\* run() begins: nothing that a node shows to others.
LEMMA StartRunMaps ==
  ASSUME LinkInv, NEW w \in Workers, StartRun(w)
  PROVE  clusterPc' = clusterPc
BY DEF StartRun, Dispatch, Goto, clusterPc, LinkInv, LinkTypeOK

\* run() returns: the step that SimulationCluster takes for all of it.
LEMMA FinishRunMaps ==
  ASSUME LinkInv, NEW w \in Workers, FinishRun(w)
  PROVE  CP!WorkerStep(w)
<1>1. clusterPc[w] = "handle" /\ request[w] = "GO"
  BY DEF FinishRun, clusterPc, LinkInv, NodeLink
<1>2. CP!HandleGo(w)
  BY <1>1, GotoMaps DEF FinishRun, CP!HandleGo, CP!Dispatch, Answer, CP!Answer,
     mqVars, CP!mqVars, commandVars, CP!commandVars, dataVars, CP!dataVars
<1>3. QED
  BY <1>2 DEF CP!WorkerStep

LEMMA ReportResultsMaps ==
  ASSUME LinkInv, NEW w \in Workers, ReportResults(w)
  PROVE  CP!WorkerStep(w)
BY PlaceMaps, GotoMaps DEF ReportResults, SendData, CP!SendData, SendResults, CP!SendResults,
   Results, CP!Results, commandVars, CP!commandVars, CP!WorkerStep

LEMMA DeleteConnectorMaps ==
  ASSUME LinkInv, NEW w \in Workers, DeleteConnector(w)
  PROVE  CP!WorkerStep(w)
BY PlaceMaps, GotoMaps DEF DeleteConnector, CloseData, CP!CloseData, CloseDataAtWorker,
   CP!CloseDataAtWorker, Answer, CP!Answer, commandVars, CP!commandVars, CP!WorkerStep

LEMMA ClusterStep ==
  ASSUME LinkInv, [BenchmarkNext]_allVars
  PROVE  [CP!Next]_CP!vars
<1> USE DEF CP!Next, CP!vars, CP!workerVars, CP!mqVars, CP!commandVars, CP!dataVars,
            CP!controllerVars, CP!Workers
<1>1. CASE UNCHANGED vars
  BY <1>1 DEF vars, workerVars, mqVars, commandVars, dataVars, controllerVars, clusterPc
<1>2. CASE ControllerMoves
  <2>1. UNCHANGED CP!workerVars
    BY <1>2 DEF ControllerMoves, workerVars, clusterPc
  <2>2. QED
    BY <1>2, <2>1, SameControllerSteps DEF ControllerMoves
<1>3. ASSUME NEW w \in Workers, NodeThread(w)
      PROVE  [CP!Next]_CP!vars
  <2>1. UNCHANGED CP!controllerVars
    BY <1>3 DEF NodeThread, controllerVars
  <2>2. CASE StartRun(w)
    BY <1>3, <2>1, <2>2, StartRunMaps DEF StartRun, mqVars, commandVars, dataVars
  <2>3. CASE ~StartRun(w)
    <3>1. CP!WorkerStep(w)
      BY <1>3, <2>3, CreateConnectorMaps, FinishRunMaps, ReportResultsMaps,
         DeleteConnectorMaps, NodeAloneMaps DEF NodeThread
    <3>2. QED
      BY <2>1, <3>1 DEF Workers
  <2>4. QED
    BY <2>2, <2>3
<1>4. QED
  <2>1. CASE ControllerMoves
    BY <1>2, <2>1
  <2>2. CASE \E w \in Workers : NodeThread(w)
    BY <1>3, <2>2
  <2>3. CASE UNCHANGED vars
    BY <1>1, <2>3
  <2>4. (\E w \in Workers : InsideRun(w) \/ BrokerServes(w)) => UNCHANGED vars
    BY DEF InsideRun, BrokerServes
  <2>5. QED
    BY <2>1, <2>2, <2>3, <2>4 DEF BenchmarkNext, allVars

-----------------------------------------------------------------------------
\* The connectors and the nodes that own them.
SameLink(v) ==
  /\ pc'[v] = pc[v] /\ request'[v] = request[v] /\ connector'[v] = connector[v]
  /\ dbPc'[v] = dbPc[v] /\ loaded'[v] = loaded[v] /\ total'[v] = total[v]
  /\ reported'[v] = reported[v]

LEMMA LinkOfOne ==
  ASSUME LinkInv, LinkTypeOK', NEW w \in Workers, NodeLink(w)',
         \A v \in Workers \ {w} : SameLink(v)
  PROVE  LinkInv'
<1>1. ASSUME NEW v \in Workers \ {w} PROVE NodeLink(v)'
  BY <1>1 DEF LinkInv, NodeLink, Measuring, SameLink
<1>2. QED
  BY <1>1 DEF LinkInv

LEMMA LinkInit == BenchmarkInit => LinkInv
BY DEF BenchmarkInit, Init, WorkerInit, LinkInv, LinkTypeOK, NodeLink, Measuring, NotReported

LEMMA CreateConnectorKeepsLink ==
  ASSUME LinkInv, NEW w \in Workers, CreateConnector(w)
  PROVE  LinkInv'
<1> USE DEF CreateConnector, HandleInit, Dispatch, Answer, Goto, LinkInv
<1>1. LinkTypeOK'
  BY DEF LinkTypeOK
<1>2. NodeLink(w)'
  BY DEF LinkTypeOK, NodeLink, Measuring
<1>3. QED
  BY <1>1, <1>2, LinkOfOne DEF LinkTypeOK, SameLink

LEMMA StartRunKeepsLink ==
  ASSUME LinkInv, NEW w \in Workers, StartRun(w)
  PROVE  LinkInv'
<1> USE DEF StartRun, DB!Run, DB!Files, DB!Goto, Dispatch, Goto, LinkInv
<1>1. LinkTypeOK'
  BY DEF LinkTypeOK
<1>2. NodeLink(w)'
  BY DEF LinkTypeOK, NodeLink, Measuring
<1>3. QED
  BY <1>1, <1>2, LinkOfOne DEF LinkTypeOK, SameLink

LEMMA FinishRunKeepsLink ==
  ASSUME LinkInv, NEW w \in Workers, FinishRun(w)
  PROVE  LinkInv'
<1> USE DEF FinishRun, Answer, Goto, dbVars, connectorVars, LinkInv
<1>1. LinkTypeOK'
  BY DEF LinkTypeOK
<1>2. NodeLink(w)'
  BY DEF LinkTypeOK, NodeLink, Measuring
<1>3. QED
  BY <1>1, <1>2, LinkOfOne DEF LinkTypeOK, SameLink

LEMMA ReportResultsKeepsLink ==
  ASSUME LinkInv, NEW w \in Workers, ReportResults(w)
  PROVE  LinkInv'
<1> USE DEF ReportResults, SendData, Goto, dbVars, connectorVars, LinkInv
<1>1. LinkTypeOK'
  BY DEF LinkTypeOK
<1>2. NodeLink(w)'
  BY DEF LinkTypeOK, NodeLink, Measuring
<1>3. QED
  BY <1>1, <1>2, LinkOfOne DEF LinkTypeOK, SameLink

LEMMA DeleteConnectorKeepsLink ==
  ASSUME LinkInv, NEW w \in Workers, DeleteConnector(w)
  PROVE  LinkInv'
<1> USE DEF DeleteConnector, CloseData, Answer, DB!Delete, DB!Goto, Goto, LinkInv
<1>1. LinkTypeOK'
  BY DEF LinkTypeOK
<1>2. NodeLink(w)'
  BY DEF LinkTypeOK, NodeLink, Measuring
<1>3. QED
  BY <1>1, <1>2, LinkOfOne DEF LinkTypeOK, SameLink

LEMMA NodeAloneKeepsLink ==
  ASSUME LinkInv, NEW w \in Workers, NodeAlone(w)
  PROVE  LinkInv'
<1>1. PICK l \in {"receive", "handle", "sendData", "reply", "close", "exited"} : Goto(w, l)
  BY DEF NodeAlone, StartWorker, ReceiveRequest, HandleGetResults, HandleExit, Answer,
     SendReply, CloseWorker
<1>2. /\ pc[w] # "run" /\ pc[w] # "closeData"
      /\ connector' = connector
      /\ DOMAIN request' = Workers
      /\ \A v \in Workers \ {w} : request'[v] = request[v]
  BY DEF NodeAlone, StartWorker, ReceiveRequest, HandleGetResults, HandleExit, Dispatch,
     SendReply, CloseWorker, LinkInv, LinkTypeOK
<1>3. UNCHANGED <<dbPc, todo, loaded, total, reported>>
  BY DEF NodeAlone, dbVars, connectorVars
<1>4. LinkTypeOK'
  BY <1>1, <1>2, <1>3 DEF Goto, LinkInv, LinkTypeOK
<1>5. NodeLink(w)'
  BY <1>1, <1>2, <1>3 DEF Goto, LinkInv, LinkTypeOK, NodeLink, Measuring
<1>6. QED
  BY <1>1, <1>2, <1>3, <1>4, <1>5, LinkOfOne DEF Goto, LinkInv, LinkTypeOK, SameLink

LEMMA InsideRunKeepsLink ==
  ASSUME LinkInv, NEW w \in Workers, InsideRun(w)
  PROVE  LinkInv'
<1>1. UNCHANGED <<pc, request, connector, reported>>
  BY DEF InsideRun, vars, workerVars
<1>2. Measuring(w) /\ pc[w] = "run" /\ connector[w] = "live"
  BY DEF InsideRun, DB!NodeStep, DB!Load, DB!SendPut, DB!ReceivePut, DB!SendGet, DB!ReceiveGet,
     DB!Create, DB!EndOfTree, Measuring, LinkInv, NodeLink
<1>3. PICK l \in {"next", "put", "putReply", "get", "getReply", "create", "returned",
                  "undefined"} : dbPc' = [dbPc EXCEPT ![w] = l]
  BY DEF InsideRun, DB!NodeStep, DB!Load, DB!SendPut, DB!ReceivePut, DB!SendGet, DB!ReceiveGet,
     DB!Create, DB!EndOfTree, DB!Goto
<1>4. LinkTypeOK' /\ loaded'[w] \in Nat
  <2>1. CASE DB!Load(w)
    <3>1. PICK f \in todo[w] :
            todo' = [todo EXCEPT ![w] = @ \ {f}] /\ DB!Count(w, f)
      BY <2>1 DEF DB!Load
    <3>2. SizeOf[f] \in Nat
      BY BenchmarkAssumption DEF LinkInv, LinkTypeOK
    <3>3. QED
      BY <1>1, <1>3, <3>1, <3>2 DEF DB!Count, LinkInv, LinkTypeOK
  <2>2. CASE ~DB!Load(w)
    <3>1. UNCHANGED <<todo, loaded, total>>
      BY <2>2 DEF InsideRun, DB!NodeStep, DB!SendPut, DB!ReceivePut, DB!SendGet,
         DB!ReceiveGet, DB!Create, DB!EndOfTree
    <3>2. QED
      BY <1>1, <1>3, <3>1 DEF LinkInv, LinkTypeOK
  <2>3. QED
    BY <2>1, <2>2
<1>5. \A v \in Workers \ {w} : loaded'[v] = loaded[v] /\ total'[v] = total[v]
  BY DEF InsideRun, DB!NodeStep, DB!Load, DB!Count, DB!SendPut, DB!ReceivePut, DB!SendGet,
     DB!ReceiveGet, DB!Create, DB!EndOfTree, LinkInv, LinkTypeOK
<1>6. NodeLink(w)'
  BY <1>1, <1>2, <1>3 DEF LinkInv, LinkTypeOK, NodeLink, Measuring
<1>7. QED
  BY <1>1, <1>3, <1>4, <1>5, <1>6, LinkOfOne DEF LinkInv, LinkTypeOK, SameLink

LEMMA LinkStep ==
  ASSUME LinkInv, [BenchmarkNext]_allVars
  PROVE  LinkInv'
<1>1. CASE UNCHANGED <<workerVars, connectorVars, reported>>
  BY <1>1 DEF workerVars, connectorVars, LinkInv, LinkTypeOK, NodeLink, Measuring
<1>2. ASSUME NEW w \in Workers, NodeThread(w)
      PROVE  LinkInv'
  BY <1>2, CreateConnectorKeepsLink, StartRunKeepsLink, FinishRunKeepsLink,
     ReportResultsKeepsLink, DeleteConnectorKeepsLink, NodeAloneKeepsLink DEF NodeThread
<1>3. QED
  BY <1>1, <1>2, InsideRunKeepsLink
  DEF BenchmarkNext, ControllerMoves, BrokerServes, dbVars, vars, allVars

LEMMA Linked == BenchmarkSpec => []LinkInv
BY LinkInit, LinkStep, PTL DEF BenchmarkSpec

-----------------------------------------------------------------------------
\* The connectors, with the broker.
LEMMA SumsAgree ==
  ASSUME NEW f
  PROVE  DB!SumFunction(f) = KP!SumFunction(f)
BY DEF DB!SumFunction, DB!SumFunctionOnSet, DB!FoldFunctionOnSet, DB!MapThenFoldSet,
   KP!SumFunction, KP!SumFunctionOnSet, KP!FoldFunctionOnSet, KP!MapThenFoldSet

LEMMA ConnectorsInit == BenchmarkInit => KP!Init
BY DEF BenchmarkInit, Init, WorkerInit, connectorPc, DB!BrokerInit, KP!Init, KP!BrokerInit,
   DB!Empty, KP!Empty, DB!NoMessage, KP!NoMessage

LEMMA ConnectorGoto ==
  ASSUME LinkInv, NEW w \in Workers, NEW l, connector[w] # "uninitialised",
         connector' = connector, DB!Goto(w, l)
  PROVE  KP!Goto(w, l)
BY DEF DB!Goto, KP!Goto, connectorPc, LinkInv, LinkTypeOK

LEMMA CreateConnectorUnseen ==
  ASSUME LinkInv, CP!IInv, NEW w \in Workers, CreateConnector(w)
  PROVE  UNCHANGED KP!vars
<1>1. connector[w] = "uninitialised"
  <2>1. clusterPc[w] = "handle" /\ request[w] = "INIT"
    BY DEF CreateConnector, HandleInit, Dispatch, clusterPc
  <2>2. PICK k \in 0 .. 4 : CP!At(w, k)
    BY DEF CP!IInv, CP!NodeInv, Workers, CP!Workers
  <2>3. k = 1 /\ CP!After(w, 0)
    BY <2>1, <2>2 DEF CP!At, CP!Idle, CP!Outstanding, CP!Queued, CP!Handling, CP!Replying,
       CP!Replied, CP!Waiting, CP!Command
  <2>4. QED
    BY <2>3 DEF CP!After
<1>2. loaded' = loaded /\ total' = total
  BY <1>1 DEF CreateConnector, LinkInv, LinkTypeOK, NodeLink
<1>3. connectorPc' = connectorPc
  BY <1>1 DEF CreateConnector, HandleInit, connectorPc, LinkInv, LinkTypeOK
<1>4. QED
  BY <1>2, <1>3 DEF CreateConnector, KP!vars, KP!nodeVars, KP!brokerVars, KP!socketVars

LEMMA StartRunRuns ==
  ASSUME LinkInv, NEW w \in Workers, StartRun(w)
  PROVE  KP!Run(w)
<1>1. connector[w] # "uninitialised" /\ connectorPc[w] = dbPc[w]
  BY DEF StartRun, DB!Run, LinkInv, NodeLink, connectorPc
<1>2. connector' = connector
  BY DEF StartRun
<1>3. KP!Goto(w, "next")
  BY <1>1, <1>2, ConnectorGoto DEF StartRun, DB!Run
<1>4. QED
  BY <1>1, <1>3, SumsAgree DEF StartRun, DB!Run, KP!Run, DB!Files, KP!Files,
     DB!brokerVars, KP!brokerVars, DB!socketVars, KP!socketVars

LEMMA DeleteConnectorDeletes ==
  ASSUME LinkInv, NEW w \in Workers, DeleteConnector(w)
  PROVE  KP!Delete(w)
<1>1. connector[w] # "uninitialised" /\ connectorPc[w] = dbPc[w]
  BY DEF DeleteConnector, DB!Delete, LinkInv, NodeLink, connectorPc
<1>2. dbPc' = [dbPc EXCEPT ![w] = "deleted"] /\ connector' = [connector EXCEPT ![w] = "deleted"]
  BY DEF DeleteConnector, CloseData, DB!Delete, DB!Goto
<1>3. KP!Goto(w, "deleted")
  BY <1>1, <1>2 DEF KP!Goto, connectorPc, LinkInv, LinkTypeOK
<1>4. QED
  BY <1>1, <1>3 DEF DeleteConnector, DB!Delete, KP!Delete, DB!Close, KP!Close, DB!NoMessage,
     KP!NoMessage, DB!Empty, KP!Empty

\* Inside run() every step is the one of DBConnector.
LEMMA InsideRunSteps ==
  ASSUME LinkInv, NEW w \in Workers, InsideRun(w)
  PROVE  KP!NodeStep(w)
<1>1. connector[w] # "uninitialised" /\ connectorPc[w] = dbPc[w]
  BY DEF InsideRun, DB!NodeStep, DB!Load, DB!SendPut, DB!ReceivePut, DB!SendGet, DB!ReceiveGet,
     DB!Create, DB!EndOfTree, LinkInv, NodeLink, connectorPc
<1>2. ASSUME NEW l, DB!Goto(w, l) PROVE KP!Goto(w, l)
  BY <1>1, <1>2, ConnectorGoto DEF InsideRun, vars, workerVars
<1> USE DEF DB!Empty, KP!Empty, DB!NoMessage, KP!NoMessage, KP!NodeStep
<1>3. CASE DB!Load(w)
  BY <1>1, <1>2, <1>3 DEF DB!Load, KP!Load, DB!Count, KP!Count, DB!brokerVars, KP!brokerVars,
     DB!socketVars, KP!socketVars
<1>4. CASE DB!SendPut(w)
  BY <1>1, <1>2, <1>4 DEF DB!SendPut, KP!SendPut, DB!Send, KP!Send, DB!Owed, KP!Owed,
     DB!Put, KP!Put
<1>5. CASE DB!SendGet(w)
  BY <1>1, <1>2, <1>5 DEF DB!SendGet, KP!SendGet, DB!Send, KP!Send, DB!Owed, KP!Owed,
     DB!Get, KP!Get
<1>6. DB!Receive(w) \/ DB!Interrupt(w) => KP!Receive(w) \/ KP!Interrupt(w)
  BY SumsAgree DEF DB!Receive, KP!Receive, DB!Interrupt, KP!Interrupt, DB!socketVars,
     KP!socketVars
<1>7. CASE DB!ReceivePut(w)
  BY <1>1, <1>2, <1>6, <1>7 DEF DB!ReceivePut, KP!ReceivePut
<1>8. CASE DB!ReceiveGet(w)
  BY <1>1, <1>2, <1>6, <1>8 DEF DB!ReceiveGet, KP!ReceiveGet
<1>9. CASE DB!Create(w)
  BY <1>1, <1>2, <1>9 DEF DB!Create, KP!Create, DB!OverLimit, KP!OverLimit, DB!brokerVars,
     KP!brokerVars, DB!socketVars, KP!socketVars
<1>10. CASE DB!EndOfTree(w)
  BY <1>1, <1>2, <1>10 DEF DB!EndOfTree, KP!EndOfTree, DB!brokerVars, KP!brokerVars,
     DB!socketVars, KP!socketVars
<1>11. QED
  BY <1>3, <1>4, <1>5, <1>7, <1>8, <1>9, <1>10 DEF InsideRun, DB!NodeStep

LEMMA BrokerServesAll ==
  ASSUME NEW w \in Workers, BrokerServes(w)
  PROVE  KP!Serve(w) /\ UNCHANGED KP!nodeVars
BY DEF BrokerServes, connectorVars, vars, workerVars, connectorPc, DB!Serve, KP!Serve,
   KP!nodeVars, DB!NoMessage, KP!NoMessage, DB!OK, KP!OK, DB!Error, KP!Error, DB!Empty, KP!Empty

\* What a node does outside run() its connector does not see.
LEMMA ElsewhereUnseen ==
  ASSUME NEW w \in Workers, FinishRun(w) \/ ReportResults(w) \/ NodeAlone(w)
  PROVE  UNCHANGED KP!vars
<1>1. UNCHANGED <<dbVars, connector>>
  BY DEF FinishRun, ReportResults, SendData, NodeAlone, StartWorker, ReceiveRequest,
     HandleGetResults, HandleExit, SendReply, CloseWorker
<1>2. QED
  BY <1>1 DEF dbVars, connectorVars, connectorPc, KP!vars, KP!nodeVars, KP!brokerVars,
     KP!socketVars

LEMMA ConnectorsStep ==
  ASSUME LinkInv, CP!IInv, [BenchmarkNext]_allVars
  PROVE  [KP!Next]_KP!vars
<1>1. CASE UNCHANGED <<dbVars, connector>>
  BY <1>1 DEF dbVars, connectorVars, connectorPc, KP!vars, KP!nodeVars, KP!brokerVars,
     KP!socketVars
<1>2. ASSUME NEW w \in Workers, NodeThread(w)
      PROVE  [KP!Next]_KP!vars
  BY <1>2, CreateConnectorUnseen, StartRunRuns, DeleteConnectorDeletes, ElsewhereUnseen
  DEF NodeThread, KP!Next
<1>3. ASSUME NEW w \in Workers, InsideRun(w) \/ BrokerServes(w)
      PROVE  KP!Next
  BY <1>3, InsideRunSteps, BrokerServesAll DEF KP!Next
<1>4. QED
  BY <1>1, <1>2, <1>3 DEF BenchmarkNext, ControllerMoves, workerVars, vars, allVars

-----------------------------------------------------------------------------
LEMMA ClusterInit == BenchmarkInit => CP!Init
<1> SUFFICES ASSUME BenchmarkInit PROVE CP!Init
  OBVIOUS
<1> USE DEF BenchmarkInit, Init
<1>1. CP!MQInit
  BY DEF MQInit, CP!MQInit, NoWorker, CP!NoWorker, Workers, CP!Workers
<1>2. CP!ControllerInit
  BY DEF ControllerInit, CP!ControllerInit
<1>3. CP!WorkerInit
  <2>1. clusterPc = [w \in Workers |-> "down"]
    BY DEF WorkerInit, clusterPc
  <2>2. QED
    BY <2>1 DEF WorkerInit, CP!WorkerInit, NoMessage, CP!NoMessage, Workers, CP!Workers
<1>4. QED
  BY <1>1, <1>2, <1>3 DEF CP!Init

LEMMA IsCluster == BenchmarkSpec => CP!Spec
BY ClusterInit, Linked, ClusterStep, PTL DEF BenchmarkSpec, CP!Spec

LEMMA ClusterInvariantHolds == BenchmarkSpec => []CP!IInv
BY IsCluster, CP!InductiveInvariant, NAssumption, IterationAssumption, PTL

LEMMA IsConnectors == BenchmarkSpec => KP!Spec
BY ConnectorsInit, Linked, ClusterInvariantHolds, ConnectorsStep, PTL
DEF BenchmarkSpec, KP!Spec

LEMMA ConnectorInvariantHolds == BenchmarkSpec => []KP!IInv
BY IsConnectors, KP!InductiveInvariant, ConnectorConstants, PTL

\* Cluster, which Benchmark states its refinement with, and CP are two instances
\* of the same module.
LEMMA SameClusterNext ==
  ASSUME CP!Next
  PROVE  Cluster!Next
<1>1. CASE CP!ControllerStep /\ UNCHANGED CP!workerVars
  <2>1. Cluster!ControllerStep
    BY <1>1 DEF CP!ControllerStep, Cluster!ControllerStep, CP!EndLoop, Cluster!EndLoop,
       CP!Connect, Cluster!Connect, CP!SendAllNodes, Cluster!SendAllNodes,
       CP!GetAllNodes, Cluster!GetAllNodes, CP!SendGetResults, Cluster!SendGetResults,
       CP!ConnectDataHost, Cluster!ConnectDataHost, CP!ReceiveDataFromWorker,
       Cluster!ReceiveDataFromWorker, CP!MergeResults, Cluster!MergeResults,
       CP!CloseController, Cluster!CloseController, CP!Advance, Cluster!Advance,
       CP!LoopStages, Cluster!LoopStages, CP!SendStages, Cluster!SendStages,
       CP!GetStages, Cluster!GetStages, CP!NextStage, Cluster!NextStage,
       CP!CsvIteration, Cluster!CsvIteration, CP!ConnectCommand, Cluster!ConnectCommand,
       CP!SendCommand, Cluster!SendCommand, CP!ReceiveReply, Cluster!ReceiveReply,
       CP!CloseCommandAtController, Cluster!CloseCommandAtController,
       CP!ConnectData, Cluster!ConnectData, CP!ReceiveResultsAndClose,
       Cluster!ReceiveResultsAndClose, CP!NoWorker, Cluster!NoWorker, CP!Workers,
       Cluster!Workers, CP!mqVars, Cluster!mqVars, CP!commandVars, Cluster!commandVars,
       CP!dataVars, Cluster!dataVars
  <2>2. QED
    BY <1>1, <2>1 DEF Cluster!Next, CP!workerVars, Cluster!workerVars
<1>2. ASSUME NEW w \in CP!Workers, CP!WorkerStep(w), UNCHANGED CP!controllerVars
      PROVE  Cluster!Next
  <2>1. Cluster!WorkerStep(w)
    BY <1>2 DEF CP!WorkerStep, Cluster!WorkerStep, CP!StartWorker, Cluster!StartWorker,
       CP!ReceiveRequest, Cluster!ReceiveRequest, CP!HandleInit, Cluster!HandleInit,
       CP!HandleGo, Cluster!HandleGo, CP!HandleGetResults, Cluster!HandleGetResults,
       CP!SendData, Cluster!SendData, CP!CloseData, Cluster!CloseData,
       CP!HandleRestart, Cluster!HandleRestart, CP!HandleExit, Cluster!HandleExit,
       CP!HandleUnknown, Cluster!HandleUnknown, CP!UndefinedUse, Cluster!UndefinedUse,
       CP!SendReply, Cluster!SendReply, CP!CloseWorker, Cluster!CloseWorker,
       CP!Goto, Cluster!Goto, CP!Answer, Cluster!Answer, CP!Dispatch, Cluster!Dispatch,
       CP!Results, Cluster!Results, CP!Commands, Cluster!Commands, CP!NoMessage,
       Cluster!NoMessage, CP!BindCommand, Cluster!BindCommand, CP!ReceiveCommand,
       Cluster!ReceiveCommand, CP!SendToController, Cluster!SendToController,
       CP!CloseCommandAtWorker, Cluster!CloseCommandAtWorker, CP!BindData, Cluster!BindData,
       CP!SendResults, Cluster!SendResults, CP!CloseDataAtWorker, Cluster!CloseDataAtWorker,
       CP!mqVars, Cluster!mqVars, CP!commandVars, Cluster!commandVars,
       CP!dataVars, Cluster!dataVars
  <2>2. QED
    BY <1>2, <2>1 DEF Cluster!Next, CP!Workers, Cluster!Workers, CP!controllerVars,
       Cluster!controllerVars
<1>3. CASE CP!Terminated
  BY <1>3 DEF CP!Terminated, Cluster!Next, Cluster!Terminated, CP!Done, Cluster!Done,
     CP!Workers, Cluster!Workers, CP!vars, Cluster!vars, CP!mqVars, Cluster!mqVars,
     CP!commandVars, Cluster!commandVars, CP!dataVars, Cluster!dataVars,
     CP!controllerVars, Cluster!controllerVars, CP!workerVars, Cluster!workerVars
<1>4. QED
  BY <1>1, <1>2, <1>3 DEF CP!Next

(***************************************************************************)
(* The whole program, with run() as long as it takes, is one of the        *)
(* behaviours of the cluster that the other proofs are about.              *)
(***************************************************************************)
THEOREM BenchmarkIsCluster == BenchmarkSpec => ImplementsCluster
<1>1. CP!Init => Cluster!Init
  BY DEF CP!Init, Cluster!Init, CP!MQInit, Cluster!MQInit, CP!ControllerInit,
     Cluster!ControllerInit, CP!WorkerInit, Cluster!WorkerInit, CP!NoWorker,
     Cluster!NoWorker, CP!NoMessage, Cluster!NoMessage, CP!Workers, Cluster!Workers
<1>2. [CP!Next]_CP!vars => [Cluster!Next]_Cluster!vars
  BY SameClusterNext DEF CP!vars, Cluster!vars, CP!mqVars, Cluster!mqVars, CP!commandVars,
     Cluster!commandVars, CP!dataVars, Cluster!dataVars, CP!controllerVars,
     Cluster!controllerVars, CP!workerVars, Cluster!workerVars
<1>3. QED
  BY IsCluster, <1>1, <1>2, PTL DEF CP!Spec, ImplementsCluster, Cluster!Spec

(***************************************************************************)
(* From the first request of run() to the last reply, at every node, the   *)
(* connectors of all nodes exist and the controller is between INITDONE    *)
(* and GETRESULTS: what is measured is the cluster under the load of all   *)
(* its nodes, however many there are.                                      *)
(***************************************************************************)
THEOREM LoadTogether == BenchmarkSpec => []LoadOnlyTogether
<1>1. LinkInv /\ CP!IInv /\ KP!IInv => LoadOnlyTogether
  <2>1. SUFFICES ASSUME LinkInv, CP!IInv, KP!IInv, NEW w \in Workers,
                        Measuring(w) \/ (dbRequest[w] # DB!NoMessage /\ interrupts[w] = 0)
                 PROVE  /\ \A v \in Workers : connector[v] = "live" /\ dbPc[v] # "deleted"
                        /\ stage \in {"GO", "RESULTSREADY"}
    BY DEF LoadOnlyTogether
  <2>2. Measuring(w)
    <3>1. SUFFICES ASSUME dbRequest[w] # DB!NoMessage, interrupts[w] = 0
                   PROVE  Measuring(w)
      BY <2>1
    <3>2. KP!NoMessage = DB!NoMessage
      BY DEF KP!NoMessage, DB!NoMessage, KP!Empty, DB!Empty
    <3>3. connectorPc[w] \in {"putReply", "getReply"}
      BY <2>1, <3>1, <3>2
      DEF KP!IInv, KP!NodeInv, KP!SocketInv, KP!InStep, KP!Owed, KP!Waiting
    <3>4. QED
      BY <3>3 DEF connectorPc, Measuring
  <2>3. clusterPc[w] = "handle" /\ request[w] = "GO"
    BY <2>1, <2>2 DEF LinkInv, NodeLink, clusterPc
  <2>4. CP!Sent(w) = 2 /\ CP!Acked(w) = 1
    <3>1. PICK k \in 0 .. 4 : CP!At(w, k)
      BY <2>1 DEF CP!IInv, CP!NodeInv, Workers, CP!Workers
    <3>2. QED
      BY <2>3, <3>1 DEF CP!At, CP!Idle, CP!Outstanding, CP!Queued, CP!Handling, CP!Replying,
         CP!Replied, CP!Waiting, CP!Command
  <2>5. stage \in {"GO", "RESULTSREADY"}
    BY <2>4 DEF CP!Sent, CP!Acked, CP!Collecting
  <2>6. ASSUME NEW v \in Workers PROVE connector[v] = "live" /\ dbPc[v] # "deleted"
    <3>1. CP!Acked(v) \in 1 .. 2 /\ CP!Sent(v) \in 1 .. 2
      BY <2>4 DEF CP!Sent, CP!Acked, CP!Collecting
    <3>2. PICK k \in 0 .. 4 : CP!At(v, k)
      BY <2>1 DEF CP!IInv, CP!NodeInv, Workers, CP!Workers
    <3>3. CP!After(v, 1) \/ CP!After(v, 2)
      BY <3>1, <3>2 DEF CP!At, CP!Idle, CP!Outstanding, CP!Queued, CP!Handling, CP!Replying,
         CP!Replied
    <3>4. connector[v] = "live"
      BY <3>3 DEF CP!After
    <3>5. QED
      BY <2>1, <3>4 DEF LinkInv, NodeLink
  <2>7. QED
    BY <2>5, <2>6
<1>2. QED
  BY <1>1, Linked, ClusterInvariantHolds, ConnectorInvariantHolds, PTL

(***************************************************************************)
(* The number of objects in a row of the result file is that of the PUTs   *)
(* the database has executed for the node of that row, less at most one    *)
(* for each of its interrupted receives, for any number of nodes, files    *)
(* and interrupts.                                                         *)
(***************************************************************************)
THEOREM RowsCount == BenchmarkSpec => []RowsCountWhatWasStored
<1>1. LinkInv /\ CP!IInv /\ KP!IInv => RowsCountWhatWasStored
  <2>1. SUFFICES ASSUME LinkInv, CP!IInv, KP!IInv, NEW f \in csvFiles,
                        NEW w \in 1 .. Len(f.rows)
                 PROVE  reported[f.rows[w].hostname] - executed[f.rows[w].hostname].PUT
                          \in 0 .. interrupts[f.rows[w].hostname]
    BY DEF RowsCountWhatWasStored
  <2>2. stage \in {"CLOSING", "COMPLETE"} /\ f.rows = allResults
    BY <2>1 DEF CP!IInv, CP!LoopInv
  <2>3. f.rows = [k \in 1 .. N |-> CP!ResultsOf(k)]
    BY <2>1, <2>2 DEF CP!IInv, CP!CollectInv, CP!Collected, CP!Collecting
  <2>4. w \in Workers /\ f.rows[w].hostname = w
    BY <2>3, NAssumption DEF CP!ResultsOf, Workers
  <2>5. connector[w] = "deleted"
    <3>1. CP!Acked(w) = 4
      BY <2>2 DEF CP!Acked, CP!Collecting
    <3>2. PICK k \in 0 .. 4 : CP!At(w, k)
      BY <2>1, <2>4 DEF CP!IInv, CP!NodeInv, Workers, CP!Workers
    <3>3. k = 4 /\ CP!After(w, 4)
      BY <3>1, <3>2 DEF CP!At, CP!Idle
    <3>4. QED
      BY <3>3 DEF CP!After
  <2>6. reported[w] = loaded[w] /\ connectorPc[w] = "deleted"
    BY <2>1, <2>4, <2>5 DEF LinkInv, LinkTypeOK, NodeLink, connectorPc
  <2>7. KP!LostPutsAreBounded
    BY <2>1, KP!LossesAreBounded, ConnectorConstants
  <2>8. QED
    BY <2>4, <2>6, <2>7 DEF KP!LostPutsAreBounded
<1>2. QED
  BY <1>1, Linked, ClusterInvariantHolds, ConnectorInvariantHolds, PTL

LEMMA SameConnectorsNext ==
  ASSUME KP!Next
  PROVE  Connectors!Next
<1>1. PICK w \in Workers : KP!Run(w) \/ KP!Delete(w) \/ KP!NodeStep(w)
                             \/ (KP!Serve(w) /\ UNCHANGED KP!nodeVars)
  BY DEF KP!Next
<1>2. ASSUME NEW f
      PROVE  KP!SumFunction(f) = Connectors!SumFunction(f)
  BY DEF KP!SumFunction, KP!SumFunctionOnSet, KP!FoldFunctionOnSet, KP!MapThenFoldSet,
     Connectors!SumFunction, Connectors!SumFunctionOnSet, Connectors!FoldFunctionOnSet,
     Connectors!MapThenFoldSet
<1> USE <1>2
    DEF KP!Goto, Connectors!Goto, KP!brokerVars, Connectors!brokerVars,
        KP!socketVars, Connectors!socketVars, KP!NoMessage, Connectors!NoMessage,
        KP!Empty, Connectors!Empty, Connectors!Next
<1>3. CASE KP!Run(w)
  BY <1>3 DEF KP!Run, Connectors!Run, KP!Files, Connectors!Files
<1>4. CASE KP!Delete(w)
  BY <1>4 DEF KP!Delete, Connectors!Delete, KP!Close, Connectors!Close
<1>5. CASE KP!NodeStep(w)
  <2>1. Connectors!NodeStep(w)
    BY <1>5 DEF KP!NodeStep, Connectors!NodeStep, KP!Load, Connectors!Load, KP!Count,
       Connectors!Count, KP!SendPut, Connectors!SendPut, KP!ReceivePut, Connectors!ReceivePut,
       KP!SendGet, Connectors!SendGet, KP!ReceiveGet, Connectors!ReceiveGet, KP!Create,
       Connectors!Create, KP!EndOfTree, Connectors!EndOfTree, KP!Send, Connectors!Send,
       KP!Receive, Connectors!Receive, KP!Interrupt, Connectors!Interrupt, KP!Owed,
       Connectors!Owed, KP!Put, Connectors!Put, KP!Get, Connectors!Get, KP!OverLimit,
       Connectors!OverLimit
  <2>2. QED
    BY <2>1
<1>6. CASE KP!Serve(w) /\ UNCHANGED KP!nodeVars
  BY <1>6 DEF KP!Serve, Connectors!Serve, KP!nodeVars, Connectors!nodeVars, KP!OK,
     Connectors!OK, KP!Error, Connectors!Error
<1>7. QED
  BY <1>1, <1>3, <1>4, <1>5, <1>6

(***************************************************************************)
(* What the protocol makes of the connectors is a behaviour of             *)
(* DBConnector, so that everything proved of that module, where anybody    *)
(* may start a run or delete a connector at any time, holds of a benchmark.*)
(***************************************************************************)
THEOREM BenchmarkIsConnectors == BenchmarkSpec => ImplementsConnectors
<1>1. KP!Init => Connectors!Init
  BY DEF KP!Init, Connectors!Init, KP!BrokerInit, Connectors!BrokerInit, KP!NoMessage,
     Connectors!NoMessage, KP!Empty, Connectors!Empty
<1>2. [KP!Next]_KP!vars => [Connectors!Next]_Connectors!vars
  BY SameConnectorsNext DEF KP!vars, Connectors!vars, KP!nodeVars, Connectors!nodeVars,
     KP!brokerVars, Connectors!brokerVars, KP!socketVars, Connectors!socketVars
<1>3. QED
  BY IsConnectors, <1>1, <1>2, PTL DEF KP!Spec, ImplementsConnectors, Connectors!Spec

(***************************************************************************)
(* In the whole program, too, the calls of every node whose receives have  *)
(* all succeeded are those of an atomic store.                             *)
(***************************************************************************)
THEOREM BenchmarkCallsAreAtomic == BenchmarkSpec => KP!ConnectorImplementsStore
BY IsConnectors, KP!ImplementsStore, ConnectorConstants, PTL
=============================================================================
