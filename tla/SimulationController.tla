------------------------ MODULE SimulationController ------------------------
(***************************************************************************)
(* The controller (src/SimulationController.cc): run() and the destructor. *)
(* run() is a fixed sequence of loops over mCommandMQs.  stage names the   *)
(* loop, by the command it sends or the reply it waits for, and it is the  *)
(* position of its iterator (N + 1 is end()).  The body of the GETRESULTS  *)
(* loop blocks in the middle, so it has two more stages, "DATACONNECT" and *)
(* "DATARECEIVE", for receiveDataFromWorker().                             *)
(***************************************************************************)
EXTENDS MQ

CONSTANTS
  SimulationIteration,   \* option simulationIteration, -1 when it is not given
  UninitialisedInts      \* what a member that is never assigned may hold

ASSUME IterationAssumption ==
  /\ SimulationIteration \in Int
  /\ UninitialisedInts \subseteq Nat
  /\ UninitialisedInts # {}

VARIABLES
  stage,
  it,
  dataHosts,             \* mConfiguration->dataHosts, consumed from the front
  allResults,            \* one set of results per answered GETRESULTS
  simulationIteration,   \* the member of that name; no constructor sets it
  csvFiles               \* the result files on disk: [iteration, rows]

controllerVars ==
  <<stage, it, dataHosts, allResults, simulationIteration, csvFiles>>

\* The loop that follows each loop, and what follows the last reply.
NextStage ==
  [CONNECT |-> "INIT",            INIT |-> "INITDONE",     INITDONE |-> "GO",
   GO |-> "RESULTSREADY",         RESULTSREADY |-> "GETRESULTS",
   GETRESULTS |-> "DONERESULTS",  DONERESULTS |-> "EXIT",  EXIT |-> "EXITING",
   EXITING |-> "MERGING",         MERGING |-> "CLOSING",   CLOSING |-> "COMPLETE"]

SendStages == {"INIT", "GO", "EXIT"}                               \* sendAllNodes
GetStages == {"INITDONE", "RESULTSREADY", "DONERESULTS", "EXITING"} \* getAllNodes
LoopStages == SendStages \cup GetStages \cup {"CONNECT", "GETRESULTS", "CLOSING"}
Stages == LoopStages \cup {"DATACONNECT", "DATARECEIVE", "MERGING", "COMPLETE"}

ControllerInit ==
  /\ stage = "CONNECT"
  /\ it = 1
  /\ dataHosts = [k \in 1 .. N |-> k]
  /\ allResults = <<>>
  /\ simulationIteration \in UninitialisedInts
  /\ csvFiles = {}

\* Mutant of Advance: "it++" is forgotten.
StayAtNode == UNCHANGED <<stage, it>>

Advance ==
  /\ it' = it + 1
  /\ UNCHANGED stage

\* Mutants of EndLoop: run() lacks the loops between stage s and stage next.
SkipLoops(s, next) ==
  /\ stage \in LoopStages
  /\ it = N + 1
  /\ stage' = IF stage = s THEN next ELSE NextStage[stage]
  /\ it' = 1
  /\ UNCHANGED <<dataHosts, allResults, simulationIteration, csvFiles, mqVars>>
NoInitRound == SkipLoops("CONNECT", "GO")
NoInitBarrier == SkipLoops("INIT", "GO")
NoCollectBarrier == SkipLoops("GETRESULTS", "EXIT")
MeasureAgain == SkipLoops("DONERESULTS", "GO")
NoExitBarrier == SkipLoops("EXIT", "MERGING")

\* it == end(): the next loop starts at begin().
EndLoop ==
  /\ stage \in LoopStages
  /\ it = N + 1
  /\ stage' = NextStage[stage]
  /\ it' = 1
  /\ UNCHANGED <<dataHosts, allResults, simulationIteration, csvFiles, mqVars>>

\* Mutant of Connect: the loop tests "<=" for "!=" and runs past the end.
ConnectPastEnd ==
  /\ stage = "CONNECT"
  /\ ConnectCommand(it)
  /\ Advance
  /\ UNCHANGED <<dataHosts, allResults, simulationIteration, csvFiles>>

Connect ==
  /\ stage = "CONNECT"
  /\ it <= N
  /\ ConnectCommand(it)
  /\ Advance
  /\ UNCHANGED <<dataHosts, allResults, simulationIteration, csvFiles>>

SendAllNodes ==
  /\ stage \in SendStages
  /\ it <= N
  /\ SendCommand(it, stage)
  /\ Advance
  /\ UNCHANGED <<dataHosts, allResults, simulationIteration, csvFiles>>

\* A reply other than the expected one is logged and otherwise taken as it.
GetAllNodes ==
  /\ stage \in GetStages
  /\ it <= N
  /\ ReceiveReply(it)
  /\ Advance
  /\ UNCHANGED <<dataHosts, allResults, simulationIteration, csvFiles>>

\* Mutant of SendGetResults: all nodes are asked before the first is collected.
SendGetResultsToAll ==
  /\ stage = "GETRESULTS"
  /\ it <= N
  /\ linked = Workers
  /\ toWorker' = [w \in Workers |-> IF it = 1 THEN Append(toWorker[w], "GETRESULTS")
                                              ELSE toWorker[w]]
  /\ stage' = "DATACONNECT"
  /\ UNCHANGED <<it, dataHosts, allResults, simulationIteration, csvFiles,
                 linked, bound, toController, dataVars>>

SendGetResults ==
  /\ stage = "GETRESULTS"
  /\ it <= N
  /\ SendCommand(it, "GETRESULTS")
  /\ stage' = "DATACONNECT"
  /\ UNCHANGED <<it, dataHosts, allResults, simulationIteration, csvFiles>>

ConnectDataHost ==
  /\ stage = "DATACONNECT"
  /\ ConnectData(Head(dataHosts))
  /\ dataHosts' = Tail(dataHosts)
  /\ stage' = "DATARECEIVE"
  /\ UNCHANGED <<it, allResults, simulationIteration, csvFiles>>

\* Mutant of ReceiveDataFromWorker: push_front() for push_back().
PushResultsFront ==
  /\ stage = "DATARECEIVE"
  /\ ReceiveResultsAndClose(dataLinked)
  /\ allResults' = <<Head(dataQueue[dataLinked])>> \o allResults
  /\ stage' = "GETRESULTS"
  /\ it' = it + 1
  /\ UNCHANGED <<dataHosts, simulationIteration, csvFiles>>

ReceiveDataFromWorker ==
  /\ stage = "DATARECEIVE"
  /\ ReceiveResultsAndClose(dataLinked)
  /\ allResults' = Append(allResults, Head(dataQueue[dataLinked]))
  /\ stage' = "GETRESULTS"
  /\ it' = it + 1
  /\ UNCHANGED <<dataHosts, simulationIteration, csvFiles>>

\* The file is named after the member, not after the option that was tested;
\* an output stream truncates a file of the same name.
CsvIteration ==
  IF SimulationIteration = -1 THEN -1 ELSE simulationIteration

MergeResults ==
  /\ stage = "MERGING"
  /\ csvFiles' = {f \in csvFiles : f.iteration # CsvIteration}
                   \cup {[iteration |-> CsvIteration, rows |-> allResults]}
  /\ stage' = NextStage[stage]
  /\ UNCHANGED <<it, dataHosts, allResults, simulationIteration, mqVars>>

CloseController ==
  /\ stage = "CLOSING"
  /\ it <= N
  /\ CloseCommandAtController(it)
  /\ Advance
  /\ UNCHANGED <<dataHosts, allResults, simulationIteration, csvFiles>>

ControllerStep ==
  \/ EndLoop
  \/ Connect
  \/ SendAllNodes
  \/ GetAllNodes
  \/ SendGetResults
  \/ ConnectDataHost
  \/ ReceiveDataFromWorker
  \/ MergeResults
  \/ CloseController
=============================================================================
