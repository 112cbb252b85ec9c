---------------------------- MODULE ClusterProofs ----------------------------
(***************************************************************************)
(* Proofs, for every number of nodes, that IInv is an inductive invariant  *)
(* of SimulationCluster and that the properties checked by TLC on small    *)
(* clusters follow from it.                                                *)
(***************************************************************************)
EXTENDS PhasesRefinement, ClusterInvariant, TLAPS

LEMMA OneMessage ==
  ASSUME NEW S, NEW x \in S
  PROVE  /\ Append(<<>>, x) = <<x>>
         /\ Head(<<x>>) = x
         /\ Tail(<<x>>) = <<>>
         /\ <<x>> # <<>>
         /\ <<x>> \in Seq(S)
  OBVIOUS

\* The counters of the controller stay in range.
LEMMA SentRange ==
  ASSUME TypeOK, NEW w \in Workers
  PROVE  Sent(w) \in 0 .. 4 /\ Acked(w) \in 0 .. 4
  BY DEF TypeOK, Sent, Acked, Stages, LoopStages, SendStages, GetStages, Workers

(***************************************************************************)
(* Steps of a node.  They change nothing the controller owns, so that only *)
(* the facts about that node have to be looked at.                         *)
(***************************************************************************)
OthersUnchanged(w) ==
  \A v \in Workers \ {w} :
    /\ pc'[v] = pc[v] /\ state'[v] = state[v] /\ connector'[v] = connector[v]
    /\ runs'[v] = runs[v] /\ protobuf'[v] = protobuf[v]
    /\ request'[v] = request[v] /\ reply'[v] = reply[v]
    /\ toWorker'[v] = toWorker[v] /\ toController'[v] = toController[v]

LEMMA NodeFrame ==
  ASSUME NodeInv, UNCHANGED <<stage, it>>, NEW w \in Workers, OthersUnchanged(w),
         NEW k \in 0 .. 4, At(w, k)'
  PROVE  NodeInv'
<1>1. ASSUME NEW v \in Workers \ {w}, NEW j \in 0 .. 4, At(v, j)
      PROVE  At(v, j)'
  BY <1>1 DEF OthersUnchanged, At, Sent, Acked, Idle, Outstanding, Queued, Handling,
              Replying, Replied, After, Waiting
<1>2. QED
  BY <1>1 DEF NodeInv

LEMMA StartWorkerStep ==
  ASSUME IInv, NEW w \in Workers, StartWorker(w), UNCHANGED controllerVars
  PROVE  IInv'
<1> USE DEF StartWorker, BindCommand, Goto, dataVars, controllerVars
<1>1. TypeOK'
  <2>1. pc' \in [Workers -> {"down", "receive", "handle", "sendData", "closeData",
                            "reply", "close", "exited", "crashed"}]
    BY DEF IInv, TypeOK, WorkerTypeOK
  <2>2. QED
    BY <2>1 DEF IInv, TypeOK, WorkerTypeOK
<1>2. LoopInv' /\ CollectInv'
  BY DEF IInv, LoopInv, CollectInv, Collected, Popped, ResultsSent, CsvIteration,
         TypeOK, WorkerTypeOK
<1>3. SocketInv'
  BY DEF IInv, SocketInv, TypeOK, WorkerTypeOK
<1>4. NodeInv'
  <2>1. OthersUnchanged(w)
    BY DEF IInv, TypeOK, WorkerTypeOK, OthersUnchanged
  <2>2. PICK k \in 0 .. 4 : At(w, k)
    BY DEF IInv, NodeInv
  <2>3. At(w, k)'
    BY <2>2 DEF IInv, TypeOK, WorkerTypeOK, At, Sent, Acked, Idle, Outstanding, Queued,
         Handling, Replying, Replied, After, Waiting
  <2>4. QED
    BY <2>1, <2>3, NodeFrame DEF IInv
<1>5. QED
  BY <1>1, <1>2, <1>3, <1>4 DEF IInv

LEMMA ReceiveRequestStep ==
  ASSUME IInv, NEW w \in Workers, ReceiveRequest(w), UNCHANGED controllerVars
  PROVE  IInv'
<1> USE DEF ReceiveRequest, ReceiveCommand, Goto, dataVars, controllerVars
<1>1. PICK k \in 0 .. 4 : At(w, k)
  BY DEF IInv, NodeInv
<1>2. TypeOK'
  <2>1. Head(toWorker[w]) \in Commands /\ Tail(toWorker[w]) \in Seq(Commands)
    BY DEF IInv, TypeOK
  <2>2. /\ toWorker' \in [Workers -> Seq(Commands)]
        /\ request' \in [Workers -> Commands \cup {NoMessage}]
    BY <2>1 DEF IInv, TypeOK, WorkerTypeOK
  <2>3. QED
    BY <2>2 DEF IInv, TypeOK, WorkerTypeOK
<1>3. LoopInv'
  BY DEF IInv, LoopInv, CsvIteration
<1>4. SocketInv'
  BY DEF IInv, SocketInv, TypeOK, WorkerTypeOK
<1>5. CollectInv'
  BY <1>1 DEF IInv, CollectInv, Collected, Popped, ResultsSent, TypeOK, WorkerTypeOK
<1>6. NodeInv'
  <2>1. OthersUnchanged(w)
    BY DEF IInv, TypeOK, WorkerTypeOK, OthersUnchanged
  <2>2. At(w, k)'
    <3>1. k \in 1 .. 4 /\ Acked(w) = k - 1 /\ Queued(w, k)
      BY <1>1 DEF At, Idle, Outstanding, Queued, Handling, Replying, Replied, Waiting
    <3>2. Head(toWorker[w]) = Command(k) /\ Tail(toWorker[w]) = <<>>
      BY <3>1 DEF Queued
    <3>3. Handling(w, k)'
      BY <3>1, <3>2 DEF Queued, Handling, After, IInv, TypeOK, WorkerTypeOK
    <3>4. Sent(w)' = k /\ Acked(w)' = k - 1
      BY <1>1, <3>1 DEF At, Sent, Acked
    <3>5. QED
      BY <3>3, <3>4 DEF At, Outstanding
  <2>3. QED
    BY <2>1, <2>2, NodeFrame DEF IInv
<1>7. QED
  BY <1>2, <1>3, <1>4, <1>5, <1>6 DEF IInv

LEMMA HandleInitStep ==
  ASSUME IInv, NEW w \in Workers, HandleInit(w), UNCHANGED controllerVars
  PROVE  IInv'
<1> USE DEF HandleInit, Dispatch, Answer, Goto, mqVars, commandVars, dataVars, controllerVars
<1>1. PICK k \in 0 .. 4 : At(w, k)
  BY DEF IInv, NodeInv
<1>2. TypeOK'
  BY DEF IInv, TypeOK, WorkerTypeOK, Replies
<1>3. LoopInv'
  BY DEF IInv, LoopInv, CsvIteration
<1>4. SocketInv'
  BY DEF IInv, SocketInv, TypeOK, WorkerTypeOK
<1>5. CollectInv'
  <2>1. ~ResultsSent(w) /\ ~ResultsSent(w)'
    BY <1>1 DEF At, Idle, Outstanding, Queued, Handling, Replying, Replied, After, Waiting,
         Command, ResultsSent, IInv, TypeOK, WorkerTypeOK
  <2>2. \A v \in Workers : ResultsSent(v)' = ResultsSent(v)
    BY <2>1 DEF ResultsSent, IInv, TypeOK, WorkerTypeOK
  <2>3. QED
    BY <2>2 DEF IInv, CollectInv, Collected, Popped
<1>6. NodeInv'
  <2>1. OthersUnchanged(w)
    BY DEF IInv, TypeOK, WorkerTypeOK, OthersUnchanged
  <2>2. At(w, k)'
    BY <1>1, OneMessage DEF IInv, TypeOK, WorkerTypeOK, At, Sent, Acked, Idle, Outstanding,
         Queued, Handling, Replying, Replied, After, Waiting, Command, ReplyTo
  <2>3. QED
    BY <2>1, <2>2, NodeFrame DEF IInv
<1>7. QED
  BY <1>2, <1>3, <1>4, <1>5, <1>6 DEF IInv

LEMMA HandleGoStep ==
  ASSUME IInv, NEW w \in Workers, HandleGo(w), UNCHANGED controllerVars
  PROVE  IInv'
<1> USE DEF HandleGo, Dispatch, Answer, Goto, mqVars, commandVars, dataVars, controllerVars
<1>1. PICK k \in 0 .. 4 : At(w, k)
  BY DEF IInv, NodeInv
<1>2. TypeOK'
  <2>1. runs' \in [Workers -> Nat]
    BY DEF IInv, TypeOK, WorkerTypeOK
  <2>2. /\ state' \in [Workers -> {"START", "RESULTS", "EXIT", "ERROR", "DONE"}]
        /\ reply' \in [Workers -> Replies \cup {NoMessage}]
    BY DEF IInv, TypeOK, WorkerTypeOK, Replies
  <2>3. pc' \in [Workers -> {"down", "receive", "handle", "sendData", "closeData",
                            "reply", "close", "exited", "crashed"}]
    BY DEF IInv, TypeOK, WorkerTypeOK
  <2>4. QED
    BY <2>1, <2>2, <2>3 DEF IInv, TypeOK, WorkerTypeOK
<1>3. LoopInv'
  BY DEF IInv, LoopInv, CsvIteration
<1>4. SocketInv'
  BY DEF IInv, SocketInv, TypeOK, WorkerTypeOK
<1>5. CollectInv'
  BY <1>1 DEF IInv, CollectInv, Collected, Popped, ResultsSent, TypeOK, WorkerTypeOK
<1>6. NodeInv'
  <2>1. OthersUnchanged(w)
    BY DEF IInv, TypeOK, WorkerTypeOK, OthersUnchanged
  <2>2. At(w, k)'
    BY <1>1, OneMessage DEF IInv, TypeOK, WorkerTypeOK, At, Sent, Acked, Idle, Outstanding,
         Queued, Handling, Replying, Replied, After, Waiting, Command, ReplyTo
  <2>3. QED
    BY <2>1, <2>2, NodeFrame DEF IInv
<1>7. QED
  BY <1>2, <1>3, <1>4, <1>5, <1>6 DEF IInv

LEMMA HandleGetResultsStep ==
  ASSUME IInv, NEW w \in Workers, HandleGetResults(w), UNCHANGED controllerVars
  PROVE  IInv'
<1> USE DEF HandleGetResults, Dispatch, BindData, Goto, commandVars, dataVars, controllerVars
<1>1. PICK k \in 0 .. 4 : At(w, k)
  BY DEF IInv, NodeInv
<1>2. TypeOK'
  BY DEF IInv, TypeOK, WorkerTypeOK
<1>3. LoopInv'
  BY DEF IInv, LoopInv, CsvIteration
<1>4. SocketInv'
  BY DEF IInv, SocketInv, TypeOK, WorkerTypeOK
<1>5. CollectInv'
  BY <1>1 DEF IInv, CollectInv, Collected, Popped, ResultsSent, TypeOK, WorkerTypeOK
<1>6. NodeInv'
  <2>1. OthersUnchanged(w)
    BY DEF IInv, TypeOK, WorkerTypeOK, OthersUnchanged
  <2>2. At(w, k)'
    BY <1>1, OneMessage DEF IInv, TypeOK, WorkerTypeOK, At, Sent, Acked, Idle, Outstanding,
         Queued, Handling, Replying, Replied, After, Waiting, Command, ReplyTo
  <2>3. QED
    BY <2>1, <2>2, NodeFrame DEF IInv
<1>7. QED
  BY <1>2, <1>3, <1>4, <1>5, <1>6 DEF IInv

LEMMA SendDataStep ==
  ASSUME IInv, NEW w \in Workers, SendData(w), UNCHANGED controllerVars
  PROVE  IInv'
<1> USE DEF SendData, SendResults, Results, Goto, commandVars, dataVars, controllerVars
<1>1. PICK k \in 0 .. 4 : At(w, k)
  BY DEF IInv, NodeInv
<1>2. TypeOK'
  <2>1. Results(w) \in Row
    BY DEF IInv, TypeOK, WorkerTypeOK, Row
  <2>2. dataQueue' \in [Workers -> Seq(Row)]
    BY <2>1 DEF IInv, TypeOK
  <2>3. QED
    BY <2>2 DEF IInv, TypeOK, WorkerTypeOK
<1>3. LoopInv'
  BY DEF IInv, LoopInv, CsvIteration
<1>4. SocketInv'
  BY DEF IInv, SocketInv, TypeOK, WorkerTypeOK
<1>5. CollectInv'
  <2>1. ~ResultsSent(w) /\ Results(w) = ResultsOf(w)
    BY <1>1 DEF At, Idle, Outstanding, Queued, Handling, Replying, Replied, After, Waiting,
         ResultsSent, ResultsOf, IInv, TypeOK, WorkerTypeOK
  <2>2. stage = "DATARECEIVE" /\ it = w
    BY DEF IInv, SocketInv, Workers, NoWorker
  <2>3. dataQueue[w] = <<>> /\ dataQueue' = [dataQueue EXCEPT ![w] = <<ResultsOf(w)>>]
    <3>1. dataQueue[w] = <<>>
      BY <2>1 DEF IInv, CollectInv
    <3>2. Append(<<>>, ResultsOf(w)) = <<ResultsOf(w)>>
      BY OneMessage
    <3>3. QED
      BY <2>1, <3>1, <3>2
  <2>4. ResultsSent(w)' /\ \A v \in Workers \ {w} : ResultsSent(v)' = ResultsSent(v)
    BY DEF ResultsSent, IInv, TypeOK, WorkerTypeOK
  <2>5. \A v \in Workers :
          /\ v <= Collected => ResultsSent(v)'
          /\ ResultsSent(v)' => v <= Popped
          /\ dataQueue'[v] = IF ResultsSent(v)' /\ v > Collected THEN <<ResultsOf(v)>> ELSE <<>>
    BY <2>2, <2>3, <2>4 DEF IInv, CollectInv, Collected, Popped, Collecting, TypeOK, Workers
  <2>6. QED
    BY <2>2, <2>5 DEF IInv, CollectInv, Collected, Popped
<1>6. NodeInv'
  <2>1. OthersUnchanged(w)
    BY DEF IInv, TypeOK, WorkerTypeOK, OthersUnchanged
  <2>2. At(w, k)'
    BY <1>1, OneMessage DEF IInv, TypeOK, WorkerTypeOK, At, Sent, Acked, Idle, Outstanding,
         Queued, Handling, Replying, Replied, After, Waiting, Command, ReplyTo
  <2>3. QED
    BY <2>1, <2>2, NodeFrame DEF IInv
<1>7. QED
  BY <1>2, <1>3, <1>4, <1>5, <1>6 DEF IInv

LEMMA CloseDataStep ==
  ASSUME IInv, NEW w \in Workers, CloseData(w), UNCHANGED controllerVars
  PROVE  IInv'
<1> USE DEF CloseData, CloseDataAtWorker, Answer, Goto, commandVars, dataVars, controllerVars
<1>1. PICK k \in 0 .. 4 : At(w, k)
  BY DEF IInv, NodeInv
<1>2. TypeOK'
  BY DEF IInv, TypeOK, WorkerTypeOK, Replies
<1>3. LoopInv'
  BY DEF IInv, LoopInv, CsvIteration
<1>4. SocketInv'
  BY DEF IInv, SocketInv, TypeOK, WorkerTypeOK
<1>5. CollectInv'
  BY <1>1 DEF IInv, CollectInv, Collected, Popped, ResultsSent, TypeOK, WorkerTypeOK
<1>6. NodeInv'
  <2>1. OthersUnchanged(w)
    BY DEF IInv, TypeOK, WorkerTypeOK, OthersUnchanged
  <2>2. At(w, k)'
    BY <1>1, OneMessage DEF IInv, TypeOK, WorkerTypeOK, At, Sent, Acked, Idle, Outstanding,
         Queued, Handling, Replying, Replied, After, Waiting, Command, ReplyTo
  <2>3. QED
    BY <2>1, <2>2, NodeFrame DEF IInv
<1>7. QED
  BY <1>2, <1>3, <1>4, <1>5, <1>6 DEF IInv

LEMMA HandleExitStep ==
  ASSUME IInv, NEW w \in Workers, HandleExit(w), UNCHANGED controllerVars
  PROVE  IInv'
<1> USE DEF HandleExit, Dispatch, Answer, Goto, mqVars, commandVars, dataVars, controllerVars
<1>1. PICK k \in 0 .. 4 : At(w, k)
  BY DEF IInv, NodeInv
<1>2. TypeOK'
  BY DEF IInv, TypeOK, WorkerTypeOK, Replies
<1>3. LoopInv'
  BY DEF IInv, LoopInv, CsvIteration
<1>4. SocketInv'
  BY DEF IInv, SocketInv, TypeOK, WorkerTypeOK
<1>5. CollectInv'
  BY <1>1 DEF IInv, CollectInv, Collected, Popped, ResultsSent, TypeOK, WorkerTypeOK
<1>6. NodeInv'
  <2>1. OthersUnchanged(w)
    BY DEF IInv, TypeOK, WorkerTypeOK, OthersUnchanged
  <2>2. At(w, k)'
    BY <1>1, OneMessage DEF IInv, TypeOK, WorkerTypeOK, At, Sent, Acked, Idle, Outstanding,
         Queued, Handling, Replying, Replied, After, Waiting, Command, ReplyTo
  <2>3. QED
    BY <2>1, <2>2, NodeFrame DEF IInv
<1>7. QED
  BY <1>2, <1>3, <1>4, <1>5, <1>6 DEF IInv

LEMMA SendReplyStep ==
  ASSUME IInv, NEW w \in Workers, SendReply(w), UNCHANGED controllerVars
  PROVE  IInv'
<1> USE DEF SendReply, SendToController, Goto, dataVars, controllerVars
<1>1. PICK k \in 0 .. 4 : At(w, k)
  BY DEF IInv, NodeInv
<1>2. TypeOK'
  <2>1. toController' \in [Workers -> Seq(Replies \cup {NoMessage})]
    <3> DEFINE R == Replies \cup {NoMessage}
    <3>1. toController \in [Workers -> Seq(R)] /\ reply[w] \in R
      BY DEF IInv, TypeOK, WorkerTypeOK
    <3>2. toController' = [toController EXCEPT ![w] = Append(@, reply[w])]
      OBVIOUS
    <3> HIDE DEF R
    <3>3. toController' \in [Workers -> Seq(R)]
      BY <3>1, <3>2
    <3>4. QED
      BY <3>3 DEF R
  <2>2. pc' \in [Workers -> {"down", "receive", "handle", "sendData", "closeData",
                            "reply", "close", "exited", "crashed"}]
    BY DEF IInv, TypeOK, WorkerTypeOK
  <2>3. QED
    BY <2>1, <2>2 DEF IInv, TypeOK, WorkerTypeOK
<1>3. LoopInv'
  BY DEF IInv, LoopInv, CsvIteration
<1>4. SocketInv'
  BY DEF IInv, SocketInv, TypeOK, WorkerTypeOK
<1>5. CollectInv'
  BY <1>1 DEF IInv, CollectInv, Collected, Popped, ResultsSent, TypeOK, WorkerTypeOK
<1>6. NodeInv'
  <2>1. OthersUnchanged(w)
    BY DEF IInv, TypeOK, WorkerTypeOK, OthersUnchanged
  <2>2. At(w, k)'
    BY <1>1, OneMessage DEF IInv, TypeOK, WorkerTypeOK, At, Sent, Acked, Idle, Outstanding,
         Queued, Handling, Replying, Replied, After, Waiting, Command, ReplyTo
  <2>3. QED
    BY <2>1, <2>2, NodeFrame DEF IInv
<1>7. QED
  BY <1>2, <1>3, <1>4, <1>5, <1>6 DEF IInv

LEMMA CloseWorkerStep ==
  ASSUME IInv, NEW w \in Workers, CloseWorker(w), UNCHANGED controllerVars
  PROVE  IInv'
<1> USE DEF CloseWorker, CloseCommandAtWorker, Goto, dataVars, controllerVars
<1>1. PICK k \in 0 .. 4 : At(w, k)
  BY DEF IInv, NodeInv
<1>2. TypeOK'
  BY DEF IInv, TypeOK, WorkerTypeOK
<1>3. LoopInv'
  BY DEF IInv, LoopInv, CsvIteration
<1>4. SocketInv'
  BY DEF IInv, SocketInv, TypeOK, WorkerTypeOK
<1>5. CollectInv'
  BY <1>1 DEF IInv, CollectInv, Collected, Popped, ResultsSent, TypeOK, WorkerTypeOK
<1>6. NodeInv'
  <2>1. OthersUnchanged(w)
    BY DEF IInv, TypeOK, WorkerTypeOK, OthersUnchanged
  <2>2. At(w, k)'
    BY <1>1, OneMessage DEF IInv, TypeOK, WorkerTypeOK, At, Sent, Acked, Idle, Outstanding,
         Queued, Handling, Replying, Replied, After, Waiting, Command, ReplyTo
  <2>3. QED
    BY <2>1, <2>2, NodeFrame DEF IInv
<1>7. QED
  BY <1>2, <1>3, <1>4, <1>5, <1>6 DEF IInv

(***************************************************************************)
(* Steps of the controller.  They change nothing a node owns; where the    *)
(* iterator does not pass a node, its counters stay as they are.           *)
(***************************************************************************)
NodeKept(v) ==
  /\ Sent(v)' = Sent(v) /\ Acked(v)' = Acked(v)
  /\ toWorker'[v] = toWorker[v] /\ toController'[v] = toController[v]

LEMMA KeptStaysAt ==
  ASSUME UNCHANGED workerVars, NEW v \in Workers, NodeKept(v), NEW k \in 0 .. 4, At(v, k)
  PROVE  At(v, k)'
  BY DEF workerVars, NodeKept, At, Idle, Outstanding, Queued, Handling, Replying, Replied,
         After, Waiting

LEMMA NextStageValues ==
  /\ NextStage["CONNECT"] = "INIT" /\ NextStage["INIT"] = "INITDONE"
  /\ NextStage["INITDONE"] = "GO" /\ NextStage["GO"] = "RESULTSREADY"
  /\ NextStage["RESULTSREADY"] = "GETRESULTS" /\ NextStage["GETRESULTS"] = "DONERESULTS"
  /\ NextStage["DONERESULTS"] = "EXIT" /\ NextStage["EXIT"] = "EXITING"
  /\ NextStage["EXITING"] = "MERGING" /\ NextStage["MERGING"] = "CLOSING"
  /\ NextStage["CLOSING"] = "COMPLETE"
  BY DEF NextStage

LEMMA EndLoopStep ==
  ASSUME IInv, EndLoop, UNCHANGED workerVars
  PROVE  IInv'
<1> USE NAssumption DEF EndLoop, mqVars, commandVars, dataVars, workerVars
<1>1. stage' \in Stages \ (Collecting \ {"GETRESULTS"}) /\ stage' # "CLOSING"
  BY NextStageValues DEF Stages, LoopStages, SendStages, GetStages, Collecting
<1>2. TypeOK'
  BY <1>1 DEF IInv, TypeOK, WorkerTypeOK
<1>3. \A v \in Workers : NodeKept(v)
  BY NextStageValues DEF NodeKept, Sent, Acked, LoopStages, SendStages, GetStages,
     Collecting, Workers
<1>4. Collected' = Collected /\ Popped' = Popped
  BY NextStageValues DEF Collected, Popped, LoopStages, SendStages, GetStages, Collecting
<1>5. LoopInv'
  BY <1>1, NextStageValues DEF IInv, LoopInv, CsvIteration, LoopStages, SendStages,
     GetStages, Collecting
<1>6. SocketInv'
  <2>1. \A w \in Workers : w < it /\ ~(w >= it)
    BY DEF Workers
  <2>2. \/ stage # "CLOSING" /\ stage' \notin {"CONNECT", "CLOSING", "COMPLETE"}
        \/ stage = "CLOSING" /\ stage' = "COMPLETE"
    BY NextStageValues DEF LoopStages, SendStages, GetStages
  <2>3. stage \notin {"DATARECEIVE", "COMPLETE"} /\ stage' # "DATARECEIVE"
    BY <1>1 DEF LoopStages, SendStages, GetStages, Collecting
  <2>4. QED
    BY <2>1, <2>2, <2>3 DEF IInv, SocketInv
<1>7. CollectInv'
  <2>1. stage # "DATARECEIVE" /\ stage' # "DATARECEIVE"
    BY <1>1 DEF LoopStages, SendStages, GetStages, Collecting
  <2>2. \A v \in Workers : ResultsSent(v)' = ResultsSent(v)
    BY DEF ResultsSent
  <2>3. QED
    BY <1>4, <2>1, <2>2 DEF IInv, CollectInv
<1>8. NodeInv'
  BY <1>3, KeptStaysAt DEF IInv, NodeInv
<1>9. QED
  BY <1>2, <1>5, <1>6, <1>7, <1>8 DEF IInv

LEMMA ConnectStep ==
  ASSUME IInv, Connect, UNCHANGED workerVars
  PROVE  IInv'
<1> USE NAssumption DEF Connect, ConnectCommand, Advance, dataVars, workerVars
<1>1. it \in Workers /\ it' \in 1 .. N + 1
  BY DEF IInv, TypeOK, Workers
<1>2. TypeOK'
  <2>1. linked' \subseteq Workers
    BY <1>1 DEF IInv, TypeOK
  <2>2. QED
    BY <1>1, <2>1 DEF IInv, TypeOK, WorkerTypeOK
<1>3. LoopInv'
  BY DEF IInv, LoopInv, CsvIteration
<1>4. SocketInv'
  BY <1>1 DEF IInv, SocketInv, Workers, TypeOK
<1>5. CollectInv'
  BY DEF IInv, CollectInv, Collected, Popped, Collecting, ResultsSent
<1>6. \A v \in Workers : NodeKept(v)
  BY DEF NodeKept, Sent, Acked
<1>7. NodeInv'
  BY <1>6, KeptStaysAt DEF IInv, NodeInv
<1>8. QED
  BY <1>2, <1>3, <1>4, <1>5, <1>7 DEF IInv

LEMMA SendAllNodesStep ==
  ASSUME IInv, SendAllNodes, UNCHANGED workerVars
  PROVE  IInv'
<1> USE NAssumption DEF SendAllNodes, SendCommand, Advance, dataVars, workerVars
<1>1. PICK w \in Workers : w = it
  BY DEF IInv, TypeOK, Workers
<1>2. it' \in 1 .. N + 1
  BY DEF IInv, TypeOK
<1>3. TypeOK'
  <2>1. stage \in Commands
    BY DEF SendStages, Commands
  <2>2. toWorker' \in [Workers -> Seq(Commands)]
    BY <1>1, <2>1 DEF IInv, TypeOK
  <2>3. QED
    BY <1>2, <2>2 DEF IInv, TypeOK, WorkerTypeOK
<1>4. LoopInv'
  BY DEF IInv, LoopInv, CsvIteration, SendStages
<1>5. SocketInv'
  BY DEF IInv, SocketInv, SendStages
<1>6. CollectInv'
  BY DEF IInv, CollectInv, Collected, Popped, Collecting, ResultsSent, SendStages
<1>7. ASSUME NEW v \in Workers \ {w}
      PROVE  NodeKept(v)
  <2>1. (v >= it + 1) <=> (v >= it)
    BY <1>1, <1>7 DEF Workers, IInv, TypeOK
  <2>2. QED
    BY <2>1 DEF NodeKept, Sent, Acked, SendStages
<1>8. \E k \in 0 .. 4 : At(w, k)'
  <2>1. PICK k \in 0 .. 4 : At(w, k)
    BY <1>1 DEF IInv, NodeInv
  <2>2. /\ k \in 0 .. 3 /\ stage = Command(k + 1)
        /\ Acked(w) = k /\ Sent(w)' = k + 1 /\ Acked(w)' = k
    BY <2>1, <1>1 DEF At, Sent, Acked, SendStages, Command, Collecting, Workers
  <2>3. Idle(w, k)
    BY <2>1, <2>2 DEF At
  <2>4. toWorker'[w] = <<Command(k + 1)>> /\ toController'[w] = <<>>
    <3>1. Append(<<>>, stage) = <<stage>>
      BY OneMessage
    <3>2. QED
      BY <1>1, <2>2, <2>3, <3>1 DEF Idle, IInv, TypeOK
  <2>5. Queued(w, k + 1)'
    BY <2>2, <2>3, <2>4 DEF Idle, Queued, After, Waiting
  <2>6. At(w, k + 1)'
    BY <2>2, <2>5 DEF At, Outstanding
  <2>7. QED
    BY <2>2, <2>6
<1>9. NodeInv'
  BY <1>7, <1>8, KeptStaysAt DEF IInv, NodeInv
<1>10. QED
  BY <1>3, <1>4, <1>5, <1>6, <1>9 DEF IInv

LEMMA GetAllNodesStep ==
  ASSUME IInv, GetAllNodes, UNCHANGED workerVars
  PROVE  IInv'
<1> USE NAssumption DEF GetAllNodes, ReceiveReply, Advance, dataVars, workerVars
<1>1. PICK w \in Workers : w = it
  BY DEF IInv, TypeOK, Workers
<1>2. it' \in 1 .. N + 1
  BY DEF IInv, TypeOK
<1>3. TypeOK'
  <2>1. Tail(toController[w]) \in Seq(Replies \cup {NoMessage})
    BY <1>1 DEF IInv, TypeOK
  <2>2. toController' \in [Workers -> Seq(Replies \cup {NoMessage})]
    BY <1>1, <2>1 DEF IInv, TypeOK
  <2>3. QED
    BY <1>2, <2>2 DEF IInv, TypeOK, WorkerTypeOK
<1>4. LoopInv'
  BY DEF IInv, LoopInv, CsvIteration, GetStages
<1>5. SocketInv'
  BY DEF IInv, SocketInv, GetStages
<1>6. CollectInv'
  BY DEF IInv, CollectInv, Collected, Popped, Collecting, ResultsSent, GetStages
<1>7. ASSUME NEW v \in Workers \ {w}
      PROVE  NodeKept(v)
  BY <1>1, <1>7 DEF NodeKept, Sent, Acked, GetStages, Collecting, Workers, IInv, TypeOK
<1>8. \E k \in 0 .. 4 : At(w, k)'
  <2>1. PICK k \in 0 .. 4 : At(w, k)
    BY <1>1 DEF IInv, NodeInv
  <2>2. k \in 1 .. 4 /\ Replied(w, k) /\ Acked(w) = k - 1
    BY <2>1, <1>1, SentRange DEF IInv, At, Idle, Outstanding, Queued, Handling, Replying
  <2>3. Sent(w)' = k /\ Acked(w)' = k
    BY <2>1, <2>2, <1>1 DEF At, Sent, Acked, GetStages, Collecting, Workers
  <2>4. toWorker'[w] = <<>> /\ toController'[w] = <<>>
    <3>1. Tail(<<ReplyTo(k)>>) = <<>>
      BY OneMessage
    <3>2. QED
      BY <1>1, <2>2, <3>1 DEF Replied, IInv, TypeOK
  <2>5. Idle(w, k)'
    BY <2>2, <2>4 DEF Idle, Replied, After, Waiting
  <2>6. QED
    BY <2>3, <2>5 DEF At
<1>9. NodeInv'
  BY <1>7, <1>8, KeptStaysAt DEF IInv, NodeInv
<1>10. QED
  BY <1>3, <1>4, <1>5, <1>6, <1>9 DEF IInv

LEMMA SendGetResultsStep ==
  ASSUME IInv, SendGetResults, UNCHANGED workerVars
  PROVE  IInv'
<1> USE NAssumption DEF SendGetResults, SendCommand, dataVars, workerVars
<1>1. PICK w \in Workers : w = it
  BY DEF IInv, TypeOK, Workers
<1>2. TypeOK'
  <2>1. toWorker' \in [Workers -> Seq(Commands)]
    BY <1>1 DEF IInv, TypeOK, Commands
  <2>2. stage' \in Stages
    BY DEF Stages
  <2>3. QED
    BY <2>1, <2>2 DEF IInv, TypeOK, WorkerTypeOK
<1>3. LoopInv'
  BY DEF IInv, LoopInv, CsvIteration
<1>4. SocketInv'
  BY DEF IInv, SocketInv
<1>5. CollectInv'
  BY DEF IInv, CollectInv, Collected, Popped, Collecting, ResultsSent
<1>6. ASSUME NEW v \in Workers \ {w}
      PROVE  NodeKept(v)
  BY <1>1, <1>6 DEF NodeKept, Sent, Acked, Collecting, Workers, IInv, TypeOK
<1>7. At(w, 3)'
  <2>1. Sent(w) = 2 /\ Acked(w) = 2 /\ Sent(w)' = 3 /\ Acked(w)' = 2
    BY <1>1 DEF Sent, Acked, Collecting, Workers
  <2>2. Idle(w, 2)
    BY <2>1 DEF IInv, NodeInv, At
  <2>3. toWorker'[w] = <<Command(3)>> /\ toController'[w] = <<>>
    <3>1. Append(<<>>, "GETRESULTS") = <<"GETRESULTS">>
      BY OneMessage
    <3>2. QED
      BY <1>1, <2>2, <3>1 DEF Idle, Command, IInv, TypeOK
  <2>4. QED
    BY <2>1, <2>2, <2>3 DEF At, Outstanding, Queued, Idle, After, Waiting
<1>8. NodeInv'
  BY <1>6, <1>7, KeptStaysAt DEF IInv, NodeInv
<1>9. QED
  BY <1>2, <1>3, <1>4, <1>5, <1>8 DEF IInv

LEMMA ConnectDataHostStep ==
  ASSUME IInv, ConnectDataHost, UNCHANGED workerVars
  PROVE  IInv'
<1> USE NAssumption DEF ConnectDataHost, ConnectData, commandVars, workerVars
<1>1. it \in Workers
  BY DEF IInv, LoopInv, TypeOK, Workers
<1>2. /\ Head(dataHosts) = it
      /\ Tail(dataHosts) \in Seq(Workers)
      /\ Tail(dataHosts) = [k \in 1 .. N - it |-> k + it]
  <2>1. dataHosts = [k \in 1 .. N - (it - 1) |-> k + (it - 1)]
    BY DEF IInv, CollectInv, Popped, Collected, Collecting
  <2>2. dataHosts \in Seq(Workers) /\ Len(dataHosts) = N - (it - 1)
    BY <1>1, <2>1 DEF Workers, IInv, TypeOK
  <2>3. /\ Tail(dataHosts) \in Seq(Workers)
        /\ Len(Tail(dataHosts)) = N - it
        /\ \A k \in 1 .. N - it : Tail(dataHosts)[k] = dataHosts[k + 1]
    BY <1>1, <2>2 DEF Workers
  <2>4. Tail(dataHosts) = [k \in 1 .. N - it |-> Tail(dataHosts)[k]]
    <3>1. \A s \in Seq(Workers) : s = [k \in 1 .. Len(s) |-> s[k]]
      OBVIOUS
    <3>2. QED
      BY <2>3, <3>1
  <2>5. Head(dataHosts) = it /\ \A k \in 1 .. N - it : dataHosts[k + 1] = k + it
    BY <1>1, <2>1, <2>2 DEF Workers
  <2>6. QED
    BY <2>3, <2>4, <2>5
<1>3. TypeOK'
  <2>1. dataHosts' \in Seq(Workers)
    BY <1>2
  <2>2. stage' \in Stages /\ dataLinked' \in Workers \cup {NoWorker}
    BY <1>1, <1>2 DEF Stages
  <2>3. QED
    BY <2>1, <2>2 DEF IInv, TypeOK, WorkerTypeOK
<1>4. LoopInv'
  BY DEF IInv, LoopInv, CsvIteration
<1>5. SocketInv'
  BY <1>2 DEF IInv, SocketInv
<1>6. \A v \in Workers : NodeKept(v)
  BY DEF NodeKept, Sent, Acked, Collecting
<1>7. NodeInv'
  BY <1>6, KeptStaysAt DEF IInv, NodeInv
<1>8. CollectInv'
  <2>1. Collected' = Collected /\ Collected = it - 1 /\ Popped' = it
    BY <1>1 DEF Collected, Popped, Collecting, Workers
  <2>2. \A v \in Workers : ResultsSent(v)' = ResultsSent(v)
    BY DEF ResultsSent
  <2>3. \A v \in Workers : v <= Popped => v <= Popped'
    BY <1>1, <2>1 DEF Popped, Workers
  <2>4. QED
    BY <1>1, <1>2, <2>1, <2>2, <2>3 DEF IInv, CollectInv
<1>9. QED
  BY <1>3, <1>4, <1>5, <1>7, <1>8 DEF IInv

LEMMA ReceiveDataFromWorkerStep ==
  ASSUME IInv, ReceiveDataFromWorker, UNCHANGED workerVars
  PROVE  IInv'
<1> USE NAssumption DEF ReceiveDataFromWorker, ReceiveResultsAndClose, commandVars, workerVars
<1>1. it \in Workers /\ dataLinked = it
  BY DEF IInv, LoopInv, SocketInv, TypeOK, Workers
<1>2. Collected = it - 1 /\ Popped = it /\ Collected' = it /\ Popped' = it
  BY <1>1 DEF Collected, Popped, Collecting, Workers
<1>3. ResultsSent(it) /\ Head(dataQueue[it]) = ResultsOf(it)
  <2>1. dataQueue[it] = IF ResultsSent(it) THEN <<ResultsOf(it)>> ELSE <<>>
    BY <1>1, <1>2 DEF IInv, CollectInv, Workers
  <2>2. Head(<<ResultsOf(it)>>) = ResultsOf(it)
    BY OneMessage
  <2>3. QED
    BY <1>1, <2>1, <2>2
<1>4. allResults' \in Seq(Row) /\ allResults' = [k \in 1 .. it |-> ResultsOf(k)]
  <2>1. allResults = [k \in 1 .. it - 1 |-> ResultsOf(k)] /\ allResults \in Seq(Row)
    BY <1>2 DEF IInv, CollectInv, TypeOK
  <2>2. Len(allResults) = it - 1
    BY <1>1, <2>1 DEF Workers
  <2>3. allResults' = Append(allResults, ResultsOf(it)) /\ ResultsOf(it) \in Row
    BY <1>1, <1>3 DEF ResultsOf, Row
  <2>4. /\ allResults' \in Seq(Row) /\ Len(allResults') = it
        /\ \A k \in 1 .. it : allResults'[k] = ResultsOf(k)
    BY <1>1, <2>1, <2>2, <2>3 DEF Workers
  <2>5. \A s \in Seq(Row) : s = [k \in 1 .. Len(s) |-> s[k]]
    OBVIOUS
  <2>6. QED
    BY <2>4, <2>5
<1>5. TypeOK'
  <2>1. dataQueue' \in [Workers -> Seq(Row)]
    BY <1>1 DEF IInv, TypeOK
  <2>2. stage' \in Stages /\ it' \in 1 .. N + 1 /\ dataLinked' \in Workers \cup {NoWorker}
    BY <1>1 DEF Stages, LoopStages, Workers
  <2>3. QED
    BY <1>4, <2>1, <2>2 DEF IInv, TypeOK, WorkerTypeOK
<1>6. LoopInv'
  BY DEF IInv, LoopInv, CsvIteration
<1>7. SocketInv'
  BY DEF IInv, SocketInv
<1>8. CollectInv'
  <2>1. \A v \in Workers : ResultsSent(v)' = ResultsSent(v)
    BY DEF ResultsSent
  <2>2. \A v \in Workers : v <= it => ResultsSent(v)
    <3>1. ASSUME NEW v \in Workers, v <= it PROVE v <= Collected \/ v = it
      BY <1>1, <1>2, <3>1 DEF Workers
    <3>2. QED
      BY <1>3, <3>1 DEF IInv, CollectInv
  <2>3. \A v \in Workers :
          dataQueue'[v] = IF ResultsSent(v) /\ v > it THEN <<ResultsOf(v)>> ELSE <<>>
    BY <1>1, <1>2 DEF IInv, CollectInv, TypeOK, Workers
  <2>4. QED
    BY <1>2, <1>4, <2>1, <2>2, <2>3 DEF IInv, CollectInv
<1>9. \A v \in Workers : NodeKept(v)
  BY <1>1 DEF NodeKept, Sent, Acked, Collecting, Workers
<1>10. NodeInv'
  BY <1>9, KeptStaysAt DEF IInv, NodeInv
<1>11. QED
  BY <1>5, <1>6, <1>7, <1>8, <1>10 DEF IInv

LEMMA MergeResultsStep ==
  ASSUME IInv, MergeResults, UNCHANGED workerVars
  PROVE  IInv'
<1> USE NAssumption DEF MergeResults, mqVars, commandVars, dataVars, workerVars
<1>1. stage' = "CLOSING" /\ csvFiles' = {[iteration |-> CsvIteration, rows |-> allResults]}
  BY NextStageValues DEF IInv, LoopInv
<1>2. CsvIteration' = CsvIteration /\ CsvIteration \in Int
  BY IterationAssumption DEF CsvIteration, IInv, TypeOK
<1>3. TypeOK'
  <2>1. csvFiles' \subseteq [iteration : Int, rows : Seq(Row)]
    BY <1>1, <1>2 DEF IInv, TypeOK
  <2>2. stage' \in Stages
    BY <1>1 DEF Stages, LoopStages
  <2>3. QED
    BY <2>1, <2>2 DEF IInv, TypeOK, WorkerTypeOK
<1>4. LoopInv'
  BY <1>1, <1>2 DEF LoopInv
<1>5. SocketInv'
  BY <1>1 DEF IInv, LoopInv, SocketInv, Workers
<1>6. CollectInv'
  BY <1>1 DEF IInv, CollectInv, Collected, Popped, Collecting, ResultsSent
<1>7. \A v \in Workers : NodeKept(v)
  BY <1>1 DEF NodeKept, Sent, Acked, Collecting
<1>8. NodeInv'
  BY <1>7, KeptStaysAt DEF IInv, NodeInv
<1>9. QED
  BY <1>3, <1>4, <1>5, <1>6, <1>8 DEF IInv

LEMMA CloseControllerStep ==
  ASSUME IInv, CloseController, UNCHANGED workerVars
  PROVE  IInv'
<1> USE NAssumption DEF CloseController, CloseCommandAtController, Advance, dataVars, workerVars
<1>1. it' \in 1 .. N + 1
  BY DEF IInv, TypeOK
<1>2. TypeOK'
  BY <1>1 DEF IInv, TypeOK, WorkerTypeOK
<1>3. LoopInv'
  BY DEF IInv, LoopInv, CsvIteration
<1>4. SocketInv'
  <2>1. linked = {v \in Workers : v >= it}
    BY DEF IInv, SocketInv
  <2>2. \A v \in Workers : (v >= it /\ v # it) <=> (v >= it + 1)
    <3>1. it \in Int
      BY DEF IInv, TypeOK
    <3>2. \A v \in Int : (v >= it /\ v # it) <=> (v >= it + 1)
      BY <3>1
    <3>3. QED
      BY <3>2 DEF Workers
  <2>3. linked' = {v \in Workers : v >= it'}
    BY <2>1, <2>2
  <2>4. QED
    BY <2>3 DEF IInv, SocketInv
<1>5. CollectInv'
  BY DEF IInv, CollectInv, Collected, Popped, Collecting, ResultsSent
<1>6. \A v \in Workers : NodeKept(v)
  BY DEF NodeKept, Sent, Acked, Collecting
<1>7. NodeInv'
  BY <1>6, KeptStaysAt DEF IInv, NodeInv
<1>8. QED
  BY <1>2, <1>3, <1>4, <1>5, <1>7 DEF IInv

(***************************************************************************)
(* IInv is inductive.                                                      *)
(***************************************************************************)
LEMMA InitEstablishes == Init => IInv
<1> SUFFICES ASSUME Init PROVE IInv
  OBVIOUS
<1> USE NAssumption DEF Init, MQInit, ControllerInit, WorkerInit
<1>1. TypeOK
  <2>1. WorkerTypeOK
    BY DEF WorkerTypeOK
  <2>2. /\ toWorker \in [Workers -> Seq(Commands)]
        /\ toController \in [Workers -> Seq(Replies \cup {NoMessage})]
        /\ dataQueue \in [Workers -> Seq(Row)]
        /\ allResults \in Seq(Row)
        /\ stage \in Stages /\ it \in 1 .. N + 1
    BY DEF Stages, LoopStages
  <2>3. dataHosts \in Seq(Workers)
    BY DEF Workers
  <2>4. QED
    BY <2>1, <2>2, <2>3 DEF TypeOK
<1>2. LoopInv
  BY DEF LoopInv
<1>3. SocketInv
  BY DEF SocketInv, Workers
<1>4. CollectInv
  BY DEF CollectInv, Collected, Popped, Collecting, ResultsSent, Workers
<1>5. NodeInv
  BY DEF NodeInv, At, Sent, Acked, Idle, After, Waiting
<1>6. QED
  BY <1>1, <1>2, <1>3, <1>4, <1>5 DEF IInv

\* The commands the controller never sends are never handled, and no handler
\* meets a pointer that designates no object.
LEMMA OnlyProtocolCommands ==
  ASSUME IInv, NEW w \in Workers, pc[w] \in {"handle", "sendData", "closeData"}
  PROVE  /\ request[w] \in {"INIT", "GO", "GETRESULTS", "EXIT"}
         /\ request[w] \in {"GO", "GETRESULTS"} => connector[w] = "live"
         /\ request[w] = "GO" => protobuf[w] = "up"
<1>1. PICK k \in 0 .. 4 : At(w, k)
  BY DEF IInv, NodeInv
<1>2. k \in 1 .. 4 /\ Handling(w, k)
  BY <1>1, SentRange DEF IInv, At, Idle, Outstanding, Queued, Replying, Replied, Waiting
<1>3. QED
  BY <1>2 DEF Handling, Command, After

LEMMA NextPreserves == IInv /\ [Next]_vars => IInv'
<1> SUFFICES ASSUME IInv, [Next]_vars PROVE IInv'
  OBVIOUS
<1>1. CASE ControllerStep /\ UNCHANGED workerVars
  BY <1>1, EndLoopStep, ConnectStep, SendAllNodesStep, GetAllNodesStep, SendGetResultsStep,
     ConnectDataHostStep, ReceiveDataFromWorkerStep, MergeResultsStep, CloseControllerStep
     DEF ControllerStep
<1>2. ASSUME NEW w \in Workers, WorkerStep(w), UNCHANGED controllerVars
      PROVE  IInv'
  <2>1. CASE HandleRestart(w) \/ HandleUnknown(w) \/ UndefinedUse(w)
    BY <2>1, OnlyProtocolCommands
       DEF HandleRestart, HandleUnknown, UndefinedUse, Dispatch, Commands
  <2>2. QED
    BY <1>2, <2>1, StartWorkerStep, ReceiveRequestStep, HandleInitStep, HandleGoStep,
       HandleGetResultsStep, SendDataStep, CloseDataStep, HandleExitStep, SendReplyStep,
       CloseWorkerStep
       DEF WorkerStep
<1>3. CASE UNCHANGED vars
  <2> USE <1>3 DEF vars, mqVars, commandVars, dataVars, controllerVars, workerVars
  <2>1. TypeOK' /\ LoopInv' /\ SocketInv'
    BY DEF IInv, TypeOK, WorkerTypeOK, LoopInv, SocketInv, CsvIteration
  <2>2. CollectInv'
    BY DEF IInv, CollectInv, Collected, Popped, ResultsSent
  <2>3. \A v \in Workers : NodeKept(v)
    BY DEF NodeKept, Sent, Acked
  <2>4. NodeInv'
    BY <2>3, KeptStaysAt DEF IInv, NodeInv
  <2>5. QED
    BY <2>1, <2>2, <2>4 DEF IInv
<1>4. QED
  BY <1>1, <1>2, <1>3 DEF Next, Terminated

THEOREM InductiveInvariant == Spec => []IInv
  BY InitEstablishes, NextPreserves, PTL DEF Spec

-----------------------------------------------------------------------------
(***************************************************************************)
(* What follows from the invariant.                                        *)
(***************************************************************************)

(***************************************************************************)
(* Every variable keeps its type, and the iterators of the controller stay *)
(* within its lists, for every number of nodes.                            *)
(***************************************************************************)
THEOREM TypeCorrect == Spec => []TypeOK
<1>1. IInv => TypeOK
  BY DEF IInv
<1>2. QED
  BY <1>1, InductiveInvariant, PTL

(***************************************************************************)
(* GO and GETRESULTS, which go through the connector pointer without a     *)
(* check (SimulationWorker.cc, lines 79, 89 and 105), always find the      *)
(* object that INIT created.                                               *)
(***************************************************************************)
THEOREM NoDeadConnector == Spec => []ConnectorIsLive
<1>1. IInv => ConnectorIsLive
  BY OnlyProtocolCommands DEF ConnectorIsLive
<1>2. QED
  BY <1>1, InductiveInvariant, PTL

(***************************************************************************)
(* No node uses the protocol buffers library after the destructor of its   *)
(* connector (DBConnector.cc, line 72) has shut it down.                   *)
(***************************************************************************)
THEOREM NoUseAfterShutdown == Spec => []LibraryIsUp
<1>1. IInv => LibraryIsUp
  BY OnlyProtocolCommands DEF LibraryIsUp
<1>2. QED
  BY <1>1, InductiveInvariant, PTL

(***************************************************************************)
(* The barriers: getAllNodes() (SimulationController.cc, lines 160 to 173) *)
(* only ever takes the reply of the round it is called for, although it    *)
(* would take any other as well.                                           *)
(***************************************************************************)
THEOREM BarriersHold == Spec => []RepliesMatchRound
<1>1. IInv => RepliesMatchRound
  <2>1. SUFFICES ASSUME IInv, stage \in GetStages, NEW w \in Workers, toController[w] # <<>>
                 PROVE  Head(toController[w]) = stage
    BY DEF RepliesMatchRound
  <2>2. PICK k \in 0 .. 4 : At(w, k)
    BY <2>1 DEF IInv, NodeInv
  <2>3. k \in 1 .. 4 /\ Replied(w, k) /\ Acked(w) = k - 1
    BY <2>1, <2>2, SentRange DEF IInv, At, Idle, Outstanding, Queued, Handling, Replying
  <2>4. ReplyTo(k) = stage
    BY <2>1, <2>2, <2>3 DEF At, Sent, Acked, GetStages, Collecting, ReplyTo
  <2>5. Head(<<ReplyTo(k)>>) = ReplyTo(k)
    BY OneMessage
  <2>6. QED
    BY <2>3, <2>4, <2>5 DEF Replied
<1>2. QED
  BY <1>1, InductiveInvariant, PTL

(***************************************************************************)
(* Row k of the results is that of node k after one call of                *)
(* DBConnector::run(), although dataHosts is consumed independently of the *)
(* command connections (SimulationController.cc, lines 54 to 60).          *)
(***************************************************************************)
THEOREM RowsBelongToHosts == Spec => []RowsMatchHosts
<1>1. IInv => RowsMatchHosts
  <2>1. SUFFICES ASSUME IInv PROVE RowsMatchHosts
    OBVIOUS
  <2>2. Collected \in Nat
    BY <2>1, NAssumption DEF IInv, TypeOK, Collected, Collecting
  <2>3. allResults = [k \in 1 .. Collected |-> ResultsOf(k)] /\ allResults \in Seq(Row)
    BY <2>1 DEF IInv, CollectInv, TypeOK
  <2>4. Len(allResults) = Collected
    BY <2>2, <2>3
  <2>5. QED
    BY <2>3, <2>4 DEF RowsMatchHosts, ResultsOf
<1>2. QED
  BY <1>1, InductiveInvariant, PTL

(***************************************************************************)
(* A node that is about to block in the send of its results is the one the *)
(* controller is about to collect (SimulationController.cc, lines 105 to   *)
(* 121).                                                                   *)
(***************************************************************************)
THEOREM SendersTakeTurns == Spec => []OneSenderAtATime
<1>1. IInv => OneSenderAtATime
  <2>1. SUFFICES ASSUME IInv, NEW w \in Workers, pc[w] = "sendData"
                 PROVE  /\ stage \in {"DATACONNECT", "DATARECEIVE"}
                        /\ it = w
                        /\ stage = "DATACONNECT" => Head(dataHosts) = w
    BY DEF OneSenderAtATime
  <2>2. PICK k \in 0 .. 4 : At(w, k)
    BY <2>1 DEF IInv, NodeInv
  <2>3. k = 3 /\ Acked(w) = 2 /\ connector[w] = "live"
    BY <2>1, <2>2, SentRange DEF IInv, At, Idle, Outstanding, Queued, Handling, Replying,
       Replied, Waiting, After
  <2>4. ~(w <= Collected)
    BY <2>1, <2>3 DEF IInv, CollectInv, ResultsSent
  <2>5. stage \in {"DATACONNECT", "DATARECEIVE"} /\ it = w
    BY <2>1, <2>2, <2>3, <2>4, NAssumption DEF At, Sent, Acked, Collected, Collecting, Workers,
       IInv, TypeOK
  <2>6. ASSUME stage = "DATACONNECT"
        PROVE  Head(dataHosts) = w
    <3>1. dataHosts = [j \in 1 .. N - (w - 1) |-> j + (w - 1)] /\ dataHosts \in Seq(Workers)
      BY <2>1, <2>5, <2>6 DEF IInv, CollectInv, TypeOK, Popped, Collected, Collecting
    <3>2. Len(dataHosts) = N - (w - 1)
      BY <3>1, NAssumption DEF Workers
    <3>3. QED
      BY <3>1, <3>2, NAssumption DEF Workers
  <2>7. QED
    BY <2>5, <2>6
<1>2. QED
  BY <1>1, InductiveInvariant, PTL

(***************************************************************************)
(* When the result file is there (SimulationController.cc, lines 29 to     *)
(* 46), it is complete, every node has left its loop and every queue is    *)
(* empty.                                                                  *)
(***************************************************************************)
THEOREM NothingLeftBehind == Spec => []PublishedMeansQuiescent
<1>1. IInv => PublishedMeansQuiescent
  <2>1. SUFFICES ASSUME IInv, csvFiles # {}
                 PROVE  /\ \A f \in csvFiles : Len(f.rows) = N
                        /\ \A w \in Workers :
                             /\ state[w] = "EXIT"
                             /\ pc[w] \in {"close", "exited"}
                             /\ toWorker[w] = <<>>
                             /\ toController[w] = <<>>
                             /\ dataQueue[w] = <<>>
    BY DEF PublishedMeansQuiescent
  <2>2. /\ stage \in {"CLOSING", "COMPLETE"}
        /\ csvFiles = {[iteration |-> CsvIteration, rows |-> allResults]}
    BY <2>1 DEF IInv, LoopInv
  <2>3. Collected = N
    BY <2>2 DEF Collected, Collecting
  <2>4. Len(allResults) = N
    <3>1. allResults = [k \in 1 .. N |-> ResultsOf(k)] /\ allResults \in Seq(Row)
      BY <2>1, <2>3 DEF IInv, CollectInv, TypeOK
    <3>2. QED
      BY <3>1, NAssumption
  <2>5. ASSUME NEW w \in Workers
        PROVE  Idle(w, 4) /\ dataQueue[w] = <<>>
    <3>1. Sent(w) = 4 /\ Acked(w) = 4
      BY <2>2 DEF Sent, Acked, Collecting
    <3>2. Idle(w, 4)
      BY <2>1, <3>1 DEF IInv, NodeInv, At
    <3>3. ~(w > Collected)
      BY <2>3, NAssumption DEF Workers
    <3>4. QED
      BY <2>1, <3>2, <3>3 DEF IInv, CollectInv
  <2>6. QED
    BY <2>2, <2>4, <2>5 DEF Idle, After, Waiting
<1>2. QED
  BY <1>1, InductiveInvariant, PTL

(***************************************************************************)
(* While a node is inside DBConnector::run() the connector of every other  *)
(* node exists: the barriers after INIT and before GETRESULTS              *)
(* (SimulationController.cc, lines 89 to 100) keep initialisation,         *)
(* measurement and collection apart.                                       *)
(***************************************************************************)
THEOREM MeasuredTogether == Spec => MeasuresTogether
<1> DEFINE Together == \A w \in Workers : runs'[w] > runs[w] =>
                         \A v \in Workers : connector[v] = "live"
<1>1. IInv /\ [Next]_vars => [Together]_vars
  <2>1. SUFFICES ASSUME IInv, Next, NEW w \in Workers, runs'[w] > runs[w],
                        NEW v \in Workers
                 PROVE  connector[v] = "live"
    OBVIOUS
  <2>2. HandleGo(w)
    <3>1. ASSUME NEW u \in Workers, WorkerStep(u)
          PROVE  (runs' = runs) \/ HandleInit(u) \/ HandleGo(u)
      BY <3>1 DEF WorkerStep, StartWorker, ReceiveRequest, HandleGetResults, SendData,
         CloseData, HandleRestart, HandleExit, HandleUnknown, UndefinedUse, SendReply,
         CloseWorker
    <3>2. runs' # runs /\ \A u \in Workers : runs[u] \in Nat
      BY <2>1 DEF IInv, TypeOK, WorkerTypeOK
    <3>3. PICK u \in Workers : HandleInit(u) \/ HandleGo(u)
      BY <2>1, <3>1, <3>2 DEF Next, Terminated, workerVars, vars
    <3>4. u = w
      <4>1. u # w => runs'[w] = runs[w]
        BY <2>1, <3>3 DEF HandleInit, HandleGo, IInv, TypeOK, WorkerTypeOK
      <4>2. QED
        BY <2>1, <3>2, <4>1
    <3>5. ~HandleInit(w)
      BY <2>1, <3>2 DEF HandleInit, IInv, TypeOK, WorkerTypeOK
    <3>6. QED
      BY <3>3, <3>4, <3>5
  <2>3. Sent(w) = 2 /\ Acked(w) = 1
    <3>1. PICK k \in 0 .. 4 : At(w, k)
      BY <2>1 DEF IInv, NodeInv
    <3>2. QED
      BY <2>1, <2>2, <3>1, SentRange DEF HandleGo, Dispatch, IInv, At, Idle, Outstanding,
         Queued, Handling, Replying, Replied, Waiting, Command
  <2>4. Acked(v) \in 1 .. 2 /\ Sent(v) \in 1 .. 2
    BY <2>3 DEF Sent, Acked, Collecting
  <2>5. PICK k \in 0 .. 4 : At(v, k)
    BY <2>1 DEF IInv, NodeInv
  <2>6. After(v, 1) \/ After(v, 2)
    BY <2>4, <2>5 DEF At, Idle, Outstanding, Queued, Handling, Replying, Replied
  <2>7. QED
    BY <2>6 DEF After
<1>2. QED
  BY <1>1, InductiveInvariant, PTL DEF Spec, MeasuresTogether

-----------------------------------------------------------------------------
(***************************************************************************)
(* Proof, for every number of nodes, that every step of SimulationCluster  *)
(* is a step of BenchmarkPhases or leaves the phases alone.                *)
(***************************************************************************)

\* A node that has carried out k commands is at step k.
LEMMA StepIsCommandCount ==
  ASSUME NEW w \in Workers, NEW k \in 0 .. 4
  PROVE  After(w, k) => StepOf(w) = k
  BY DEF After, StepOf

\* The phases do not look at anything but the connector, the counters and
\* the state of the nodes.
LEMMA StepKept ==
  ASSUME connector' = connector, runs' = runs, state' = state
  PROVE  stepBar' = stepBar
  BY DEF stepBar, StepOf

\* The replies taken bound the steps from below.
LEMMA AckedReached ==
  ASSUME IInv, NEW v \in Workers
  PROVE  StepOf(v) \in 0 .. 4 /\ StepOf(v) >= Acked(v)
<1>1. PICK k \in 0 .. 4 : At(v, k)
  BY DEF IInv, NodeInv
<1>2. CASE Acked(v) = k /\ Idle(v, k)
  BY <1>2, StepIsCommandCount DEF Idle
<1>3. CASE Acked(v) = k - 1 /\ Outstanding(v, k)
  <2>1. k \in 1 .. 4
    BY <1>3, SentRange DEF IInv
  <2>2. After(v, k - 1) \/ After(v, k)
    BY <1>3 DEF Outstanding, Queued, Handling, Replying, Replied
  <2>3. StepOf(v) = k - 1 \/ StepOf(v) = k
    BY <2>1, <2>2, StepIsCommandCount
  <2>4. QED
    BY <1>3, <2>1, <2>3
<1>4. QED
  BY <1>1, <1>2, <1>3 DEF At

\* A node that handles its k-th command is at step k - 1, and every other node
\* has replied to the command before it.
LEMMA HandlingStep ==
  ASSUME IInv, NEW w \in Workers, pc[w] \in {"handle", "sendData", "closeData"}
  PROVE  \E k \in 1 .. 4 :
           /\ Sent(w) = k /\ Acked(w) = k - 1 /\ Handling(w, k) /\ StepOf(w) = k - 1
           /\ \A v \in Workers : StepOf(v) >= k - 1
<1>1. PICK k \in 0 .. 4 : At(w, k)
  BY DEF IInv, NodeInv
<1>2. k \in 1 .. 4 /\ Handling(w, k) /\ Sent(w) = k /\ Acked(w) = k - 1
  BY <1>1, SentRange DEF IInv, At, Idle, Outstanding, Queued, Replying, Replied, Waiting
<1>3. StepOf(w) = k - 1
  BY <1>2, StepIsCommandCount DEF Handling
<1>4. \A v \in Workers : Acked(v) >= k - 1
  BY <1>2 DEF Sent, Acked, Collecting
<1>5. \A v \in Workers : StepOf(v) >= k - 1
  BY <1>2, <1>4, AckedReached, SentRange DEF IInv
<1>6. QED
  BY <1>2, <1>3, <1>5

\* The controller has the results of the first Collected nodes.
LEMMA CollectedLength ==
  ASSUME IInv
  PROVE  /\ Collected \in 0 .. N
         /\ Len(collectedBar) = Collected
         /\ collectedBar = [k \in 1 .. Collected |-> k]
<1>1. Collected \in 0 .. N
  BY NAssumption DEF IInv, LoopInv, TypeOK, Collected, Collecting
<1>2. allResults = [k \in 1 .. Collected |-> ResultsOf(k)]
  BY DEF IInv, CollectInv
<1>3. DOMAIN allResults = 1 .. Collected
  BY <1>2
<1>4. collectedBar = [k \in 1 .. Collected |-> k]
  BY <1>2, <1>3 DEF collectedBar, ResultsOf
<1>5. Len(collectedBar) = Collected
  BY <1>1, <1>4
<1>6. QED
  BY <1>1, <1>4, <1>5

LEMMA NodeStepRefines ==
  ASSUME IInv, NEW w \in Workers, WorkerStep(w), UNCHANGED controllerVars
  PROVE  [Phases!PhasesNext]_Phases!phaseVars
<1> USE DEF controllerVars, Goto, Answer
<1>1. collectedBar' = collectedBar /\ publishedBar' = publishedBar
  BY DEF collectedBar, publishedBar
<1>2. CASE HandleInit(w)
  <2>1. StepOf(w) = 0 /\ stepBar' = [stepBar EXCEPT ![w] = 1]
    <3>1. PICK k \in 1 .. 4 : Handling(w, k) /\ StepOf(w) = k - 1
      BY <1>2, HandlingStep DEF HandleInit, Dispatch
    <3>2. k = 1
      BY <1>2, <3>1 DEF HandleInit, Dispatch, Handling, Command
    <3>3. StepOf(w)' = 1 /\ \A v \in Workers \ {w} : StepOf(v)' = StepOf(v)
      BY <1>2 DEF HandleInit, StepOf, IInv, TypeOK, WorkerTypeOK
    <3>4. stepBar' = [stepBar EXCEPT ![w] = 1]
      BY <3>3 DEF stepBar
    <3>5. QED
      BY <3>1, <3>2, <3>4
  <2>2. Phases!Initialise(w)
    BY <1>1, <2>1 DEF Phases!Initialise, Phases!Complete, stepBar
  <2>3. QED
    BY <2>2 DEF Phases!PhasesNext, Phases!Nodes, Workers
<1>3. CASE HandleGo(w)
  <2>1. PICK k \in 1 .. 4 : /\ Handling(w, k) /\ StepOf(w) = k - 1
                            /\ \A v \in Workers : StepOf(v) >= k - 1
    BY <1>3, HandlingStep DEF HandleGo, Dispatch
  <2>2. k = 2
    BY <1>3, <2>1 DEF HandleGo, Dispatch, Handling, Command
  <2>3. StepOf(w)' = 2 /\ \A v \in Workers \ {w} : StepOf(v)' = StepOf(v)
    BY <1>3, <2>1, <2>2 DEF HandleGo, StepOf, Handling, After, IInv, TypeOK, WorkerTypeOK
  <2>4. stepBar' = [stepBar EXCEPT ![w] = 2]
    BY <2>3 DEF stepBar
  <2>5. Phases!Measure(w)
    BY <1>1, <2>1, <2>2, <2>4
       DEF Phases!Measure, Phases!Complete, Phases!AllReached, Phases!Nodes, Workers, stepBar
  <2>6. QED
    BY <2>5 DEF Phases!PhasesNext, Phases!Nodes, Workers
<1>4. CASE CloseData(w)
  <2>1. PICK k \in 1 .. 4 : /\ Handling(w, k) /\ StepOf(w) = k - 1
                            /\ \A v \in Workers : StepOf(v) >= k - 1
    BY <1>4, HandlingStep DEF CloseData
  <2>2. k = 3
    BY <1>4, <2>1 DEF CloseData, Handling
  <2>3. StepOf(w)' = 3 /\ \A v \in Workers \ {w} : StepOf(v)' = StepOf(v)
    BY <1>4, <2>1, <2>2 DEF CloseData, StepOf, Handling, After, IInv, TypeOK, WorkerTypeOK
  <2>4. stepBar' = [stepBar EXCEPT ![w] = 3]
    BY <2>3 DEF stepBar
  <2>5. w <= Len(collectedBar) + 1
    <3>1. w <= Popped
      BY <1>4 DEF CloseData, ResultsSent, IInv, CollectInv
    <3>2. QED
      BY <3>1, CollectedLength DEF Popped, Workers
  <2>6. Phases!Release(w)
    BY <1>1, <2>1, <2>2, <2>4, <2>5
       DEF Phases!Release, Phases!Complete, Phases!AllReached, Phases!Nodes, Workers, stepBar
  <2>7. QED
    BY <2>6 DEF Phases!PhasesNext, Phases!Nodes, Workers
<1>5. CASE HandleExit(w)
  <2>1. PICK k \in 1 .. 4 : /\ Handling(w, k) /\ StepOf(w) = k - 1 /\ Sent(w) = k
                            /\ Acked(w) = k - 1
                            /\ \A v \in Workers : StepOf(v) >= k - 1
    BY <1>5, HandlingStep DEF HandleExit, Dispatch
  <2>2. k = 4
    BY <1>5, <2>1 DEF HandleExit, Dispatch, Handling, Command
  <2>3. StepOf(w)' = 4 /\ \A v \in Workers \ {w} : StepOf(v)' = StepOf(v)
    BY <1>5, <2>1, <2>2 DEF HandleExit, StepOf, Handling, After, IInv, TypeOK, WorkerTypeOK
  <2>4. stepBar' = [stepBar EXCEPT ![w] = 4]
    BY <2>3 DEF stepBar
  <2>5. Len(collectedBar) = N
    <3>1. Collected = N
      BY <2>1, <2>2 DEF Sent, Acked, Collected, Collecting
    <3>2. QED
      BY <3>1, CollectedLength
  <2>6. Phases!Exit(w)
    BY <1>1, <2>1, <2>2, <2>4, <2>5
       DEF Phases!Exit, Phases!Complete, Phases!AllReached, Phases!Nodes, Workers, stepBar
  <2>7. QED
    BY <2>6 DEF Phases!PhasesNext, Phases!Nodes, Workers
<1>6. CASE ~(HandleInit(w) \/ HandleGo(w) \/ CloseData(w) \/ HandleExit(w))
  <2>1. ~(HandleRestart(w) \/ HandleUnknown(w) \/ UndefinedUse(w))
    BY OnlyProtocolCommands
       DEF HandleRestart, HandleUnknown, UndefinedUse, Dispatch, Commands
  <2>2. connector' = connector /\ runs' = runs /\ state' = state
    BY <1>6, <2>1 DEF WorkerStep, StartWorker, ReceiveRequest, HandleGetResults, SendData,
       SendReply, CloseWorker
  <2>3. QED
    BY <1>1, <2>2, StepKept DEF Phases!phaseVars
<1>7. QED
  BY <1>2, <1>3, <1>4, <1>5, <1>6

LEMMA ControllerStepRefines ==
  ASSUME IInv, IInv', ControllerStep, UNCHANGED workerVars
  PROVE  [Phases!PhasesNext]_Phases!phaseVars
<1>1. stepBar' = stepBar
  BY StepKept DEF workerVars
<1>2. CASE ReceiveDataFromWorker
  <2>1. /\ it \in Workers /\ Collected = it - 1 /\ Collected' = it
        /\ publishedBar' = publishedBar
    BY <1>2 DEF ReceiveDataFromWorker, Collected, Collecting, publishedBar, IInv, LoopInv,
       TypeOK, Workers
  <2>2. /\ Len(collectedBar) = it - 1 /\ collectedBar = [k \in 1 .. it - 1 |-> k]
        /\ collectedBar' = [k \in 1 .. it |-> k]
    <3>1. allResults' = [k \in 1 .. it |-> ResultsOf(k)]
      BY <2>1 DEF IInv, CollectInv, ResultsOf
    <3>2. collectedBar' = [k \in 1 .. it |-> k]
      BY <3>1 DEF collectedBar, ResultsOf
    <3>3. QED
      BY <2>1, <3>2, CollectedLength
  <2>3. collectedBar' = Append(collectedBar, it)
    BY <2>1, <2>2 DEF Workers
  <2>4. \A v \in Workers : StepOf(v) >= 2
    <3>1. \A v \in Workers : Acked(v) = 2
      BY <1>2 DEF ReceiveDataFromWorker, Acked, Collecting
    <3>2. QED
      BY <3>1, AckedReached
  <2>5. Phases!Collect
    BY <1>1, <2>1, <2>2, <2>3, <2>4, NAssumption
       DEF Phases!Collect, Phases!AllReached, Phases!Nodes, Workers, stepBar
  <2>6. QED
    BY <2>5 DEF Phases!PhasesNext
<1>3. CASE MergeResults
  <2>1. collectedBar' = collectedBar /\ publishedBar' = TRUE /\ publishedBar = FALSE
    BY <1>3 DEF MergeResults, collectedBar, publishedBar, IInv, LoopInv
  <2>2. \A v \in Workers : StepOf(v) >= 4
    <3>1. \A v \in Workers : Acked(v) = 4
      BY <1>3 DEF MergeResults, Acked, Collecting
    <3>2. QED
      BY <3>1, AckedReached
  <2>3. Phases!Publish
    BY <1>1, <2>1, <2>2
       DEF Phases!Publish, Phases!AllReached, Phases!Nodes, Workers, stepBar
  <2>4. QED
    BY <2>3 DEF Phases!PhasesNext
<1>4. CASE ~ReceiveDataFromWorker /\ ~MergeResults
  <2>1. allResults' = allResults /\ csvFiles' = csvFiles
    BY <1>4 DEF ControllerStep, EndLoop, Connect, SendAllNodes, GetAllNodes, SendGetResults,
       ConnectDataHost, CloseController
  <2>2. QED
    BY <1>1, <2>1 DEF Phases!phaseVars, collectedBar, publishedBar
<1>5. QED
  BY <1>2, <1>3, <1>4

(***************************************************************************)
(* Every behaviour of the processes of SimulationController.cc and         *)
(* SimulationWorker.cc, seen through the objects the nodes hold, the       *)
(* results collected and the file written, goes through the phases in      *)
(* order.  (That it reaches their end is checked by TLC.)                  *)
(***************************************************************************)
THEOREM ImplementsPhasesSafely == Spec => Phases!PhasesSpec
<1>1. Init => Phases!PhasesInit
  <2>1. SUFFICES ASSUME Init PROVE Phases!PhasesInit
    OBVIOUS
  <2>2. stepBar = [w \in Workers |-> 0] /\ publishedBar = FALSE
    BY <2>1 DEF Init, WorkerInit, ControllerInit, stepBar, StepOf, publishedBar
  <2>3. collectedBar = <<>>
    BY <2>1 DEF Init, ControllerInit, collectedBar
  <2>4. QED
    BY <2>2, <2>3 DEF Phases!PhasesInit, Phases!Nodes, Workers
<1>2. IInv /\ IInv' /\ [Next]_vars => [Phases!PhasesNext]_Phases!phaseVars
  <2>1. SUFFICES ASSUME IInv, IInv', [Next]_vars
                 PROVE  [Phases!PhasesNext]_Phases!phaseVars
    OBVIOUS
  <2>2. CASE ControllerStep /\ UNCHANGED workerVars
    BY <2>1, <2>2, ControllerStepRefines
  <2>3. CASE \E w \in Workers : WorkerStep(w) /\ UNCHANGED controllerVars
    BY <2>1, <2>3, NodeStepRefines
  <2>4. CASE UNCHANGED vars
    <3>1. /\ connector' = connector /\ runs' = runs /\ state' = state
          /\ allResults' = allResults /\ csvFiles' = csvFiles
      BY <2>4 DEF vars, workerVars, controllerVars
    <3>2. QED
      BY <3>1, StepKept DEF Phases!phaseVars, collectedBar, publishedBar
  <2>5. QED
    BY <2>1, <2>2, <2>3, <2>4 DEF Next, Terminated
<1>3. QED
  BY <1>1, <1>2, InductiveInvariant, PTL DEF Spec, Phases!PhasesSpec

(***************************************************************************)
(* No node is more than one command ahead of another: the loops of run()   *)
(* (SimulationController.cc, lines 89 to 133) never send a command before  *)
(* every node has replied to the one before it.                            *)
(***************************************************************************)
THEOREM NodesInLockstep == Spec => []PhasesInLockstep
<1>1. IInv => PhasesInLockstep
  <2>1. SUFFICES ASSUME IInv, NEW v \in Workers, NEW w \in Workers
                 PROVE  StepOf(v) <= StepOf(w) + 1
    BY DEF PhasesInLockstep, Phases!Lockstep, Phases!Nodes, Workers, stepBar
  <2>2. StepOf(v) \in 0 .. 4 /\ StepOf(v) <= Sent(v)
    <3>1. PICK k \in 0 .. 4 : At(v, k)
      BY <2>1 DEF IInv, NodeInv
    <3>2. After(v, k) \/ (k \in 1 .. 4 /\ After(v, k - 1))
      BY <3>1, <2>1, SentRange
      DEF IInv, At, Idle, Outstanding, Queued, Handling, Replying, Replied
    <3>3. QED
      BY <3>1, <3>2, StepIsCommandCount DEF At
  <2>3. StepOf(w) \in 0 .. 4 /\ StepOf(w) >= Acked(w)
    BY <2>1, AckedReached
  <2>4. Sent(v) <= Acked(w) + 1
    BY <2>1 DEF Sent, Acked, Collecting
  <2>5. Sent(v) \in 0 .. 4 /\ Acked(w) \in 0 .. 4
    BY <2>1, SentRange DEF IInv
  <2>6. QED
    BY <2>2, <2>3, <2>4, <2>5
<1>2. QED
  BY <1>1, InductiveInvariant, PTL
=============================================================================
