-------------------------- MODULE ClusterInvariant --------------------------
(***************************************************************************)
(* The inductive invariant of SimulationCluster.  Where the controller is  *)
(* in run() determines how many commands it has sent to each node and how  *)
(* many replies it has taken; the difference is never more than one, and   *)
(* the state of a node, its queues and its place in the handler follow     *)
(* from the number of commands it has carried out.                         *)
(***************************************************************************)
EXTENDS SimulationCluster

Collecting == {"GETRESULTS", "DATACONNECT", "DATARECEIVE"}

\* The commands sent to node w so far.
Sent(w) ==
  IF stage = "CONNECT" \/ (stage = "INIT" /\ w >= it) THEN 0
  ELSE IF stage \in {"INIT", "INITDONE"} \/ (stage = "GO" /\ w >= it) THEN 1
  ELSE IF \/ stage \in {"GO", "RESULTSREADY"}
          \/ stage = "GETRESULTS" /\ w >= it
          \/ stage \in {"DATACONNECT", "DATARECEIVE"} /\ w > it THEN 2
  ELSE IF stage \in Collecting \cup {"DONERESULTS"} \/ (stage = "EXIT" /\ w >= it) THEN 3
  ELSE 4

\* The replies taken from node w so far.
Acked(w) ==
  IF stage \in {"CONNECT", "INIT"} \/ (stage = "INITDONE" /\ w >= it) THEN 0
  ELSE IF stage \in {"INITDONE", "GO"} \/ (stage = "RESULTSREADY" /\ w >= it) THEN 1
  ELSE IF \/ stage \in Collecting \cup {"RESULTSREADY"}
          \/ stage = "DONERESULTS" /\ w >= it THEN 2
  ELSE IF stage \in {"DONERESULTS", "EXIT"} \/ (stage = "EXITING" /\ w >= it) THEN 3
  ELSE 4

\* The k-th command of run() and the reply to it.
Command(k) ==
  IF k = 1 THEN "INIT" ELSE IF k = 2 THEN "GO" ELSE IF k = 3 THEN "GETRESULTS" ELSE "EXIT"

ReplyTo(k) ==
  IF k = 1 THEN "INITDONE" ELSE IF k = 2 THEN "RESULTSREADY"
  ELSE IF k = 3 THEN "DONERESULTS" ELSE "EXITING"

\* The members of a node that has carried out k commands.
After(w, k) ==
  /\ connector[w] = IF k = 0 THEN "uninitialised" ELSE IF k <= 2 THEN "live" ELSE "deleted"
  /\ runs[w] = IF k <= 1 THEN 0 ELSE 1
  /\ protobuf[w] = IF k <= 2 THEN "up" ELSE "down"
  /\ state[w] = IF k <= 1 THEN "START" ELSE IF k <= 3 THEN "RESULTS" ELSE "EXIT"

\* Where the thread of such a node may be between two commands.
Waiting(w, k) ==
  \/ k = 0 /\ pc[w] \in {"down", "receive"}
  \/ k \in 1 .. 3 /\ pc[w] = "receive"
  \/ k = 4 /\ pc[w] \in {"close", "exited"}

Idle(w, k) ==
  /\ After(w, k) /\ Waiting(w, k)
  /\ toWorker[w] = <<>> /\ toController[w] = <<>>

Queued(w, k) ==
  /\ After(w, k - 1) /\ Waiting(w, k - 1)
  /\ toWorker[w] = <<Command(k)>> /\ toController[w] = <<>>

Handling(w, k) ==
  /\ After(w, k - 1)
  /\ pc[w] = "handle" \/ (k = 3 /\ pc[w] \in {"sendData", "closeData"})
  /\ request[w] = Command(k)
  /\ toWorker[w] = <<>> /\ toController[w] = <<>>

Replying(w, k) ==
  /\ After(w, k)
  /\ pc[w] = "reply"
  /\ reply[w] = ReplyTo(k)
  /\ toWorker[w] = <<>> /\ toController[w] = <<>>

Replied(w, k) ==
  /\ After(w, k) /\ Waiting(w, k)
  /\ toWorker[w] = <<>> /\ toController[w] = <<ReplyTo(k)>>

\* The k-th command is outstanding at node w.
Outstanding(w, k) ==
  Queued(w, k) \/ Handling(w, k) \/ Replying(w, k) \/ Replied(w, k)

At(w, k) ==
  /\ Sent(w) = k
  /\ \/ Acked(w) = k /\ Idle(w, k)
     \/ Acked(w) = k - 1 /\ Outstanding(w, k)

(***************************************************************************)
(* At most one command is outstanding per node, and a node is as far as    *)
(* the loops of run() say (SimulationController.cc, lines 89 to 133).      *)
(***************************************************************************)
NodeInv ==
  \A w \in Workers : \E k \in 0 .. 4 : At(w, k)

\* The sockets that are open follow from where the processes are.
SocketInv ==
  /\ linked = {w \in Workers :
                 /\ stage = "CONNECT" => w < it
                 /\ stage = "CLOSING" => w >= it
                 /\ stage # "COMPLETE"}
  /\ bound = {w \in Workers : pc[w] \notin {"down", "exited"}}
  /\ dataBound = {w \in Workers : pc[w] \in {"sendData", "closeData"}}
  /\ dataLinked = IF stage = "DATARECEIVE" THEN it ELSE NoWorker

\* The results of node w have left it.
ResultsSent(w) == pc[w] = "closeData" \/ connector[w] = "deleted"

ResultsOf(w) == [hostname |-> w, runs |-> 1]

\* The number of nodes whose results the controller has.
Collected ==
  IF stage \in Collecting THEN it - 1
  ELSE IF stage \in {"CONNECT", "INIT", "INITDONE", "GO", "RESULTSREADY"} THEN 0
  ELSE N

\* The number of entries of dataHosts it has used.
Popped == IF stage = "DATARECEIVE" THEN Collected + 1 ELSE Collected

(***************************************************************************)
(* Results are on their way only from the node whose turn it is, and a     *)
(* collected node has sent its results (SimulationController.cc, lines 105 *)
(* to 121, and SimulationWorker.cc, lines 85 to 108).                      *)
(***************************************************************************)
CollectInv ==
  /\ allResults = [k \in 1 .. Collected |-> ResultsOf(k)]
  /\ dataHosts = [k \in 1 .. N - Popped |-> k + Popped]
  /\ \A w \in Workers :
       /\ w <= Collected => ResultsSent(w)
       /\ ResultsSent(w) => w <= Popped
       /\ dataQueue[w] = IF ResultsSent(w) /\ w > Collected
                           THEN <<ResultsOf(w)>> ELSE <<>>

LoopInv ==
  /\ stage \in {"DATACONNECT", "DATARECEIVE"} => it <= N
  /\ stage \in {"MERGING", "COMPLETE"} => it = 1
  /\ IF stage \in {"CLOSING", "COMPLETE"}
       THEN csvFiles = {[iteration |-> CsvIteration, rows |-> allResults]}
       ELSE csvFiles = {}

IInv == TypeOK /\ LoopInv /\ SocketInv /\ CollectInv /\ NodeInv
=============================================================================
