----------------------------- MODULE FaultProofs -----------------------------
(***************************************************************************)
(* Proofs, for any number of nodes and of faults of any kinds, that        *)
(* interrupted calls and killed processes do not bring the commands of a   *)
(* node out of order, nor the rows of the results out of their place.      *)
(***************************************************************************)
EXTENDS ClusterFaults, ClusterInvariant, TLAPS

-----------------------------------------------------------------------------
(***************************************************************************)
(* The inductive invariant of ClusterFaults.  Faults let the replies and   *)
(* the rounds of the controller drift apart, and nothing is left of the    *)
(* barriers of ClusterInvariant.  What is left: commands are lost only     *)
(* with the process that holds them, so a node that was not killed takes   *)
(* them in the order in which the loops of run() send them, and the rows   *)
(* are collected in the order of the hosts whatever the nodes do.          *)
(***************************************************************************)

FaultTypeOK ==
  /\ stage \in Stages
  /\ it \in 1 .. N + 1
  /\ toWorker \in [Workers -> Seq(Commands)]
  /\ toController \in [Workers -> Seq(Replies \cup {NoMessage})]
  /\ dataQueue \in [Workers -> Seq(Row)]
  /\ allResults \in Seq([hostname : Workers \cup {NoWorker}, runs : Nat])
  /\ WorkerTypeOK
  /\ faults \in Nat
  /\ happened \subseteq FaultKinds
  /\ restarted \subseteq Workers

Creating(w) == pc[w] = "handle" /\ request[w] = "INIT"
Measuring(w) == pc[w] = "handle" /\ request[w] = "GO"
Reporting(w) == pc[w] \in {"handle", "sendData", "closeData"} /\ request[w] = "GETRESULTS"

NoConnector == -1

\* The runs of the connector of w once w has done what it has taken.
RunsAhead(w) ==
  IF Creating(w) THEN 0
  ELSE IF connector[w] # "live" \/ Reporting(w) THEN NoConnector
  ELSE IF Measuring(w) THEN runs[w] + 1
  ELSE runs[w]

\* The same when the k-th command on its way to w comes to its turn.
RunsBefore(w, k) ==
  IF k = 1 THEN RunsAhead(w)
  ELSE IF toWorker[w][k - 1] = "INIT" THEN 0
  ELSE IF toWorker[w][k - 1] = "GO" THEN 1
  ELSE NoConnector

\* The command after the last of the queue is the next that the controller sends.
GoDue(w, k) == IF k <= Len(toWorker[w]) THEN toWorker[w][k] = "GO" ELSE Sent(w) = 1
ResultsDue(w, k) ==
  IF k <= Len(toWorker[w]) THEN toWorker[w][k] = "GETRESULTS" ELSE Sent(w) = 2

(***************************************************************************)
(* Each GO, on its way or yet to be sent, finds a connector that has not   *)
(* run, and each GETRESULTS one that has run once.                         *)
(***************************************************************************)
OrderInv(w) ==
  /\ \A k \in 1 .. Len(toWorker[w]) + 1 :
       /\ GoDue(w, k) => RunsBefore(w, k) = 0
       /\ ResultsDue(w, k) => RunsBefore(w, k) = 1
  /\ Measuring(w) => connector[w] = "live" /\ runs[w] = 0
  /\ Reporting(w) => connector[w] = "live" /\ runs[w] = 1

(***************************************************************************)
(* A controller that was not killed sends INIT once to each node, first of *)
(* all, and a node that is started again has no connector.                 *)
(***************************************************************************)
InitOnce(w) ==
  /\ Sent(w) = 0 => toWorker[w] = <<>> /\ connector[w] # "live" /\ ~Creating(w)
  /\ \A k \in 1 .. Len(toWorker[w]) :
       toWorker[w][k] = "INIT" => k = 1 /\ connector[w] # "live" /\ ~Creating(w)
  /\ Creating(w) => connector[w] # "live"

\* The rows on their way from w are its own.
RowsOnTheirWay(w) ==
  \A j \in 1 .. Len(dataQueue[w]) :
    /\ dataQueue[w][j].hostname = w
    /\ w \notin restarted => dataQueue[w][j].runs = 1

FaultNodeInv(w) ==
  /\ pc[w] \in {"sendData", "closeData"} => request[w] = "GETRESULTS"
  /\ w \notin restarted /\ pc[w] # "crashed" => OrderInv(w)
  /\ "controller" \notin happened => InitOnce(w)
  /\ RowsOnTheirWay(w)

\* Each turn of the collection loop takes one host and adds one row.
HostsInTurn ==
  /\ stage \in {"DATACONNECT", "DATARECEIVE"} => it <= N
  /\ Len(allResults) = Collected
  /\ dataHosts = [k \in 1 .. N - Popped |-> k + Popped]
  /\ dataLinked = IF stage = "DATARECEIVE" THEN it ELSE NoWorker

FaultIInv ==
  /\ FaultTypeOK
  /\ HostsInTurn
  /\ RowsKeepTheirPlace
  /\ \A w \in Workers : FaultNodeInv(w)

-----------------------------------------------------------------------------
(***************************************************************************)
(* Queues.                                                                 *)
(***************************************************************************)
LEMMA TailOfQueue ==
  ASSUME NEW S, NEW q \in Seq(S), q # <<>>
  PROVE  /\ Len(q) \in Nat /\ Len(q) >= 1
         /\ Head(q) = q[1] /\ Head(q) \in S
         /\ Tail(q) \in Seq(S) /\ Len(Tail(q)) = Len(q) - 1
         /\ \A k \in 1 .. Len(q) - 1 : Tail(q)[k] = q[k + 1]
OBVIOUS

LEMMA AppendToQueue ==
  ASSUME NEW S, NEW q \in Seq(S), NEW x \in S
  PROVE  /\ Len(q) \in Nat
         /\ Append(q, x) \in Seq(S) /\ Len(Append(q, x)) = Len(q) + 1
         /\ Append(q, x)[Len(q) + 1] = x
         /\ \A k \in 1 .. Len(q) : Append(q, x)[k] = q[k]
OBVIOUS

LEMMA PrefixOfQueue ==
  ASSUME NEW S, NEW q \in Seq(S), NEW p \in Prefixes(q)
  PROVE  /\ p \in Seq(S) /\ Len(p) \in 0 .. Len(q) /\ Len(q) \in Nat
         /\ \A k \in 1 .. Len(p) : p[k] = q[k]
<1>1. PICK n \in 0 .. Len(q) : p = SubSeq(q, 1, n)
  BY DEF Prefixes
<1>2. QED
  BY <1>1

LEMMA SuffixOfQueue ==
  ASSUME NEW S, NEW q \in Seq(S), NEW p \in Suffixes(q)
  PROVE  \E n \in 0 .. Len(q) :
           /\ p \in Seq(S) /\ Len(p) = Len(q) - n /\ Len(q) \in Nat
           /\ \A k \in 1 .. Len(p) : p[k] = q[k + n]
<1>1. PICK n \in 0 .. Len(q) : p = SubSeq(q, n + 1, Len(q))
  BY DEF Suffixes
<1>2. Len(q) \in Nat
  OBVIOUS
<1>3. p \in Seq(S) /\ Len(p) = Len(q) - n
  BY <1>1, <1>2
<1>4. ASSUME NEW k \in 1 .. Len(p)
      PROVE  p[k] = q[k + n]
  BY <1>1, <1>2, <1>3
<1>5. QED
  BY <1>2, <1>3, <1>4

-----------------------------------------------------------------------------
(***************************************************************************)
(* Steps of a node.                                                        *)
(***************************************************************************)
SameNode(v) ==
  /\ pc'[v] = pc[v] /\ request'[v] = request[v] /\ connector'[v] = connector[v]
  /\ runs'[v] = runs[v] /\ toWorker'[v] = toWorker[v] /\ dataQueue'[v] = dataQueue[v]

\* Faults are added to the history, never taken out.
HistoryGrows == happened \subseteq happened' /\ restarted \subseteq restarted'

\* The queues of w stay as they are, and it is as far as it was.
LEMMA HandlerStep ==
  ASSUME NEW w, FaultNodeInv(w), HistoryGrows,
         toWorker'[w] = toWorker[w], dataQueue'[w] = dataQueue[w], Sent(w)' = Sent(w),
         pc'[w] \in {"sendData", "closeData"} => request'[w] = "GETRESULTS",
         w \notin restarted' /\ pc'[w] # "crashed" =>
           /\ pc[w] # "crashed"
           /\ OrderInv(w) => /\ RunsAhead(w)' = RunsAhead(w)
                             /\ Measuring(w)' => connector'[w] = "live" /\ runs'[w] = 0
                             /\ Reporting(w)' => connector'[w] = "live" /\ runs'[w] = 1,
         connector'[w] = "live" => connector[w] = "live" \/ Creating(w),
         Creating(w)' => Creating(w) /\ connector'[w] = connector[w]
  PROVE  FaultNodeInv(w)'
<1>1. w \notin restarted' /\ pc'[w] # "crashed" => OrderInv(w)'
  <2>1. SUFFICES ASSUME w \notin restarted', pc'[w] # "crashed"
                 PROVE  OrderInv(w)'
    OBVIOUS
  <2>2. OrderInv(w)
    BY <2>1 DEF FaultNodeInv, HistoryGrows
  <2>3. \A k : /\ RunsBefore(w, k)' = RunsBefore(w, k)
               /\ GoDue(w, k)' = GoDue(w, k) /\ ResultsDue(w, k)' = ResultsDue(w, k)
    BY <2>1, <2>2 DEF RunsBefore, GoDue, ResultsDue
  <2>4. QED
    BY <2>1, <2>2, <2>3 DEF OrderInv
<1>2. "controller" \notin happened' => InitOnce(w)'
  BY DEF FaultNodeInv, HistoryGrows, InitOnce
<1>3. RowsOnTheirWay(w)'
  BY DEF FaultNodeInv, HistoryGrows, RowsOnTheirWay
<1>4. QED
  BY <1>1, <1>2, <1>3 DEF FaultNodeInv

LEMMA SentFrame ==
  ASSUME stage' = stage, it' = it
  PROVE  /\ \A v : Sent(v)' = Sent(v)
         /\ Collected' = Collected /\ Popped' = Popped
BY DEF Sent, Collected, Popped

LEMMA OtherNode ==
  ASSUME NEW v, FaultNodeInv(v), SameNode(v), HistoryGrows, Sent(v)' = Sent(v)
  PROVE  FaultNodeInv(v)'
<1>1. /\ RunsAhead(v)' = RunsAhead(v) /\ Creating(v)' = Creating(v)
      /\ Measuring(v)' = Measuring(v) /\ Reporting(v)' = Reporting(v)
  BY DEF SameNode, RunsAhead, Creating, Measuring, Reporting
<1>2. QED
  BY <1>1, HandlerStep DEF FaultNodeInv, SameNode, OrderInv

\* A step of node w.
LEMMA NodeFrame ==
  ASSUME FaultIInv, NEW w \in Workers, HistoryGrows,
         UNCHANGED controllerVars, dataLinked' = dataLinked,
         \A v \in Workers \ {w} : SameNode(v), FaultTypeOK', FaultNodeInv(w)'
  PROVE  FaultIInv'
<1>1. /\ stage' = stage /\ it' = it /\ dataHosts' = dataHosts /\ allResults' = allResults
      /\ csvFiles' = csvFiles
  BY DEF controllerVars
<1>2. HostsInTurn'
  BY <1>1, SentFrame DEF FaultIInv, HostsInTurn
<1>3. RowsKeepTheirPlace'
  BY <1>1 DEF FaultIInv, RowsKeepTheirPlace, HistoryGrows
<1>4. \A v \in Workers \ {w} : FaultNodeInv(v)'
  BY <1>1, SentFrame, OtherNode DEF FaultIInv
<1>5. QED
  BY <1>2, <1>3, <1>4 DEF FaultIInv

\* What a node does between taking a command and answering it, faults and
\* crashes of its own included: its queues stay as they are.
LEMMA QuietStep ==
  ASSUME FaultIInv, NEW w \in Workers,
         \/ StartWorker(w) \/ HandleInit(w) \/ HandleGo(w) \/ HandleGetResults(w)
         \/ CloseData(w) \/ HandleRestart(w) \/ HandleExit(w) \/ HandleUnknown(w)
         \/ UndefinedUse(w) \/ CloseWorker(w)
  PROVE  /\ toWorker' = toWorker /\ toController' = toController
         /\ dataQueue' = dataQueue /\ dataLinked' = dataLinked
         /\ WorkerTypeOK'
         /\ \A v \in Workers \ {w} : SameNode(v)
         /\ pc'[w] \in {"sendData", "closeData"} => request'[w] = "GETRESULTS"
         /\ w \notin restarted /\ pc'[w] # "crashed" =>
              /\ pc[w] # "crashed"
              /\ OrderInv(w) => /\ RunsAhead(w)' = RunsAhead(w)
                                /\ Measuring(w)' => connector'[w] = "live" /\ runs'[w] = 0
                                /\ Reporting(w)' => connector'[w] = "live" /\ runs'[w] = 1
         /\ connector'[w] = "live" => connector[w] = "live" \/ Creating(w)
         /\ Creating(w)' => Creating(w) /\ connector'[w] = connector[w]
<1> USE DEF FaultIInv, FaultTypeOK, WorkerTypeOK, SameNode, Goto, Answer, Dispatch
<1> USE DEF RunsAhead, Creating, Measuring, Reporting, NoConnector
<1> USE DEF mqVars, commandVars, dataVars
<1>1. CASE StartWorker(w)
  BY <1>1 DEF StartWorker, BindCommand
<1>2. CASE HandleInit(w)
  BY <1>2 DEF HandleInit, Replies
<1>3. CASE HandleGo(w)
  BY <1>3 DEF HandleGo, Replies, OrderInv
<1>4. CASE HandleGetResults(w)
  BY <1>4 DEF HandleGetResults, BindData, OrderInv
<1>5. CASE CloseData(w)
  BY <1>5 DEF CloseData, CloseDataAtWorker, Replies, FaultNodeInv
<1>6. CASE HandleRestart(w)
  BY <1>6 DEF HandleRestart, Replies
<1>7. CASE HandleExit(w)
  BY <1>7 DEF HandleExit, Replies
<1>8. CASE HandleUnknown(w)
  BY <1>8 DEF HandleUnknown, Commands
<1>9. CASE UndefinedUse(w)
  BY <1>9 DEF UndefinedUse
<1>10. CASE CloseWorker(w)
  BY <1>10 DEF CloseWorker, CloseCommandAtWorker
<1>11. QED
  BY <1>1, <1>2, <1>3, <1>4, <1>5, <1>6, <1>7, <1>8, <1>9, <1>10

LEMMA QuietStepKeeps ==
  ASSUME FaultIInv, NEW w \in Workers, UNCHANGED controllerVars, UNCHANGED faultHistory,
         \/ StartWorker(w) \/ HandleInit(w) \/ HandleGo(w) \/ HandleGetResults(w)
         \/ CloseData(w) \/ HandleRestart(w) \/ HandleExit(w) \/ HandleUnknown(w)
         \/ UndefinedUse(w) \/ CloseWorker(w)
  PROVE  FaultIInv'
<1>1. /\ stage' = stage /\ it' = it /\ allResults' = allResults
      /\ faults' = faults /\ happened' = happened /\ restarted' = restarted
  BY DEF controllerVars, faultHistory
<1>2. FaultTypeOK'
  BY <1>1, QuietStep DEF FaultIInv, FaultTypeOK
<1>3. HistoryGrows
  BY <1>1 DEF HistoryGrows
<1>4. FaultNodeInv(w)'
  <2>1. Sent(w)' = Sent(w) /\ FaultNodeInv(w)
    BY <1>1, SentFrame DEF FaultIInv
  <2>2. QED
    BY <1>1, <1>3, <2>1, QuietStep, HandlerStep
<1>5. QED
  BY <1>2, <1>3, <1>4, QuietStep, NodeFrame

\* The steps of a node that touch one of its queues, or fail to.
LEMMA ReceiveRequestKeeps ==
  ASSUME FaultIInv, NEW w \in Workers, UNCHANGED controllerVars, UNCHANGED faultHistory,
         ReceiveRequest(w)
  PROVE  FaultIInv'
<1> DEFINE q == toWorker[w]
<1>1. /\ stage' = stage /\ it' = it /\ allResults' = allResults
      /\ faults' = faults /\ happened' = happened /\ restarted' = restarted
  BY DEF controllerVars, faultHistory
<1>2. /\ pc[w] = "receive" /\ pc' = [pc EXCEPT ![w] = "handle"]
      /\ q # <<>> /\ toWorker' = [toWorker EXCEPT ![w] = Tail(q)]
      /\ request' = [request EXCEPT ![w] = Head(q)]
      /\ state' = state /\ connector' = connector /\ runs' = runs /\ protobuf' = protobuf
      /\ reply' = reply /\ toController' = toController
      /\ dataQueue' = dataQueue /\ dataLinked' = dataLinked
  BY DEF ReceiveRequest, ReceiveCommand, Goto, dataVars
<1>3. /\ Len(q) \in Nat /\ Len(q) >= 1 /\ Head(q) = q[1] /\ Head(q) \in Commands
      /\ Tail(q) \in Seq(Commands) /\ Len(Tail(q)) = Len(q) - 1
      /\ \A k \in 1 .. Len(q) - 1 : Tail(q)[k] = q[k + 1]
  BY <1>2, TailOfQueue DEF FaultIInv, FaultTypeOK
<1> HIDE DEF q
<1>4. FaultTypeOK'
  <2>1. toWorker' \in [Workers -> Seq(Commands)] /\ WorkerTypeOK'
    BY <1>2, <1>3 DEF FaultIInv, FaultTypeOK, WorkerTypeOK
  <2>2. QED
    BY <1>1, <1>2, <2>1 DEF FaultIInv, FaultTypeOK
<1>5. HistoryGrows /\ \A v \in Workers \ {w} : SameNode(v)
  BY <1>1, <1>2 DEF HistoryGrows, SameNode, FaultIInv, FaultTypeOK, WorkerTypeOK
<1>6. /\ toWorker'[w] = Tail(q) /\ toWorker[w] = q
      /\ pc'[w] = "handle" /\ request'[w] = q[1]
      /\ connector'[w] = connector[w] /\ runs'[w] = runs[w] /\ runs[w] \in Nat
      /\ Sent(w)' = Sent(w) /\ dataQueue'[w] = dataQueue[w]
  BY <1>1, <1>2, <1>3, SentFrame DEF FaultIInv, FaultTypeOK, WorkerTypeOK, q
<1>7. FaultNodeInv(w)
  BY DEF FaultIInv
<1>8. ~Creating(w) /\ ~Measuring(w) /\ ~Reporting(w)
  BY <1>2 DEF Creating, Measuring, Reporting
<1>9. w \notin restarted => OrderInv(w)'
  <2>1. SUFFICES ASSUME w \notin restarted
                 PROVE  OrderInv(w)'
    OBVIOUS
  <2>2. OrderInv(w)
    BY <1>2, <1>7, <2>1 DEF FaultNodeInv
  <2>3. /\ q[1] = "GO" => RunsAhead(w) = 0
        /\ q[1] = "GETRESULTS" => RunsAhead(w) = 1
    <3>1. 1 \in 1 .. Len(toWorker[w]) + 1 /\ RunsBefore(w, 1) = RunsAhead(w)
      BY <1>3, <1>6 DEF RunsBefore
    <3>2. /\ GoDue(w, 1) = (q[1] = "GO")
          /\ ResultsDue(w, 1) = (q[1] = "GETRESULTS")
      BY <1>3, <1>6 DEF GoDue, ResultsDue
    <3>3. QED
      BY <2>2, <3>1, <3>2 DEF OrderInv
  <2>4. RunsAhead(w) = IF connector[w] # "live" THEN NoConnector ELSE runs[w]
    BY <1>8 DEF RunsAhead
  \* What the node has taken it no longer expects.
  <2>5. RunsBefore(w, 2) # NoConnector => RunsAhead(w)' = RunsBefore(w, 2)
    <3>1. RunsBefore(w, 2) = IF q[1] = "INIT" THEN 0 ELSE IF q[1] = "GO" THEN 1 ELSE NoConnector
      BY <1>6 DEF RunsBefore
    <3>2. CASE q[1] = "INIT"
      BY <1>6, <3>1, <3>2 DEF RunsAhead, Creating
    <3>3. CASE q[1] = "GO"
      BY <1>6, <2>3, <2>4, <3>1, <3>3
         DEF RunsAhead, Creating, Measuring, Reporting, NoConnector
    <3>4. QED
      BY <3>1, <3>2, <3>3
  <2>6. ASSUME NEW k \in 1 .. Len(q)
        PROVE  /\ RunsBefore(w, k + 1) # NoConnector => RunsBefore(w, k)' = RunsBefore(w, k + 1)
               /\ GoDue(w, k)' = GoDue(w, k + 1) /\ ResultsDue(w, k)' = ResultsDue(w, k + 1)
    <3>1. /\ GoDue(w, k)' = GoDue(w, k + 1) /\ ResultsDue(w, k)' = ResultsDue(w, k + 1)
      <4>1. k + 1 <= Len(q) <=> k <= Len(Tail(q))
        BY <1>3
      <4>2. k <= Len(Tail(q)) => Tail(q)[k] = q[k + 1]
        BY <1>3
      <4>3. QED
        BY <1>6, <4>1, <4>2 DEF GoDue, ResultsDue
    <3>2. CASE k = 1
      BY <2>5, <3>1, <3>2 DEF RunsBefore
    <3>3. CASE k # 1
      <4>1. k - 1 \in 1 .. Len(q) - 1 /\ k + 1 # 1
        BY <1>3, <3>3
      <4>2. Tail(q)[k - 1] = q[k]
        BY <1>3, <4>1
      <4>3. RunsBefore(w, k)' = RunsBefore(w, k + 1)
        BY <1>6, <3>3, <4>1, <4>2 DEF RunsBefore
      <4>4. QED
        BY <3>1, <4>3
    <3>4. QED
      BY <3>2, <3>3
  <2>7. ASSUME NEW k \in 1 .. Len(q)
        PROVE  /\ GoDue(w, k)' => RunsBefore(w, k)' = 0
               /\ ResultsDue(w, k)' => RunsBefore(w, k)' = 1
    <3>1. k + 1 \in 1 .. Len(toWorker[w]) + 1
      BY <1>3, <1>6
    <3>2. QED
      BY <2>2, <2>6, <3>1 DEF OrderInv, NoConnector
  <2>8. /\ Measuring(w)' => connector[w] = "live" /\ runs[w] = 0
        /\ Reporting(w)' => connector[w] = "live" /\ runs[w] = 1
    BY <1>6, <2>3, <2>4 DEF Measuring, Reporting, NoConnector
  <2>9. Len(toWorker'[w]) + 1 = Len(q)
    BY <1>3, <1>6
  <2>10. QED
    BY <1>6, <2>7, <2>8, <2>9 DEF OrderInv
<1>10. "controller" \notin happened => InitOnce(w)'
  <2>1. SUFFICES ASSUME "controller" \notin happened
                 PROVE  InitOnce(w)'
    OBVIOUS
  <2>2. InitOnce(w)
    BY <1>7, <2>1 DEF FaultNodeInv
  <2>3. Sent(w)' # 0
    BY <1>2, <1>6, <2>2 DEF InitOnce
  <2>4. 1 \in 1 .. Len(q)
    BY <1>3
  <2>5. Creating(w)' => connector'[w] # "live"
    BY <1>6, <2>2, <2>4 DEF InitOnce, Creating
  <2>6. \A k \in 1 .. Len(Tail(q)) : Tail(q)[k] # "INIT"
    <3>1. SUFFICES ASSUME NEW k \in 1 .. Len(Tail(q)), Tail(q)[k] = "INIT"
                   PROVE  FALSE
      OBVIOUS
    <3>2. k + 1 \in 1 .. Len(q) /\ q[k + 1] = "INIT" /\ k + 1 # 1
      BY <1>3, <3>1
    <3>3. QED
      BY <1>6, <2>2, <3>2 DEF InitOnce
  <2>7. QED
    BY <1>6, <2>3, <2>5, <2>6 DEF InitOnce
<1>11. FaultNodeInv(w)'
  <2>1. RowsOnTheirWay(w)'
    BY <1>1, <1>6, <1>7 DEF FaultNodeInv, RowsOnTheirWay
  <2>2. QED
    BY <1>1, <1>6, <1>9, <1>10, <2>1 DEF FaultNodeInv
<1>12. QED
  BY <1>2, <1>4, <1>5, <1>11, NodeFrame

LEMMA SendReplyKeeps ==
  ASSUME FaultIInv, NEW w \in Workers, UNCHANGED controllerVars, UNCHANGED faultHistory,
         SendReply(w) \/ SendReplyLost(w)
  PROVE  FaultIInv'
<1>1. /\ stage' = stage /\ it' = it /\ allResults' = allResults
      /\ faults' = faults /\ happened' = happened /\ restarted' = restarted
  BY DEF controllerVars, faultHistory
<1>2. /\ pc[w] = "reply" /\ \E l \in {"close", "receive"} : pc' = [pc EXCEPT ![w] = l]
      /\ toWorker' = toWorker /\ dataQueue' = dataQueue /\ dataLinked' = dataLinked
      /\ \/ toController' = toController
         \/ toController' = [toController EXCEPT ![w] = Append(@, reply[w])]
      /\ state' = state /\ connector' = connector /\ runs' = runs /\ protobuf' = protobuf
      /\ request' = request /\ reply' = reply
  BY DEF SendReply, SendReplyLost, SendToController, Goto, mqVars, commandVars, dataVars
<1>3. WorkerTypeOK' /\ reply[w] \in Replies \cup {NoMessage}
  BY <1>2 DEF FaultIInv, FaultTypeOK, WorkerTypeOK
<1>4. toController' \in [Workers -> Seq(Replies \cup {NoMessage})]
  <2>1. toController \in [Workers -> Seq(Replies \cup {NoMessage})]
    BY DEF FaultIInv, FaultTypeOK
  <2>2. Append(toController[w], reply[w]) \in Seq(Replies \cup {NoMessage})
    BY <1>3, <2>1, AppendToQueue
  <2>3. QED
    BY <1>2, <2>1, <2>2
<1>5. FaultTypeOK'
  BY <1>1, <1>2, <1>3, <1>4 DEF FaultIInv, FaultTypeOK
<1>6. HistoryGrows /\ \A v \in Workers \ {w} : SameNode(v)
  BY <1>1, <1>2 DEF HistoryGrows, SameNode, FaultIInv, FaultTypeOK, WorkerTypeOK
<1>7. pc'[w] \in {"close", "receive"}
  BY <1>2 DEF FaultIInv, FaultTypeOK, WorkerTypeOK
<1>8. RunsAhead(w)' = RunsAhead(w) /\ ~Creating(w)' /\ ~Measuring(w)' /\ ~Reporting(w)'
  BY <1>2, <1>7 DEF RunsAhead, Creating, Measuring, Reporting
<1>9. FaultNodeInv(w)'
  <2>1. Sent(w)' = Sent(w) /\ FaultNodeInv(w)
    BY <1>1, SentFrame DEF FaultIInv
  <2>2. QED
    BY <1>2, <1>6, <1>7, <1>8, <2>1, HandlerStep
<1>10. QED
  BY <1>2, <1>5, <1>6, <1>9, NodeFrame

LEMMA SendDataKeeps ==
  ASSUME FaultIInv, NEW w \in Workers, UNCHANGED controllerVars, UNCHANGED faultHistory,
         SendData(w)
  PROVE  FaultIInv'
<1> DEFINE row == Results(w)
<1>1. /\ stage' = stage /\ it' = it /\ allResults' = allResults
      /\ faults' = faults /\ happened' = happened /\ restarted' = restarted
  BY DEF controllerVars, faultHistory
<1>2. /\ pc[w] = "sendData" /\ pc' = [pc EXCEPT ![w] = "closeData"]
      /\ dataQueue' = [dataQueue EXCEPT ![w] = Append(@, row)]
      /\ toWorker' = toWorker /\ toController' = toController /\ dataLinked' = dataLinked
      /\ state' = state /\ connector' = connector /\ runs' = runs /\ protobuf' = protobuf
      /\ request' = request /\ reply' = reply
  BY DEF SendData, SendResults, Goto, commandVars
<1>3. row \in Row /\ row.hostname = w /\ row.runs = runs[w]
  BY DEF Results, Row, FaultIInv, FaultTypeOK, WorkerTypeOK
<1>4. FaultNodeInv(w)
  BY DEF FaultIInv
<1>5. Reporting(w) /\ Reporting(w)' /\ ~Creating(w)' /\ ~Measuring(w)'
  BY <1>2, <1>4
     DEF FaultNodeInv, Reporting, Creating, Measuring, FaultIInv, FaultTypeOK, WorkerTypeOK
<1>6. w \notin restarted => row.runs = 1 /\ connector[w] = "live" /\ runs[w] = 1
  BY <1>2, <1>3, <1>4, <1>5 DEF FaultNodeInv, OrderInv
<1> HIDE DEF row
<1>7. /\ Len(dataQueue[w]) \in Nat /\ dataQueue'[w] \in Seq(Row)
      /\ Len(dataQueue'[w]) = Len(dataQueue[w]) + 1
      /\ dataQueue'[w][Len(dataQueue[w]) + 1] = row
      /\ \A j \in 1 .. Len(dataQueue[w]) : dataQueue'[w][j] = dataQueue[w][j]
  BY <1>2, <1>3, AppendToQueue DEF FaultIInv, FaultTypeOK
<1>8. FaultTypeOK'
  <2>1. WorkerTypeOK'
    BY <1>2 DEF FaultIInv, FaultTypeOK, WorkerTypeOK
  <2>2. dataQueue' \in [Workers -> Seq(Row)]
    BY <1>2, <1>7 DEF FaultIInv, FaultTypeOK
  <2>3. QED
    BY <1>1, <1>2, <2>1, <2>2 DEF FaultIInv, FaultTypeOK
<1>9. HistoryGrows /\ \A v \in Workers \ {w} : SameNode(v)
  BY <1>1, <1>2 DEF HistoryGrows, SameNode, FaultIInv, FaultTypeOK, WorkerTypeOK
<1>10. RowsOnTheirWay(w)'
  <2>1. ASSUME NEW j \in 1 .. Len(dataQueue[w]) + 1
        PROVE  /\ dataQueue'[w][j].hostname = w
               /\ w \notin restarted => dataQueue'[w][j].runs = 1
    <3>1. CASE j = Len(dataQueue[w]) + 1
      BY <1>3, <1>6, <1>7, <3>1
    <3>2. CASE j \in 1 .. Len(dataQueue[w])
      BY <1>4, <1>7, <3>2 DEF FaultNodeInv, RowsOnTheirWay
    <3>3. QED
      BY <1>7, <3>1, <3>2
  <2>2. QED
    BY <1>1, <1>7, <2>1 DEF RowsOnTheirWay
<1>11. w \notin restarted => OrderInv(w)'
  <2>1. w \notin restarted => OrderInv(w)
    BY <1>2, <1>4 DEF FaultNodeInv
  <2>2. RunsAhead(w)' = RunsAhead(w) /\ toWorker' = toWorker /\ Sent(w)' = Sent(w)
    BY <1>1, <1>2, <1>5, SentFrame DEF RunsAhead, Creating, Reporting
  <2>3. \A k : /\ RunsBefore(w, k)' = RunsBefore(w, k)
               /\ GoDue(w, k)' = GoDue(w, k) /\ ResultsDue(w, k)' = ResultsDue(w, k)
    BY <2>2 DEF RunsBefore, GoDue, ResultsDue
  <2>4. QED
    BY <1>2, <1>5, <1>6, <2>1, <2>3 DEF OrderInv
<1>12. "controller" \notin happened => InitOnce(w)'
  <2>1. "controller" \notin happened => InitOnce(w)
    BY <1>4 DEF FaultNodeInv
  <2>2. Sent(w)' = Sent(w)
    BY <1>1, SentFrame
  <2>3. QED
    BY <1>2, <1>5, <2>1, <2>2 DEF InitOnce
<1>13. FaultNodeInv(w)'
  BY <1>1, <1>2, <1>4, <1>10, <1>11, <1>12
     DEF FaultNodeInv, FaultIInv, FaultTypeOK, WorkerTypeOK
<1>14. QED
  BY <1>2, <1>8, <1>9, <1>13, NodeFrame

\* An interrupted call of a node.
LEMMA InterruptedNodeKeeps ==
  ASSUME FaultIInv, NEW w \in Workers, UNCHANGED controllerVars,
         ReceiveRequestInterrupted(w) \/ SendDataInterrupted(w)
  PROVE  FaultIInv'
<1>1. /\ stage' = stage /\ it' = it /\ allResults' = allResults
      /\ faults' = faults + 1 /\ restarted' = restarted
      /\ happened \subseteq happened' /\ happened' \subseteq FaultKinds
  BY DEF controllerVars, ReceiveRequestInterrupted, SendDataInterrupted, Fault, FaultIInv,
         FaultTypeOK
<1>2. /\ toWorker' = toWorker /\ toController' = toController
      /\ dataQueue' = dataQueue /\ dataLinked' = dataLinked
      /\ state' = state /\ connector' = connector /\ runs' = runs /\ protobuf' = protobuf
      /\ reply' = reply
  BY DEF ReceiveRequestInterrupted, SendDataInterrupted, mqVars, commandVars, dataVars
<1>3. \/ /\ pc[w] = "receive" /\ pc' = [pc EXCEPT ![w] = "handle"]
         /\ request' = [request EXCEPT ![w] = NoMessage]
      \/ pc[w] = "sendData" /\ pc' = [pc EXCEPT ![w] = "closeData"] /\ request' = request
  BY DEF ReceiveRequestInterrupted, SendDataInterrupted, Goto
<1>4. WorkerTypeOK'
  BY <1>2, <1>3 DEF FaultIInv, FaultTypeOK, WorkerTypeOK
<1>5. FaultTypeOK'
  BY <1>1, <1>2, <1>4 DEF FaultIInv, FaultTypeOK
<1>6. HistoryGrows /\ \A v \in Workers \ {w} : SameNode(v)
  BY <1>1, <1>2, <1>3 DEF HistoryGrows, SameNode, FaultIInv, FaultTypeOK, WorkerTypeOK
<1>7. FaultNodeInv(w) /\ Sent(w)' = Sent(w)
  BY <1>1, SentFrame DEF FaultIInv
<1>8. CASE /\ pc[w] = "receive" /\ pc'[w] = "handle" /\ request'[w] = NoMessage
  <2>1. RunsAhead(w)' = RunsAhead(w) /\ ~Creating(w)' /\ ~Measuring(w)' /\ ~Reporting(w)'
    BY <1>2, <1>8 DEF RunsAhead, Creating, Measuring, Reporting, NoMessage
  <2>2. FaultNodeInv(w)'
    BY <1>2, <1>6, <1>7, <1>8, <2>1, HandlerStep
  <2>3. QED
    BY <1>1, <1>2, <1>5, <1>6, <2>2, NodeFrame
<1>9. CASE pc[w] = "sendData" /\ pc'[w] = "closeData" /\ request' = request
  <2>1. Reporting(w) /\ request[w] = "GETRESULTS"
    BY <1>7, <1>9 DEF FaultNodeInv, Reporting
  <2>2. /\ RunsAhead(w)' = RunsAhead(w) /\ ~Creating(w)' /\ ~Measuring(w)'
    BY <1>2, <1>9, <2>1 DEF RunsAhead, Creating, Measuring, Reporting
  <2>3. FaultNodeInv(w)'
    BY <1>2, <1>6, <1>7, <1>9, <2>1, <2>2, HandlerStep DEF OrderInv
  <2>4. QED
    BY <1>1, <1>2, <1>5, <1>6, <2>3, NodeFrame
<1>10. QED
  BY <1>3, <1>8, <1>9 DEF FaultIInv, FaultTypeOK, WorkerTypeOK

\* A node is killed, and the prefix of its queue that had reached it is lost.
LEMMA WorkerCrashKeeps ==
  ASSUME FaultIInv, NEW w \in Workers, UNCHANGED controllerVars, WorkerCrash(w)
  PROVE  FaultIInv'
<1>1. /\ stage' = stage /\ it' = it /\ allResults' = allResults
      /\ faults' = faults + 1 /\ restarted' = restarted \cup {w}
      /\ happened \subseteq happened' /\ happened' \subseteq FaultKinds
  BY DEF controllerVars, WorkerCrash, Fault, FaultIInv, FaultTypeOK
<1>2. PICK q \in Suffixes(toWorker[w]) : toWorker' = [toWorker EXCEPT ![w] = q]
  BY DEF WorkerCrash
<1>3. PICK r \in Prefixes(toController[w]) : toController' = [toController EXCEPT ![w] = r]
  BY DEF WorkerCrash
<1>4. PICK d \in Prefixes(dataQueue[w]) : dataQueue' = [dataQueue EXCEPT ![w] = d]
  BY DEF WorkerCrash
<1>5. /\ pc' = [pc EXCEPT ![w] = "down"] /\ state' = [state EXCEPT ![w] = "START"]
      /\ connector' = [connector EXCEPT ![w] = "uninitialised"]
      /\ runs' = [runs EXCEPT ![w] = 0] /\ protobuf' = [protobuf EXCEPT ![w] = "up"]
      /\ request' = request /\ reply' = reply /\ dataLinked' = dataLinked
  BY DEF WorkerCrash, Goto
<1>6. /\ toWorker \in [Workers -> Seq(Commands)] /\ dataQueue \in [Workers -> Seq(Row)]
      /\ toController \in [Workers -> Seq(Replies \cup {NoMessage})]
  BY DEF FaultIInv, FaultTypeOK
<1>7. PICK n \in 0 .. Len(toWorker[w]) :
        /\ q \in Seq(Commands) /\ Len(q) = Len(toWorker[w]) - n /\ Len(toWorker[w]) \in Nat
        /\ \A k \in 1 .. Len(q) : q[k] = toWorker[w][k + n]
  BY <1>6, SuffixOfQueue
<1>8. /\ d \in Seq(Row) /\ Len(d) \in 0 .. Len(dataQueue[w]) /\ Len(dataQueue[w]) \in Nat
      /\ \A k \in 1 .. Len(d) : d[k] = dataQueue[w][k]
  BY <1>6, PrefixOfQueue
<1>9. FaultTypeOK'
  <2>1. r \in Seq(Replies \cup {NoMessage})
    BY <1>6, PrefixOfQueue
  <2>2. WorkerTypeOK'
    BY <1>5 DEF FaultIInv, FaultTypeOK, WorkerTypeOK
  <2>3. /\ toWorker' \in [Workers -> Seq(Commands)] /\ dataQueue' \in [Workers -> Seq(Row)]
        /\ toController' \in [Workers -> Seq(Replies \cup {NoMessage})]
    BY <1>2, <1>3, <1>4, <1>6, <1>7, <1>8, <2>1
  <2>4. QED
    BY <1>1, <2>2, <2>3 DEF FaultIInv, FaultTypeOK
<1>10. HistoryGrows /\ \A v \in Workers \ {w} : SameNode(v)
  BY <1>1, <1>2, <1>4, <1>5, <1>6
     DEF HistoryGrows, SameNode, FaultIInv, FaultTypeOK, WorkerTypeOK
<1>11. /\ pc'[w] = "down" /\ connector'[w] = "uninitialised" /\ ~Creating(w)'
       /\ toWorker'[w] = q /\ dataQueue'[w] = d
  BY <1>2, <1>4, <1>5, <1>6 DEF FaultIInv, FaultTypeOK, WorkerTypeOK, Creating
<1>12. "controller" \notin happened' => InitOnce(w)'
  <2>1. SUFFICES ASSUME "controller" \notin happened
                 PROVE  InitOnce(w)'
    BY <1>1
  <2>2. InitOnce(w) /\ Sent(w)' = Sent(w)
    BY <1>1, <2>1, SentFrame DEF FaultIInv, FaultNodeInv
  <2>3. Sent(w) = 0 => q = <<>>
    BY <1>7, <2>2 DEF InitOnce
  <2>4. ASSUME NEW k \in 1 .. Len(q), q[k] = "INIT"
        PROVE  k = 1
    <3>1. k + n \in 1 .. Len(toWorker[w]) /\ toWorker[w][k + n] = "INIT"
      BY <1>7, <2>4
    <3>2. k + n = 1
      BY <2>2, <3>1 DEF InitOnce
    <3>3. QED
      BY <3>2
  <2>5. QED
    BY <1>11, <2>2, <2>3, <2>4 DEF InitOnce
<1>13. RowsOnTheirWay(w)'
  <2>1. RowsOnTheirWay(w)
    BY DEF FaultIInv, FaultNodeInv
  <2>2. QED
    BY <1>1, <1>8, <1>11, <2>1 DEF RowsOnTheirWay
<1>14. FaultNodeInv(w)'
  BY <1>1, <1>11, <1>12, <1>13 DEF FaultNodeInv
<1>15. QED
  BY <1>5, <1>9, <1>10, <1>14, NodeFrame

-----------------------------------------------------------------------------
(***************************************************************************)
(* Steps of the controller.                                                *)
(***************************************************************************)

\* The nodes do not move.
LEMMA ControllerFrame ==
  ASSUME FaultIInv, UNCHANGED workerVars, HistoryGrows, FaultTypeOK', HostsInTurn',
         RowsKeepTheirPlace', toWorker' = toWorker,
         \A v \in Workers : dataQueue'[v] \in {dataQueue[v], <<>>} /\ Sent(v)' = Sent(v)
  PROVE  FaultIInv'
<1>1. ASSUME NEW v \in Workers
      PROVE  FaultNodeInv(v)'
  <2>1. /\ pc' = pc /\ request' = request /\ connector' = connector /\ runs' = runs
    BY DEF workerVars
  <2>2. CASE dataQueue'[v] = dataQueue[v]
    <3>1. SameNode(v)
      BY <2>1, <2>2 DEF SameNode
    <3>2. QED
      BY <3>1, OtherNode DEF FaultIInv
  <2>3. CASE dataQueue'[v] = <<>>
    <3>1. RowsOnTheirWay(v)'
      BY <2>3 DEF RowsOnTheirWay
    <3>2. /\ RunsAhead(v)' = RunsAhead(v) /\ Creating(v)' = Creating(v)
          /\ Measuring(v)' = Measuring(v) /\ Reporting(v)' = Reporting(v)
      BY <2>1 DEF RunsAhead, Creating, Measuring, Reporting
    <3>3. \A k : /\ RunsBefore(v, k)' = RunsBefore(v, k)
                 /\ GoDue(v, k)' = GoDue(v, k) /\ ResultsDue(v, k)' = ResultsDue(v, k)
      BY <3>2 DEF RunsBefore, GoDue, ResultsDue
    <3>4. OrderInv(v) => OrderInv(v)'
      BY <2>1, <3>2, <3>3 DEF OrderInv
    <3>5. InitOnce(v) => InitOnce(v)'
      BY <2>1, <3>2 DEF InitOnce
    <3>6. QED
      BY <2>1, <3>1, <3>4, <3>5 DEF FaultIInv, FaultNodeInv, HistoryGrows
  <2>4. QED
    BY <2>2, <2>3
<1>2. QED
  BY <1>1 DEF FaultIInv

\* The stages as they are reached.
LEMMA StageFacts ==
  /\ LoopStages \subseteq Stages
  /\ \A s \in LoopStages : NextStage[s] \in Stages
  /\ \A s \in LoopStages :
       NextStage[s] \notin {"DATACONNECT", "DATARECEIVE"}
BY DEF LoopStages, Stages, SendStages, GetStages, NextStage

\* The end of a loop sends nothing and collects nothing.
LEMMA EndLoopCollects ==
  ASSUME EndLoop, N \in Nat
  PROVE  Collected' = Collected /\ Popped' = Popped
<1>1. stage \in LoopStages /\ it = N + 1 /\ stage' = NextStage[stage] /\ it' = 1
  BY DEF EndLoop
<1>2. QED
  BY <1>1 DEF Collected, Popped, Collecting, NextStage, LoopStages, SendStages, GetStages

LEMMA EndLoopSends ==
  ASSUME EndLoop, N \in Nat, NEW w \in Workers
  PROVE  Sent(w)' = Sent(w)
<1>1. stage \in LoopStages /\ it = N + 1 /\ stage' = NextStage[stage] /\ it' = 1
  BY DEF EndLoop
<1>2. w \in Int /\ w >= 1 /\ w <= N
  BY DEF Workers
<1>3. CASE stage \in {"CONNECT", "INIT", "INITDONE"}
  BY <1>1, <1>2, <1>3 DEF Sent, Collecting, NextStage
<1>4. CASE stage \in {"GO", "RESULTSREADY", "GETRESULTS"}
  BY <1>1, <1>2, <1>4 DEF Sent, Collecting, NextStage
<1>5. CASE stage \in {"DONERESULTS", "EXIT", "EXITING", "CLOSING"}
  BY <1>1, <1>2, <1>5 DEF Sent, Collecting, NextStage
<1>6. QED
  BY <1>1, <1>3, <1>4, <1>5 DEF LoopStages, SendStages, GetStages

LEMMA EndLoopKeeps ==
  ASSUME FaultIInv, EndLoop, UNCHANGED workerVars, UNCHANGED faultHistory
  PROVE  FaultIInv'
<1>1. /\ stage \in LoopStages /\ it = N + 1 /\ stage' = NextStage[stage] /\ it' = 1
      /\ dataHosts' = dataHosts /\ allResults' = allResults /\ csvFiles' = csvFiles
      /\ toWorker' = toWorker /\ toController' = toController
      /\ dataQueue' = dataQueue /\ dataLinked' = dataLinked
      /\ faults' = faults /\ happened' = happened /\ restarted' = restarted
  BY DEF EndLoop, mqVars, commandVars, dataVars, faultHistory
<1>2. stage' \in Stages /\ stage' \notin {"DATACONNECT", "DATARECEIVE"} /\ N \in Nat
  BY <1>1, StageFacts, NAssumption
<1>3. FaultTypeOK'
  BY <1>1, <1>2 DEF FaultIInv, FaultTypeOK, workerVars, WorkerTypeOK
<1>4. stage # "DATARECEIVE"
  BY <1>1 DEF LoopStages, SendStages, GetStages
<1>5. HostsInTurn'
  BY <1>1, <1>2, <1>4, EndLoopCollects DEF FaultIInv, HostsInTurn
<1>6. RowsKeepTheirPlace'
  BY <1>1 DEF FaultIInv, RowsKeepTheirPlace
<1>7. HistoryGrows
  BY <1>1 DEF HistoryGrows
<1>8. QED
  BY <1>1, <1>2, <1>3, <1>5, <1>6, <1>7, EndLoopSends, ControllerFrame

\* Steps to the next node of a loop that sends nothing.
LEMMA AdvanceKeeps ==
  ASSUME FaultIInv, UNCHANGED workerVars,
         faults' \in Nat, happened \subseteq happened', happened' \subseteq FaultKinds,
         restarted' = restarted,
         stage \in GetStages \cup {"CONNECT", "CLOSING"}, it <= N, Advance,
         UNCHANGED <<dataHosts, allResults, csvFiles, toWorker, dataQueue, dataLinked>>,
         toController' \in [Workers -> Seq(Replies \cup {NoMessage})]
  PROVE  FaultIInv'
<1>1. N \in Nat /\ it \in 1 .. N /\ it' = it + 1 /\ stage' = stage
  BY NAssumption DEF Advance, FaultIInv, FaultTypeOK
<1>2. FaultTypeOK'
  BY <1>1 DEF FaultIInv, FaultTypeOK, workerVars, WorkerTypeOK
<1>3. Collected' = Collected /\ Popped' = Popped
  BY <1>1 DEF Collected, Popped, Collecting, GetStages
<1>4. stage \notin {"DATACONNECT", "DATARECEIVE"}
  BY DEF GetStages
<1>5. HostsInTurn'
  BY <1>1, <1>3, <1>4 DEF FaultIInv, HostsInTurn
<1>6. HistoryGrows
  BY DEF HistoryGrows
<1>7. RowsKeepTheirPlace'
  BY <1>6 DEF FaultIInv, RowsKeepTheirPlace, HistoryGrows
<1>8. \A v \in Workers : Sent(v)' = Sent(v)
  BY <1>1 DEF Sent, Collecting, GetStages
<1>9. QED
  BY <1>2, <1>5, <1>6, <1>7, <1>8, ControllerFrame

LEMMA LoopStepKeeps ==
  ASSUME FaultIInv, UNCHANGED workerVars,
         \/ (Connect \/ GetAllNodes \/ CloseController) /\ UNCHANGED faultHistory
         \/ GetInterrupted
  PROVE  FaultIInv'
<1>1. CASE Connect /\ UNCHANGED faultHistory
  BY <1>1, AdvanceKeeps
     DEF Connect, ConnectCommand, dataVars, faultHistory, FaultIInv, FaultTypeOK
<1>2. CASE GetAllNodes /\ UNCHANGED faultHistory
  <2>1. /\ stage \in GetStages /\ it <= N /\ Advance
        /\ UNCHANGED <<dataHosts, allResults, csvFiles, toWorker, dataQueue, dataLinked>>
        /\ faults' = faults /\ happened' = happened /\ restarted' = restarted
        /\ toController[it] # <<>>
        /\ toController' = [toController EXCEPT ![it] = Tail(@)]
    BY <1>2 DEF GetAllNodes, ReceiveReply, dataVars, faultHistory
  <2>2. toController \in [Workers -> Seq(Replies \cup {NoMessage})] /\ it \in Workers
    BY <2>1, NAssumption DEF FaultIInv, FaultTypeOK, Workers
  <2>3. Tail(toController[it]) \in Seq(Replies \cup {NoMessage})
    BY <2>1, <2>2, TailOfQueue
  <2>4. toController' \in [Workers -> Seq(Replies \cup {NoMessage})]
    BY <2>1, <2>2, <2>3
  <2>5. QED
    BY <2>1, <2>4, AdvanceKeeps DEF FaultIInv, FaultTypeOK
<1>3. CASE CloseController /\ UNCHANGED faultHistory
  BY <1>3, AdvanceKeeps DEF CloseController, CloseCommandAtController, dataVars, faultHistory,
     FaultIInv, FaultTypeOK
<1>4. CASE GetInterrupted
  <2>1. /\ stage \in GetStages /\ it <= N /\ Advance
        /\ UNCHANGED <<dataHosts, allResults, csvFiles, toWorker, dataQueue, dataLinked>>
        /\ toController' = toController
    BY <1>4 DEF GetInterrupted, mqVars, commandVars, dataVars
  <2>2. /\ faults' = faults + 1 /\ restarted' = restarted
        /\ happened \subseteq happened' /\ happened' \subseteq FaultKinds
    BY <1>4 DEF GetInterrupted, Fault, FaultIInv, FaultTypeOK
  <2>3. QED
    BY <2>1, <2>2, AdvanceKeeps DEF FaultIInv, FaultTypeOK
<1>5. QED
  BY <1>1, <1>2, <1>3, <1>4

\* The next command of run() joins the queue of node w.
LEMMA SendToNode ==
  ASSUME FaultIInv, NEW w \in Workers, UNCHANGED workerVars, UNCHANGED faultHistory,
         Sent(w) \in 0 .. 3, Sent(w)' = Sent(w) + 1,
         toWorker' = [toWorker EXCEPT ![w] = Append(@, Command(Sent(w) + 1))],
         dataQueue' = dataQueue
  PROVE  /\ FaultNodeInv(w)'
         /\ toWorker' \in [Workers -> Seq(Commands)]
         /\ \A v \in Workers \ {w} : SameNode(v)
<1> DEFINE q == toWorker[w]
           c == Command(Sent(w) + 1)
<1>1. /\ toWorker \in [Workers -> Seq(Commands)] /\ q \in Seq(Commands)
      /\ FaultNodeInv(w) /\ happened' = happened /\ restarted' = restarted
  BY DEF FaultIInv, FaultTypeOK, faultHistory
<1>2. c \in Commands
  BY DEF Command, Commands
<1>3. /\ pc' = pc /\ request' = request /\ connector' = connector /\ runs' = runs
  BY DEF workerVars
<1>4. /\ Sent(w) = 0 => c = "INIT"
      /\ Sent(w) = 1 => c = "GO"
      /\ Sent(w) = 2 => c = "GETRESULTS"
      /\ Sent(w) = 3 => c = "EXIT"
  BY DEF Command
<1> HIDE DEF c
<1> PICK len \in Nat : len = Len(q)
  BY <1>1
<1>5. /\ len = Len(toWorker[w]) /\ Append(q, c) \in Seq(Commands) /\ Len(Append(q, c)) = len + 1
      /\ Append(q, c)[len + 1] = c
      /\ \A k \in 1 .. len : Append(q, c)[k] = q[k]
  BY <1>1, <1>2, AppendToQueue
<1>6. toWorker' \in [Workers -> Seq(Commands)] /\ toWorker'[w] = Append(q, c)
  BY <1>1, <1>5 DEF c
<1>7. \A v \in Workers \ {w} : SameNode(v)
  BY <1>1, <1>3 DEF SameNode
<1>8. /\ toWorker'[w][len + 1] = c /\ Len(toWorker'[w]) = len + 1
      /\ \A k \in 1 .. len : toWorker'[w][k] = toWorker[w][k]
  BY <1>5, <1>6
<1>9. /\ RunsAhead(w)' = RunsAhead(w) /\ Creating(w)' = Creating(w)
      /\ Measuring(w)' = Measuring(w) /\ Reporting(w)' = Reporting(w)
  BY <1>3 DEF RunsAhead, Creating, Measuring, Reporting
<1>10. OrderInv(w) => OrderInv(w)'
  <2>1. SUFFICES ASSUME OrderInv(w)
                 PROVE  OrderInv(w)'
    OBVIOUS
  <2>2. ASSUME NEW k \in 1 .. len + 1
        PROVE  /\ RunsBefore(w, k)' = RunsBefore(w, k)
               /\ GoDue(w, k)' = GoDue(w, k) /\ ResultsDue(w, k)' = ResultsDue(w, k)
    <3>1. k = 1 \/ k - 1 \in 1 .. len
      BY <1>5
    <3>2. RunsBefore(w, k)' = RunsBefore(w, k)
      BY <1>8, <1>9, <3>1 DEF RunsBefore
    <3>3. CASE k = len + 1
      BY <1>4, <1>5, <1>8, <3>2, <3>3 DEF GoDue, ResultsDue
    <3>4. CASE k # len + 1
      <4>1. k \in 1 .. len /\ k <= len + 1
        BY <1>5, <3>4
      <4>2. QED
        BY <1>5, <1>8, <3>2, <4>1 DEF GoDue, ResultsDue
    <3>5. QED
      BY <3>3, <3>4
  <2>3. /\ GoDue(w, len + 2)' => RunsBefore(w, len + 2)' = 0
        /\ ResultsDue(w, len + 2)' => RunsBefore(w, len + 2)' = 1
    <3>1. len + 2 # 1 /\ (len + 2) - 1 = len + 1 /\ ~(len + 2 <= len + 1)
      OBVIOUS
    <3>2. RunsBefore(w, len + 2)' =
            IF c = "INIT" THEN 0 ELSE IF c = "GO" THEN 1 ELSE NoConnector
      BY <1>8, <3>1 DEF RunsBefore
    <3>3. GoDue(w, len + 2)' = (Sent(w)' = 1) /\ ResultsDue(w, len + 2)' = (Sent(w)' = 2)
      BY <1>8, <3>1 DEF GoDue, ResultsDue
    <3>4. (Sent(w)' = 1 => Sent(w) = 0) /\ (Sent(w)' = 2 => Sent(w) = 1)
      OBVIOUS
    <3>5. QED
      BY <1>4, <3>2, <3>3, <3>4
  <2>4. \A k \in 1 .. len + 2 : k \in 1 .. len + 1 \/ k = len + 2
    OBVIOUS
  <2>5. Len(toWorker'[w]) + 1 = len + 2
    BY <1>8
  <2>6. ASSUME NEW k \in 1 .. len + 2
        PROVE  /\ GoDue(w, k)' => RunsBefore(w, k)' = 0
               /\ ResultsDue(w, k)' => RunsBefore(w, k)' = 1
    BY <1>5, <2>1, <2>2, <2>3, <2>4 DEF OrderInv
  <2>7. /\ Measuring(w)' => connector'[w] = "live" /\ runs'[w] = 0
        /\ Reporting(w)' => connector'[w] = "live" /\ runs'[w] = 1
    BY <1>3, <1>9, <2>1 DEF OrderInv
  <2>8. QED
    BY <2>5, <2>6, <2>7 DEF OrderInv
<1>11. InitOnce(w) => InitOnce(w)'
  <2>1. SUFFICES ASSUME InitOnce(w)
                 PROVE  InitOnce(w)'
    OBVIOUS
  <2>2. Sent(w)' # 0
    OBVIOUS
  <2>3. c = "INIT" => len = 0 /\ connector[w] # "live" /\ ~Creating(w)
    BY <1>4, <1>5, <2>1 DEF InitOnce
  <2>4. ASSUME NEW k \in 1 .. len + 1, toWorker'[w][k] = "INIT"
        PROVE  k = 1 /\ connector[w] # "live" /\ ~Creating(w)
    <3>1. CASE k = len + 1
      BY <1>8, <2>3, <2>4, <3>1
    <3>2. CASE k # len + 1
      <4>1. k \in 1 .. Len(toWorker[w]) /\ toWorker[w][k] = "INIT"
        BY <1>5, <1>8, <2>4, <3>2
      <4>2. QED
        BY <2>1, <4>1 DEF InitOnce
    <3>3. QED
      BY <3>1, <3>2
  <2>5. QED
    BY <1>3, <1>8, <1>9, <2>1, <2>2, <2>4 DEF InitOnce
<1>12. RowsOnTheirWay(w)'
  BY <1>1 DEF FaultNodeInv, RowsOnTheirWay
<1>13. QED
  BY <1>1, <1>3, <1>6, <1>7, <1>10, <1>11, <1>12 DEF FaultNodeInv

LEMMA SendKeeps ==
  ASSUME FaultIInv, UNCHANGED workerVars, UNCHANGED faultHistory,
         SendAllNodes \/ SendGetResults
  PROVE  FaultIInv'
<1>1. /\ N \in Nat /\ it \in 1 .. N /\ it \in Workers
      /\ stage \in {"INIT", "GO", "GETRESULTS", "EXIT"}
  BY NAssumption DEF SendAllNodes, SendGetResults, SendStages, FaultIInv, FaultTypeOK, Workers
<1>2. /\ dataHosts' = dataHosts /\ allResults' = allResults /\ csvFiles' = csvFiles
      /\ toWorker' = [toWorker EXCEPT ![it] = Append(@, stage)]
      /\ toController' = toController /\ dataQueue' = dataQueue /\ dataLinked' = dataLinked
      /\ faults' = faults /\ happened' = happened /\ restarted' = restarted
  BY DEF SendAllNodes, SendGetResults, SendCommand, dataVars, faultHistory
<1>3. \/ stage # "GETRESULTS" /\ stage' = stage /\ it' = it + 1
      \/ stage = "GETRESULTS" /\ stage' = "DATACONNECT" /\ it' = it
  BY DEF SendAllNodes, SendGetResults, SendStages, Advance
<1>4. /\ Sent(it) \in 0 .. 3 /\ stage = Command(Sent(it) + 1)
      /\ \A v \in Workers : Sent(v)' = IF v = it THEN Sent(v) + 1 ELSE Sent(v)
  <2>1. CASE stage = "INIT"
    BY <1>1, <1>3, <2>1 DEF Sent, Command, Collecting, Workers
  <2>2. CASE stage = "GO"
    BY <1>1, <1>3, <2>2 DEF Sent, Command, Collecting, Workers
  <2>3. CASE stage = "GETRESULTS"
    BY <1>1, <1>3, <2>3 DEF Sent, Command, Collecting, Workers
  <2>4. CASE stage = "EXIT"
    BY <1>1, <1>3, <2>4 DEF Sent, Command, Collecting, Workers
  <2>5. QED
    BY <1>1, <2>1, <2>2, <2>3, <2>4
<1>5. PICK w \in Workers : w = it
  BY <1>1
<1>6. /\ Sent(w) \in 0 .. 3 /\ Sent(w)' = Sent(w) + 1
      /\ toWorker' = [toWorker EXCEPT ![w] = Append(@, Command(Sent(w) + 1))]
  BY <1>2, <1>4, <1>5
<1>7. /\ FaultNodeInv(w)' /\ toWorker' \in [Workers -> Seq(Commands)]
      /\ \A v \in Workers \ {w} : SameNode(v)
  BY <1>2, <1>6, SendToNode
<1>8. HistoryGrows
  BY <1>2 DEF HistoryGrows
<1>9. \A v \in Workers \ {w} : FaultNodeInv(v)'
  BY <1>4, <1>5, <1>7, <1>8, OtherNode DEF FaultIInv
<1>10. FaultTypeOK'
  <2>1. stage' \in Stages /\ it' \in 1 .. N + 1
    BY <1>1, <1>3 DEF FaultIInv, FaultTypeOK, Stages
  <2>2. QED
    BY <1>2, <1>7, <2>1 DEF FaultIInv, FaultTypeOK, workerVars, WorkerTypeOK
<1>11. HostsInTurn'
  <2>1. Collected' = Collected /\ Popped' = Popped
    BY <1>1, <1>3 DEF Collected, Popped, Collecting
  <2>2. stage' \in {"DATACONNECT", "DATARECEIVE"} => it' <= N
    BY <1>1, <1>3
  <2>3. stage # "DATARECEIVE" /\ stage' # "DATARECEIVE"
    BY <1>1, <1>3
  <2>4. QED
    BY <1>2, <2>1, <2>2, <2>3 DEF FaultIInv, HostsInTurn
<1>12. RowsKeepTheirPlace'
  BY <1>2 DEF FaultIInv, RowsKeepTheirPlace
<1>13. QED
  BY <1>7, <1>9, <1>10, <1>11, <1>12 DEF FaultIInv

LEMMA ConnectDataHostKeeps ==
  ASSUME FaultIInv, UNCHANGED workerVars, UNCHANGED faultHistory, ConnectDataHost
  PROVE  FaultIInv'
<1>1. /\ stage = "DATACONNECT" /\ stage' = "DATARECEIVE" /\ it' = it
      /\ dataHosts' = Tail(dataHosts) /\ dataLinked' = Head(dataHosts)
      /\ allResults' = allResults /\ csvFiles' = csvFiles
      /\ toWorker' = toWorker /\ toController' = toController /\ dataQueue' = dataQueue
      /\ faults' = faults /\ happened' = happened /\ restarted' = restarted
  BY DEF ConnectDataHost, ConnectData, commandVars, faultHistory
<1>2. N \in Nat /\ it \in 1 .. N
  BY <1>1, NAssumption DEF FaultIInv, FaultTypeOK, HostsInTurn
<1>3. FaultTypeOK'
  BY <1>1 DEF FaultIInv, FaultTypeOK, workerVars, WorkerTypeOK, Stages
<1>4. Collected = it - 1 /\ Collected' = it - 1 /\ Popped = it - 1 /\ Popped' = it
  BY <1>1, <1>2 DEF Collected, Popped, Collecting
<1>5. dataHosts = [k \in 1 .. N - (it - 1) |-> k + (it - 1)]
  BY <1>4 DEF FaultIInv, HostsInTurn
<1>6. /\ Len(dataHosts) = N - (it - 1) /\ dataHosts[1] = it /\ dataHosts \in Seq(Int)
      /\ dataHosts # <<>>
  BY <1>2, <1>5
<1>7. Head(dataHosts) = it
  BY <1>6
<1>8. Tail(dataHosts) = [k \in 1 .. N - it |-> k + it]
  BY <1>2, <1>5, <1>6
<1>9. HostsInTurn'
  BY <1>1, <1>2, <1>4, <1>7, <1>8 DEF FaultIInv, HostsInTurn
<1>10. RowsKeepTheirPlace' /\ HistoryGrows
  BY <1>1 DEF FaultIInv, RowsKeepTheirPlace, HistoryGrows
<1>11. \A v \in Workers : Sent(v)' = Sent(v)
  BY <1>1, <1>2 DEF Sent, Collecting, Workers
<1>12. QED
  BY <1>1, <1>3, <1>9, <1>10, <1>11, ControllerFrame

\* A row is added, whether or not it was received.
LEMMA RowKeeps ==
  ASSUME FaultIInv, UNCHANGED workerVars,
         \/ ReceiveDataFromWorker /\ UNCHANGED faultHistory
         \/ ReceiveDataInterrupted
  PROVE  FaultIInv'
<1>1. /\ stage = "DATARECEIVE" /\ stage' = "GETRESULTS" /\ it' = it + 1
      /\ dataHosts' = dataHosts /\ dataLinked' = NoWorker
      /\ dataQueue' = [dataQueue EXCEPT ![dataLinked] = <<>>]
      /\ csvFiles' = csvFiles /\ toWorker' = toWorker /\ toController' = toController
      /\ restarted' = restarted
  BY DEF ReceiveDataFromWorker, ReceiveResultsAndClose, ReceiveDataInterrupted, Fault,
         commandVars, faultHistory
<1>2. /\ faults' \in Nat /\ happened \subseteq happened' /\ happened' \subseteq FaultKinds
  BY DEF ReceiveDataFromWorker, ReceiveDataInterrupted, Fault, faultHistory, FaultIInv,
         FaultTypeOK
<1>3. /\ N \in Nat /\ it \in 1 .. N /\ it \in Workers
      /\ dataLinked = it /\ Len(allResults) = it - 1
  BY <1>1, NAssumption
     DEF FaultIInv, FaultTypeOK, HostsInTurn, Workers, Collected, Collecting
<1>4. PICK row \in [hostname : Workers \cup {NoWorker}, runs : Nat] :
        /\ allResults' = Append(allResults, row)
        /\ \/ row = Garbage /\ "data" \in happened'
           \/ row.hostname = it /\ (it \notin restarted => row.runs = 1)
  <2>1. CASE ReceiveDataFromWorker
    <3>1. /\ dataQueue[it] # <<>> /\ allResults' = Append(allResults, Head(dataQueue[it]))
      BY <1>3, <2>1 DEF ReceiveDataFromWorker, ReceiveResultsAndClose
    <3>2. dataQueue[it] \in Seq(Row)
      BY <1>3 DEF FaultIInv, FaultTypeOK
    <3>3. /\ Head(dataQueue[it]) = dataQueue[it][1] /\ Head(dataQueue[it]) \in Row
          /\ 1 \in 1 .. Len(dataQueue[it])
      BY <3>1, <3>2, TailOfQueue
    <3>4. /\ dataQueue[it][1].hostname = it
          /\ it \notin restarted => dataQueue[it][1].runs = 1
      BY <1>3, <3>3 DEF FaultIInv, FaultNodeInv, RowsOnTheirWay
    <3>5. Head(dataQueue[it]) \in [hostname : Workers \cup {NoWorker}, runs : Nat]
      BY <3>3 DEF Row
    <3>6. QED
      BY <3>1, <3>3, <3>4, <3>5
  <2>2. CASE ReceiveDataInterrupted
    <3>1. allResults' = Append(allResults, Garbage) /\ "data" \in happened'
      BY <2>2 DEF ReceiveDataInterrupted, Fault
    <3>2. Garbage \in [hostname : Workers \cup {NoWorker}, runs : Nat]
      BY DEF Garbage
    <3>3. QED
      BY <3>1, <3>2
  <2>3. QED
    BY <2>1, <2>2
<1>5. /\ allResults' \in Seq([hostname : Workers \cup {NoWorker}, runs : Nat])
      /\ Len(allResults') = it /\ allResults'[it] = row
      /\ \A k \in 1 .. it - 1 : allResults'[k] = allResults[k]
  <2>1. allResults \in Seq([hostname : Workers \cup {NoWorker}, runs : Nat])
    BY DEF FaultIInv, FaultTypeOK
  <2>2. it = Len(allResults) + 1
    BY <1>3
  <2>3. QED
    BY <1>3, <1>4, <2>1, <2>2, AppendToQueue
<1>6. FaultTypeOK'
  <2>1. dataQueue' \in [Workers -> Seq(Row)]
    BY <1>1, <1>3 DEF FaultIInv, FaultTypeOK
  <2>2. stage' \in Stages /\ it' \in 1 .. N + 1
    BY <1>1, <1>3 DEF Stages, LoopStages
  <2>3. QED
    BY <1>1, <1>2, <1>5, <2>1, <2>2 DEF FaultIInv, FaultTypeOK, workerVars, WorkerTypeOK
<1>7. HostsInTurn'
  <2>1. Popped = it /\ Collected' = it /\ Popped' = it
    BY <1>1, <1>3 DEF Collected, Popped, Collecting
  <2>2. QED
    BY <1>1, <1>5, <2>1 DEF FaultIInv, HostsInTurn
<1>8. RowsKeepTheirPlace'
  <2>1. ASSUME NEW k \in 1 .. it
        PROVE  \/ allResults'[k] = Garbage /\ "data" \in happened'
               \/ /\ allResults'[k].hostname = k
                  /\ k \notin restarted => allResults'[k].runs = 1
    <3>1. CASE k = it
      BY <1>4, <1>5, <3>1
    <3>2. CASE k # it
      <4>1. k \in 1 .. it - 1 /\ k \in 1 .. Len(allResults)
        BY <1>3, <3>2
      <4>2. QED
        BY <1>2, <1>5, <4>1 DEF FaultIInv, RowsKeepTheirPlace
    <3>3. QED
      BY <3>1, <3>2
  <2>2. \A f \in csvFiles' : Len(f.rows) = N
    BY <1>1 DEF FaultIInv, RowsKeepTheirPlace
  <2>3. QED
    BY <1>1, <1>5, <2>1, <2>2 DEF RowsKeepTheirPlace
<1>9. \A v \in Workers : Sent(v)' = Sent(v)
  BY <1>1, <1>3 DEF Sent, Collecting, Workers
<1>10. \A v \in Workers : dataQueue'[v] \in {dataQueue[v], <<>>}
  BY <1>1 DEF FaultIInv, FaultTypeOK
<1>11. HistoryGrows
  BY <1>1, <1>2 DEF HistoryGrows
<1>12. QED
  BY <1>1, <1>6, <1>7, <1>8, <1>9, <1>10, <1>11, ControllerFrame

LEMMA MergeKeeps ==
  ASSUME FaultIInv, UNCHANGED workerVars, UNCHANGED faultHistory, MergeResults
  PROVE  FaultIInv'
<1>1. /\ stage = "MERGING" /\ stage' = "CLOSING" /\ it' = it
      /\ csvFiles' = {f \in csvFiles : f.iteration # CsvIteration}
                       \cup {[iteration |-> CsvIteration, rows |-> allResults]}
      /\ dataHosts' = dataHosts /\ allResults' = allResults
      /\ toWorker' = toWorker /\ toController' = toController
      /\ dataQueue' = dataQueue /\ dataLinked' = dataLinked
      /\ faults' = faults /\ happened' = happened /\ restarted' = restarted
  BY DEF MergeResults, NextStage, mqVars, commandVars, dataVars, faultHistory
<1>2. FaultTypeOK'
  BY <1>1 DEF FaultIInv, FaultTypeOK, workerVars, WorkerTypeOK, Stages, LoopStages
<1>3. Collected = N /\ Collected' = N /\ Popped = N /\ Popped' = N
  BY <1>1 DEF Collected, Popped, Collecting
<1>4. HostsInTurn'
  BY <1>1, <1>3 DEF FaultIInv, HostsInTurn
<1>5. RowsKeepTheirPlace'
  <2>1. Len(allResults) = N
    BY <1>3 DEF FaultIInv, HostsInTurn
  <2>2. \A f \in csvFiles' : Len(f.rows) = N
    BY <1>1, <2>1 DEF FaultIInv, RowsKeepTheirPlace
  <2>3. QED
    BY <1>1, <2>2 DEF FaultIInv, RowsKeepTheirPlace
<1>6. HistoryGrows
  BY <1>1 DEF HistoryGrows
<1>7. \A v \in Workers : Sent(v)' = Sent(v)
  BY <1>1 DEF Sent, Collecting
<1>8. QED
  BY <1>1, <1>2, <1>4, <1>5, <1>6, <1>7, ControllerFrame

\* The controller is killed: of its commands some prefix has got through.
LEMMA ControllerCrashKeeps ==
  ASSUME FaultIInv, UNCHANGED workerVars, ControllerCrash
  PROVE  FaultIInv'
<1>1. /\ stage' = "CONNECT" /\ it' = 1 /\ dataHosts' = [k \in 1 .. N |-> k]
      /\ allResults' = <<>> /\ csvFiles' = csvFiles /\ dataLinked' = NoWorker
      /\ dataQueue' = [w \in Workers |-> <<>>] /\ toController' = [w \in Workers |-> <<>>]
      /\ faults' = faults + 1 /\ restarted' = restarted
      /\ happened' = happened \cup {"controller"}
      /\ "controller" \in FaultKinds
  BY DEF ControllerCrash, Fault
<1>2. /\ toWorker' \in [Workers -> UNION {Prefixes(toWorker[w]) : w \in Workers}]
      /\ \A w \in Workers : toWorker'[w] \in Prefixes(toWorker[w])
  BY DEF ControllerCrash
<1>3. /\ pc' = pc /\ request' = request /\ connector' = connector /\ runs' = runs
  BY DEF workerVars
<1>4. N \in Nat
  BY NAssumption
<1>5. ASSUME NEW w \in Workers
      PROVE  /\ toWorker'[w] \in Seq(Commands)
             /\ Len(toWorker[w]) \in Nat /\ Len(toWorker'[w]) \in 0 .. Len(toWorker[w])
             /\ \A k \in 1 .. Len(toWorker'[w]) : toWorker'[w][k] = toWorker[w][k]
  BY <1>2, PrefixOfQueue DEF FaultIInv, FaultTypeOK
<1>6. FaultTypeOK'
  <2>1. toWorker' \in [Workers -> Seq(Commands)]
    BY <1>2, <1>5
  <2>2. stage' \in Stages /\ it' \in 1 .. N + 1
    BY <1>1, <1>4 DEF Stages, LoopStages
  <2>3. /\ faults' \in Nat /\ happened' \subseteq FaultKinds /\ restarted' \subseteq Workers
    BY <1>1 DEF FaultIInv, FaultTypeOK
  <2>4. WorkerTypeOK'
    BY DEF FaultIInv, FaultTypeOK, workerVars, WorkerTypeOK
  <2>5. QED
    BY <1>1, <2>1, <2>2, <2>3, <2>4 DEF FaultTypeOK
<1>7. HostsInTurn'
  <2>1. Collected' = 0 /\ Popped' = 0
    BY <1>1 DEF Collected, Popped, Collecting
  <2>2. QED
    BY <1>1, <1>4, <2>1 DEF HostsInTurn
<1>8. RowsKeepTheirPlace'
  BY <1>1 DEF FaultIInv, RowsKeepTheirPlace
<1>9. ASSUME NEW w \in Workers
      PROVE  FaultNodeInv(w)'
  <2>1. FaultNodeInv(w)
    BY DEF FaultIInv
  <2>2. RowsOnTheirWay(w)'
    BY <1>1 DEF RowsOnTheirWay
  <2>3. OrderInv(w) => OrderInv(w)'
    <3>1. SUFFICES ASSUME OrderInv(w)
                   PROVE  OrderInv(w)'
      OBVIOUS
    <3>2. Sent(w)' = 0
      BY <1>1 DEF Sent
    <3>3. PICK len \in Nat : len = Len(toWorker'[w])
      BY <1>5
    <3>4. /\ RunsAhead(w)' = RunsAhead(w)
          /\ Measuring(w)' = Measuring(w) /\ Reporting(w)' = Reporting(w)
      BY <1>3 DEF RunsAhead, Creating, Measuring, Reporting
    <3>5. ASSUME NEW k \in 1 .. len + 1
          PROVE  /\ GoDue(w, k)' => RunsBefore(w, k)' = 0
                 /\ ResultsDue(w, k)' => RunsBefore(w, k)' = 1
      <4>1. CASE k = len + 1
        BY <3>2, <3>3, <4>1 DEF GoDue, ResultsDue
      <4>2. CASE k \in 1 .. len
        <5>1. k \in 1 .. Len(toWorker[w]) + 1 /\ k <= Len(toWorker[w])
          BY <1>5, <3>3, <4>2
        <5>2. toWorker'[w][k] = toWorker[w][k]
          BY <1>5, <3>3, <4>2
        <5>3. /\ GoDue(w, k)' => GoDue(w, k)
              /\ ResultsDue(w, k)' => ResultsDue(w, k)
          BY <3>3, <4>2, <5>1, <5>2 DEF GoDue, ResultsDue
        <5>4. k = 1 \/ (k - 1 \in 1 .. Len(toWorker'[w]))
          BY <3>3, <4>2
        <5>5. RunsBefore(w, k)' = RunsBefore(w, k)
          BY <1>5, <3>4, <5>4 DEF RunsBefore
        <5>6. QED
          BY <3>1, <5>1, <5>3, <5>5 DEF OrderInv
      <4>3. QED
        BY <4>1, <4>2
    <3>6. /\ Measuring(w)' => connector'[w] = "live" /\ runs'[w] = 0
          /\ Reporting(w)' => connector'[w] = "live" /\ runs'[w] = 1
      BY <1>3, <3>1, <3>4 DEF OrderInv
    <3>7. QED
      BY <3>3, <3>5, <3>6 DEF OrderInv
  <2>4. QED
    BY <1>1, <1>3, <2>1, <2>2, <2>3 DEF FaultNodeInv
<1>10. QED
  BY <1>6, <1>7, <1>8, <1>9 DEF FaultIInv

-----------------------------------------------------------------------------
LEMMA StutterKeeps ==
  ASSUME FaultIInv, UNCHANGED vars, UNCHANGED faultHistory
  PROVE  FaultIInv'
<1>1. /\ UNCHANGED workerVars /\ UNCHANGED controllerVars
      /\ toWorker' = toWorker /\ toController' = toController
      /\ dataQueue' = dataQueue /\ dataLinked' = dataLinked
      /\ faults' = faults /\ happened' = happened /\ restarted' = restarted
  BY DEF vars, mqVars, commandVars, dataVars, faultHistory
<1>2. FaultTypeOK'
  BY <1>1 DEF FaultIInv, FaultTypeOK, workerVars, controllerVars, WorkerTypeOK
<1>3. HostsInTurn' /\ \A v \in Workers : Sent(v)' = Sent(v)
  BY <1>1, SentFrame DEF FaultIInv, HostsInTurn, controllerVars
<1>4. RowsKeepTheirPlace' /\ HistoryGrows
  BY <1>1 DEF FaultIInv, RowsKeepTheirPlace, HistoryGrows, controllerVars
<1>5. QED
  BY <1>1, <1>2, <1>3, <1>4, ControllerFrame

LEMMA InitFaultIInv == FaultInit => FaultIInv
<1> SUFFICES ASSUME FaultInit
             PROVE  FaultIInv
  OBVIOUS
<1>1. N \in Nat
  BY NAssumption
<1>2. /\ toWorker = [w \in Workers |-> <<>>] /\ toController = [w \in Workers |-> <<>>]
      /\ dataQueue = [w \in Workers |-> <<>>] /\ dataLinked = NoWorker
      /\ stage = "CONNECT" /\ it = 1 /\ dataHosts = [k \in 1 .. N |-> k]
      /\ allResults = <<>> /\ csvFiles = {}
      /\ pc = [w \in Workers |-> "down"] /\ state = [w \in Workers |-> "START"]
      /\ connector = [w \in Workers |-> "uninitialised"] /\ runs = [w \in Workers |-> 0]
      /\ protobuf = [w \in Workers |-> "up"]
      /\ request = [w \in Workers |-> NoMessage] /\ reply = [w \in Workers |-> NoMessage]
      /\ faults = 0 /\ happened = {} /\ restarted = {}
  BY DEF FaultInit, Init, MQInit, ControllerInit, WorkerInit
<1>3. WorkerTypeOK
  BY <1>2 DEF WorkerTypeOK
<1>4. FaultTypeOK
  <2>1. stage \in Stages /\ it \in 1 .. N + 1
    BY <1>1, <1>2 DEF Stages, LoopStages
  <2>2. QED
    BY <1>2, <1>3, <2>1 DEF FaultTypeOK
<1>5. HostsInTurn
  <2>1. Collected = 0 /\ Popped = 0
    BY <1>2 DEF Collected, Popped, Collecting
  <2>2. QED
    BY <1>1, <1>2, <2>1 DEF HostsInTurn
<1>6. RowsKeepTheirPlace
  BY <1>2 DEF RowsKeepTheirPlace
<1>7. ASSUME NEW w \in Workers
      PROVE  FaultNodeInv(w)
  <2>1. /\ Sent(w) = 0 /\ toWorker[w] = <<>> /\ dataQueue[w] = <<>>
        /\ pc[w] = "down" /\ connector[w] = "uninitialised"
    BY <1>2 DEF Sent
  <2>2. ~Creating(w) /\ ~Measuring(w) /\ ~Reporting(w)
    BY <2>1 DEF Creating, Measuring, Reporting
  <2>3. OrderInv(w)
    BY <2>1, <2>2 DEF OrderInv, GoDue, ResultsDue
  <2>4. InitOnce(w) /\ RowsOnTheirWay(w)
    BY <2>1, <2>2 DEF InitOnce, RowsOnTheirWay
  <2>5. QED
    BY <2>1, <2>3, <2>4 DEF FaultNodeInv
<1>8. QED
  BY <1>4, <1>5, <1>6, <1>7 DEF FaultIInv

\* The invariant that the theorems rest on, kept by every step and every fault.
THEOREM InductiveInvariant == FaultSpec => []FaultIInv
<1>1. ASSUME FaultIInv, FaultNext
      PROVE  FaultIInv'
  <2>1. CASE FaultStep
    <3>1. CASE GetInterrupted
      <4>1. UNCHANGED workerVars
        BY <3>1 DEF GetInterrupted
      <4>2. QED
        BY <1>1, <3>1, <4>1, LoopStepKeeps
    <3>2. CASE ReceiveDataInterrupted
      <4>1. UNCHANGED workerVars
        BY <3>2 DEF ReceiveDataInterrupted
      <4>2. QED
        BY <1>1, <3>2, <4>1, RowKeeps
    <3>3. CASE ControllerCrash
      <4>1. UNCHANGED workerVars
        BY <3>3 DEF ControllerCrash
      <4>2. QED
        BY <1>1, <3>3, <4>1, ControllerCrashKeeps
    <3>4. ASSUME NEW w \in Workers, ReceiveRequestInterrupted(w) \/ SendDataInterrupted(w)
          PROVE  FaultIInv'
      <4>1. UNCHANGED controllerVars
        BY <3>4 DEF ReceiveRequestInterrupted, SendDataInterrupted
      <4>2. QED
        BY <1>1, <3>4, <4>1, InterruptedNodeKeeps
    <3>5. ASSUME NEW w \in Workers, SendReplyLost(w)
          PROVE  FaultIInv'
      <4>1. UNCHANGED controllerVars /\ UNCHANGED faultHistory
        BY <3>5 DEF SendReplyLost
      <4>2. QED
        BY <1>1, <3>5, <4>1, SendReplyKeeps
    <3>6. ASSUME NEW w \in Workers, WorkerCrash(w)
          PROVE  FaultIInv'
      <4>1. UNCHANGED controllerVars
        BY <3>6 DEF WorkerCrash
      <4>2. QED
        BY <1>1, <3>6, <4>1, WorkerCrashKeeps
    <3>7. QED
      BY <2>1, <3>1, <3>2, <3>3, <3>4, <3>5, <3>6 DEF FaultStep
  <2>2. CASE ControllerStep /\ UNCHANGED workerVars /\ UNCHANGED faultHistory
    BY <1>1, <2>2, EndLoopKeeps, LoopStepKeeps, SendKeeps, ConnectDataHostKeeps, RowKeeps,
       MergeKeeps DEF ControllerStep
  <2>3. ASSUME NEW w \in Workers, WorkerStep(w), UNCHANGED controllerVars,
               UNCHANGED faultHistory
        PROVE  FaultIInv'
    BY <1>1, <2>3, QuietStepKeeps, ReceiveRequestKeeps, SendDataKeeps, SendReplyKeeps
       DEF WorkerStep
  <2>4. CASE UNCHANGED vars /\ UNCHANGED faultHistory
    BY <1>1, <2>4, StutterKeeps
  <2>5. QED
    BY <1>1, <2>1, <2>2, <2>3, <2>4 DEF FaultNext, Next, Terminated
<1>2. ASSUME FaultIInv, UNCHANGED faultVars
      PROVE  FaultIInv'
  BY <1>2, StutterKeeps DEF faultVars
<1>3. QED
  BY <1>1, <1>2, InitFaultIInv, PTL DEF FaultSpec

(***************************************************************************)
(* Only a node that was killed is asked to use a connector it has not got, *)
(* whatever else was killed or interrupted, and however often.             *)
(***************************************************************************)
THEOREM CommandsStayInOrder == FaultSpec => []DeadOnlyAfterRestart
<1>1. FaultIInv => DeadOnlyAfterRestart
  <2>1. SUFFICES ASSUME FaultIInv, NEW w \in Workers \ restarted,
                        pc[w] \in {"handle", "sendData", "closeData"},
                        request[w] \in {"GO", "GETRESULTS"}
                 PROVE  connector[w] = "live"
    BY DEF DeadOnlyAfterRestart
  <2>2. OrderInv(w) /\ (pc[w] # "handle" => request[w] = "GETRESULTS")
    BY <2>1 DEF FaultIInv, FaultNodeInv
  <2>3. Measuring(w) \/ Reporting(w)
    BY <2>1, <2>2 DEF Measuring, Reporting
  <2>4. QED
    BY <2>2, <2>3 DEF OrderInv
<1>2. QED
  BY <1>1, InductiveInvariant, PTL

(***************************************************************************)
(* INIT leaks a connector only in a node that an earlier controller, since *)
(* killed, has initialised.                                                *)
(***************************************************************************)
THEOREM LeaksNeedCrash == FaultSpec => []LeaksOnlyAfterCrash
<1>1. FaultIInv => LeaksOnlyAfterCrash
  BY DEF FaultIInv, FaultNodeInv, InitOnce, Creating, LeaksOnlyAfterCrash
<1>2. QED
  BY <1>1, InductiveInvariant, PTL

(***************************************************************************)
(* The rows of the results are those of the hosts in their order, and the  *)
(* leftovers of earlier controllers do not get into them.                  *)
(***************************************************************************)
THEOREM RowsInPlace == FaultSpec => []RowsKeepTheirPlace
<1>1. FaultIInv => RowsKeepTheirPlace
  BY DEF FaultIInv
<1>2. QED
  BY <1>1, InductiveInvariant, PTL
=============================================================================
