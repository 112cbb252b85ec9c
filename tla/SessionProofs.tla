--------------------------- MODULE SessionProofs -----------------------------
(***************************************************************************)
(* Proofs, for any client, that SessionInv is an inductive invariant of    *)
(* WorkerSession, and that the contract of the node follows from it.       *)
(***************************************************************************)
EXTENDS WorkerSession, FiniteSetTheorems, TLAPS

-----------------------------------------------------------------------------
(***************************************************************************)
(* The inductive invariant of WorkerSession.  A node takes the commands in *)
(* the order in which they were asked for, so all it holds is a function   *)
(* of how many it has taken, how many of those it has carried out, and     *)
(* which INIT and which GETRESULTS were the last of these.                 *)
(***************************************************************************)

\* The node holds a command that it has not carried out, or died of.
InHand == pc[Node] \in {"handle", "sendData", "closeData", "crashed"}

\* How many commands the node has taken, carried out, answered, and carried
\* out as far as to send their results.
TakenCount == Len(asked) - Len(toWorker[Node])
Handled == IF InHand THEN TakenCount - 1 ELSE TakenCount
Replied == IF InHand \/ pc[Node] = "reply" THEN TakenCount - 1 ELSE TakenCount
Reported == IF pc[Node] = "closeData" THEN TakenCount ELSE Handled

AnswerOf(command) == IF command \in Commands THEN AnswerTo[command] ELSE NoMessage

\* The runs between two commands, and the requests for results up to one.
RunsBetween(s, first, last) == {j \in Positions(s, "GO") : first < j /\ j < last}
RequestsUpTo(s, last) == {j \in Positions(s, "GETRESULTS") : j <= last}

\* The row is what the k-th GETRESULTS has to report.
IsResult(row, k) ==
  \E g \in Positions(asked, "GETRESULTS") :
    /\ Cardinality(RequestsUpTo(asked, g)) = k
    /\ row.runs = Cardinality(RunsBetween(asked, LastBefore(asked, "INIT", g), g))

SessionTypeOK ==
  /\ asked \in Seq(Commands \cup {NoMessage})
  /\ answered \in Seq(Replies \cup {NoMessage})
  /\ collected \in Seq([hostname : Workers, runs : Nat])
  /\ toWorker \in [Workers -> Seq(Commands \cup {NoMessage})]
  /\ toController \in [Workers -> Seq(Replies \cup {NoMessage})]
  /\ dataQueue \in [Workers -> Seq([hostname : Workers, runs : Nat])]
  /\ WorkerTypeOK

\* The commands that were asked for and not taken are in the queue.
QueueInv ==
  /\ TakenCount \in Nat
  /\ \A k \in 1 .. Len(toWorker[Node]) : toWorker[Node][k] = asked[TakenCount + k]
  /\ pc[Node] = "down" => TakenCount = 0
  /\ InHand \/ pc[Node] = "reply" =>
       TakenCount >= 1 /\ request[Node] = asked[TakenCount]

\* The replies that were taken and those in the queue answer the commands in turn.
ReplyInv ==
  /\ Len(answered) + Len(toController[Node]) = Replied
  /\ \A k \in 1 .. Len(answered) : answered[k] = AnswerOf(asked[k])
  /\ \A k \in 1 .. Len(toController[Node]) :
       toController[Node][k] = AnswerOf(asked[Len(answered) + k])
  /\ pc[Node] = "reply" => reply[Node] = AnswerOf(request[Node])

\* EXIT is the last command that is taken.
ExitInv ==
  /\ \A j \in 1 .. TakenCount - 1 : asked[j] # "EXIT"
  /\ pc[Node] = "receive" => \A j \in 1 .. TakenCount : asked[j] # "EXIT"
  /\ pc[Node] \in {"down", "receive", "handle", "sendData", "closeData"} =>
       state[Node] # "EXIT"
  /\ pc[Node] = "reply" => (state[Node] = "EXIT" <=> request[Node] = "EXIT")

\* The connector is live from an INIT to the next GETRESULTS, the library up to
\* the first, and the counters sum up the runs since the INIT.
SessionConnectorInv ==
  LET init == LastBefore(asked, "INIT", Handled + 1)
      results == LastBefore(asked, "GETRESULTS", Handled + 1)
  IN  /\ init \in 0 .. Handled /\ results \in 0 .. Handled
      /\ connector[Node] = "live" <=> init > results
      /\ protobuf[Node] = "up" <=> results = 0
      /\ runs[Node] = Cardinality(RunsBetween(asked, init, Handled + 1))

\* What is in hand while results are sent, and what a node can die of.
RequestInv ==
  /\ pc[Node] \in {"sendData", "closeData"} => request[Node] = "GETRESULTS"
  /\ pc[Node] = "crashed" =>
       \/ request[Node] = "GO" /\ (connector[Node] # "live" \/ protobuf[Node] # "up")
       \/ request[Node] = "GETRESULTS" /\ connector[Node] # "live"

\* The results taken and those in the queue are those of the requests in turn.
ResultsInv ==
  /\ Len(collected) + Len(dataQueue[Node]) = Cardinality(RequestsUpTo(asked, Reported))
  /\ Requests <= Len(collected) + 1
  /\ \A k \in 1 .. Len(collected) : IsResult(collected[k], k)
  /\ \A k \in 1 .. Len(dataQueue[Node]) :
       IsResult(dataQueue[Node][k], Len(collected) + k)

SessionInv ==
  /\ SessionTypeOK
  /\ QueueInv
  /\ ReplyInv
  /\ ExitInv
  /\ SessionConnectorInv
  /\ RequestInv
  /\ ResultsInv

-----------------------------------------------------------------------------
LEMMA OneNode == N = 1 /\ Workers = {1} /\ Node = 1 /\ Node \in Workers
BY SessionAssumption DEF Workers, Node

\* The variables of the node and of its queues are functions on it.
HasNode ==
  /\ Node \in DOMAIN toWorker /\ Node \in DOMAIN toController
  /\ Node \in DOMAIN dataQueue /\ Node \in DOMAIN pc /\ Node \in DOMAIN state
  /\ Node \in DOMAIN connector /\ Node \in DOMAIN runs /\ Node \in DOMAIN protobuf
  /\ Node \in DOMAIN request /\ Node \in DOMAIN reply

LEMMA NodeIsServed == SessionTypeOK => HasNode
BY OneNode DEF SessionTypeOK, WorkerTypeOK, HasNode

LEMMA AlphabetIsKnown == Alphabet \subseteq Commands \cup {NoMessage}
BY SessionAssumption

\* The positions at which a message occurs before the i-th, and the last of them.
Before(s, message, i) == {j \in Positions(s, message) : j < i}
Largest(S) == IF S = {} THEN 0 ELSE CHOOSE j \in S : \A k \in S : k <= j

LEMMA LastBeforeIsLargest ==
  \A s, message, i : LastBefore(s, message, i) = Largest(Before(s, message, i))
BY DEF LastBefore, Largest, Before

\* The last occurrence depends on what is before it only.
LEMMA LastBeforeAgrees ==
  ASSUME NEW s, NEW t, NEW message, NEW i \in Nat,
         Len(s) \in Nat, Len(t) \in Nat, i <= Len(s) + 1, i <= Len(t) + 1,
         \A j \in 1 .. i - 1 : s[j] = t[j]
  PROVE  LastBefore(s, message, i) = LastBefore(t, message, i)
<1>1. Before(s, message, i) = Before(t, message, i)
  BY DEF Before, Positions
<1>2. QED
  BY <1>1, LastBeforeIsLargest

\* One command more is the last of its kind and changes that of no other.
LEMMA LastBeforeNext ==
  ASSUME NEW s, NEW message, Len(s) \in Nat, NEW i \in 1 .. Len(s)
  PROVE  LastBefore(s, message, i + 1) = IF s[i] = message THEN i
                                         ELSE LastBefore(s, message, i)
<1>1. CASE s[i] = message
  <2> DEFINE B == Before(s, message, i + 1)
  <2>1. i \in B /\ \A k \in B : k \in Int /\ k <= i
    BY <1>1 DEF Before, Positions
  <2> HIDE DEF B
  <2>2. PICK m : m = CHOOSE j \in B : \A k \in B : k <= j
    OBVIOUS
  <2>3. m \in B /\ \A k \in B : k <= m
    BY <2>1, <2>2
  <2>4. m = i
    BY <2>1, <2>3
  <2>5. Largest(B) = i
    BY <2>1, <2>2, <2>4 DEF Largest
  <2>6. QED
    BY <1>1, <2>5, LastBeforeIsLargest DEF B
<1>2. CASE s[i] # message
  <2>1. Before(s, message, i + 1) = Before(s, message, i)
    BY <1>2 DEF Before, Positions
  <2>2. QED
    BY <1>2, <2>1, LastBeforeIsLargest
<1>3. QED
  BY <1>1, <1>2

LEMMA LastBeforeFirst ==
  ASSUME NEW s, NEW message, Len(s) \in Nat
  PROVE  LastBefore(s, message, 1) = 0
<1>1. Before(s, message, 1) = {}
  BY DEF Before, Positions
<1>2. QED
  BY <1>1, LastBeforeIsLargest DEF Largest

\* What is asked for next changes none of the positions before it.
LEMMA OneMoreAsked ==
  ASSUME NEW s, NEW t, Len(s) \in Nat, Len(t) = Len(s) + 1,
         \A j \in 1 .. Len(s) : t[j] = s[j]
  PROVE  /\ \A message : Positions(s, message) \subseteq Positions(t, message)
         /\ \A message : t[Len(t)] # message =>
              Positions(t, message) = Positions(s, message)
         /\ \A message :
              Positions(t, message) \subseteq Positions(s, message) \cup {Len(t)}
         /\ \A message, i : i \in 0 .. Len(s) + 1 =>
              LastBefore(t, message, i) = LastBefore(s, message, i)
         /\ \A first, last : last \in 0 .. Len(s) + 1 =>
              RunsBetween(t, first, last) = RunsBetween(s, first, last)
         /\ \A last : last \in 0 .. Len(s) =>
              RequestsUpTo(t, last) = RequestsUpTo(s, last)
<1>1. /\ \A message : Positions(s, message) \subseteq Positions(t, message)
      /\ \A message : t[Len(t)] # message =>
           Positions(t, message) = Positions(s, message)
      /\ \A message :
           Positions(t, message) \subseteq Positions(s, message) \cup {Len(t)}
  BY DEF Positions
<1>2. ASSUME NEW message, NEW i \in 0 .. Len(s) + 1
      PROVE  LastBefore(t, message, i) = LastBefore(s, message, i)
  <2>1. i \in Nat /\ Len(t) \in Nat /\ i <= Len(s) + 1 /\ i <= Len(t) + 1
    OBVIOUS
  <2>2. \A j \in 1 .. i - 1 : t[j] = s[j]
    BY <2>1
  <2>3. QED
    BY <2>1, <2>2, LastBeforeAgrees
<1>3. ASSUME NEW first, NEW last \in 0 .. Len(s) + 1
      PROVE  RunsBetween(t, first, last) = RunsBetween(s, first, last)
  BY DEF RunsBetween, Positions
<1>4. ASSUME NEW last \in 0 .. Len(s)
      PROVE  RequestsUpTo(t, last) = RequestsUpTo(s, last)
  BY DEF RequestsUpTo, Positions
<1>5. QED
  BY <1>1, <1>2, <1>3, <1>4

\* One GO more is one run more, one GETRESULTS one request.
LEMMA OneMoreRun ==
  ASSUME NEW s, Len(s) \in Nat, NEW first \in Nat, NEW i \in 1 .. Len(s), first < i
  PROVE  Cardinality(RunsBetween(s, first, i + 1))
           = Cardinality(RunsBetween(s, first, i)) + (IF s[i] = "GO" THEN 1 ELSE 0)
<1>1. IsFiniteSet(1 .. Len(s)) /\ RunsBetween(s, first, i) \subseteq 1 .. Len(s)
  BY FS_Interval DEF RunsBetween, Positions
<1>2. IsFiniteSet(RunsBetween(s, first, i)) /\ i \notin RunsBetween(s, first, i)
  BY <1>1, FS_Subset DEF RunsBetween
<1>3. CASE s[i] = "GO"
  <2>1. RunsBetween(s, first, i + 1) = RunsBetween(s, first, i) \cup {i}
    BY <1>3 DEF RunsBetween, Positions
  <2>2. QED
    BY <1>2, <1>3, <2>1, FS_AddElement
<1>4. CASE s[i] # "GO"
  <2>1. RunsBetween(s, first, i + 1) = RunsBetween(s, first, i)
    BY <1>4 DEF RunsBetween, Positions
  <2>2. QED
    BY <1>2, <1>4, <2>1, FS_CardinalityType
<1>5. QED
  BY <1>3, <1>4

LEMMA OneMoreRequest ==
  ASSUME NEW s, Len(s) \in Nat, NEW i \in 1 .. Len(s)
  PROVE  Cardinality(RequestsUpTo(s, i))
           = Cardinality(RequestsUpTo(s, i - 1))
               + (IF s[i] = "GETRESULTS" THEN 1 ELSE 0)
<1>1. IsFiniteSet(1 .. Len(s)) /\ RequestsUpTo(s, i - 1) \subseteq 1 .. Len(s)
  BY FS_Interval DEF RequestsUpTo, Positions
<1>2. IsFiniteSet(RequestsUpTo(s, i - 1)) /\ i \notin RequestsUpTo(s, i - 1)
  BY <1>1, FS_Subset DEF RequestsUpTo
<1>3. CASE s[i] = "GETRESULTS"
  <2>1. RequestsUpTo(s, i) = RequestsUpTo(s, i - 1) \cup {i}
    BY <1>3 DEF RequestsUpTo, Positions
  <2>2. QED
    BY <1>2, <1>3, <2>1, FS_AddElement
<1>4. CASE s[i] # "GETRESULTS"
  <2>1. RequestsUpTo(s, i) = RequestsUpTo(s, i - 1)
    BY <1>4 DEF RequestsUpTo, Positions
  <2>2. QED
    BY <1>2, <1>4, <2>1, FS_CardinalityType
<1>5. QED
  BY <1>3, <1>4

\* No more requests are handled than were made.
LEMMA RequestsAreCounted ==
  ASSUME NEW s, Len(s) \in Nat, NEW last \in Nat
  PROVE  /\ Cardinality(RequestsUpTo(s, last)) \in Nat
         /\ Cardinality(Positions(s, "GETRESULTS")) \in Nat
         /\ Cardinality(RequestsUpTo(s, last))
              <= Cardinality(Positions(s, "GETRESULTS"))
<1>1. IsFiniteSet(1 .. Len(s)) /\ Positions(s, "GETRESULTS") \subseteq 1 .. Len(s)
  BY FS_Interval DEF Positions
<1>2. IsFiniteSet(Positions(s, "GETRESULTS"))
  BY <1>1, FS_Subset
<1>3. RequestsUpTo(s, last) \subseteq Positions(s, "GETRESULTS")
  BY DEF RequestsUpTo
<1>4. QED
  BY <1>2, <1>3, FS_Subset, FS_CardinalityType

-----------------------------------------------------------------------------
LEMMA InitSessionInv == SessionInit => SessionInv
<1> SUFFICES ASSUME SessionInit PROVE SessionInv
  OBVIOUS
<1> USE OneNode DEF SessionInit, MQInit, WorkerInit
<1>1. /\ Len(asked) = 0 /\ TakenCount = 0 /\ Handled = 0 /\ Replied = 0 /\ Reported = 0
      /\ ~InHand
  BY DEF TakenCount, Handled, Replied, Reported, InHand
<1>2. SessionTypeOK
  BY DEF SessionTypeOK, WorkerTypeOK
<1>3. QueueInv /\ ReplyInv /\ ExitInv /\ RequestInv
  BY <1>1 DEF QueueInv, ReplyInv, ExitInv, RequestInv
<1>4. /\ \A first, last : RunsBetween(asked, first, last) = {}
      /\ \A last : RequestsUpTo(asked, last) = {}
      /\ Positions(asked, "GETRESULTS") = {}
  BY <1>1 DEF RunsBetween, RequestsUpTo, Positions
<1>5. Cardinality({}) = 0
  BY FS_EmptySet
<1>6. SessionConnectorInv
  <2>1. \A message : LastBefore(asked, message, 1) = 0
    BY <1>1, LastBeforeFirst
  <2>2. QED
    BY <1>1, <1>4, <1>5, <2>1 DEF SessionConnectorInv
<1>7. ResultsInv
  <2>1. Len(collected) = 0 /\ Len(dataQueue[Node]) = 0
    OBVIOUS
  <2>2. Cardinality(RequestsUpTo(asked, Reported)) = 0 /\ Requests = 0
    BY <1>4, <1>5 DEF Requests
  <2>3. QED
    BY <2>1, <2>2 DEF ResultsInv
<1>8. QED
  BY <1>2, <1>3, <1>6, <1>7 DEF SessionInv

-----------------------------------------------------------------------------
\* What depends on the commands carried out, and on the results reported, alone.
LEMMA ConnectorFrame ==
  ASSUME SessionConnectorInv, asked' = asked, Handled' = Handled,
         UNCHANGED <<connector, protobuf, runs>>
  PROVE  SessionConnectorInv'
BY DEF SessionConnectorInv

LEMMA ResultsFrame ==
  ASSUME ResultsInv, asked' = asked, Reported' = Reported,
         UNCHANGED <<collected, dataQueue>>
  PROVE  ResultsInv'
BY DEF ResultsInv, IsResult, Requests

\* A connection that is made takes and brings no message.
LEMMA ConnectStep ==
  ASSUME SessionInv,
         UNCHANGED <<toWorker, toController, dataQueue, workerVars, clientVars>>
  PROVE  SessionInv'
<1> USE DEF SessionInv, workerVars, clientVars
<1>1. /\ TakenCount' = TakenCount /\ Handled' = Handled /\ Replied' = Replied
      /\ Reported' = Reported /\ InHand' = InHand
  BY DEF TakenCount, Handled, Replied, Reported, InHand
<1>2. SessionTypeOK' /\ QueueInv' /\ ReplyInv' /\ ExitInv' /\ RequestInv'
  BY <1>1 DEF SessionTypeOK, WorkerTypeOK, QueueInv, ReplyInv, ExitInv, RequestInv
<1>3. SessionConnectorInv' /\ ResultsInv'
  BY <1>1, ConnectorFrame, ResultsFrame
<1>4. QED
  BY <1>2, <1>3

LEMMA AskStep ==
  ASSUME SessionInv, Ask, UNCHANGED workerVars
  PROVE  SessionInv'
<1> USE OneNode DEF SessionInv, workerVars, dataVars
<1>0. PICK x \in Alphabet :
      /\ x = "GETRESULTS" => Len(collected) = Requests
      /\ SendCommand(Node, x)
      /\ asked' = Append(asked, x)
  BY DEF Ask
<1>1. /\ x \in Commands \cup {NoMessage}
      /\ asked \in Seq(Commands \cup {NoMessage})
      /\ toWorker[Node] \in Seq(Commands \cup {NoMessage})
      /\ toWorker'[Node] = Append(toWorker[Node], x)
      /\ Len(toWorker'[Node]) = Len(toWorker[Node]) + 1
      /\ \A k \in 1 .. Len(toWorker[Node]) : toWorker'[Node][k] = toWorker[Node][k]
      /\ toWorker'[Node][Len(toWorker[Node]) + 1] = x
      /\ answered' = answered /\ collected' = collected
      /\ Len(asked) \in Nat /\ Len(toWorker[Node]) \in Nat
      /\ Len(answered) \in Nat /\ Len(toController[Node]) \in Nat
      /\ Len(collected) \in Nat /\ Len(dataQueue[Node]) \in Nat
  BY <1>0, AlphabetIsKnown DEF Ask, SessionTypeOK, SendCommand
<1>2. /\ Len(asked') = Len(asked) + 1
      /\ \A j \in 1 .. Len(asked) : asked'[j] = asked[j]
      /\ asked'[Len(asked) + 1] = x
  BY <1>0, <1>1
<1>3. /\ x # "GETRESULTS" =>
           Positions(asked', "GETRESULTS") = Positions(asked, "GETRESULTS")
      /\ Positions(asked, "GETRESULTS") \subseteq Positions(asked', "GETRESULTS")
      /\ Positions(asked', "GETRESULTS")
           \subseteq Positions(asked, "GETRESULTS") \cup {Len(asked')}
      /\ \A message, i : i \in 0 .. Len(asked) + 1 =>
           LastBefore(asked', message, i) = LastBefore(asked, message, i)
      /\ \A first, last : last \in 0 .. Len(asked) + 1 =>
           RunsBetween(asked', first, last) = RunsBetween(asked, first, last)
      /\ \A last : last \in 0 .. Len(asked) =>
           RequestsUpTo(asked', last) = RequestsUpTo(asked, last)
  <2>1. PICK t : t = asked'
    OBVIOUS
  <2>2. /\ Len(asked) \in Nat /\ Len(t) = Len(asked) + 1
        /\ \A j \in 1 .. Len(asked) : t[j] = asked[j]
        /\ t[Len(t)] = x
    BY ONLY <1>1, <1>2, <2>1
  <2>3. /\ x # "GETRESULTS" =>
              Positions(t, "GETRESULTS") = Positions(asked, "GETRESULTS")
        /\ Positions(asked, "GETRESULTS") \subseteq Positions(t, "GETRESULTS")
        /\ Positions(t, "GETRESULTS")
              \subseteq Positions(asked, "GETRESULTS") \cup {Len(t)}
    BY ONLY <2>2, OneMoreAsked
  <2>4. /\ \A message, i : i \in 0 .. Len(asked) + 1 =>
              LastBefore(t, message, i) = LastBefore(asked, message, i)
        /\ \A first, last : last \in 0 .. Len(asked) + 1 =>
              RunsBetween(t, first, last) = RunsBetween(asked, first, last)
        /\ \A last : last \in 0 .. Len(asked) =>
              RequestsUpTo(t, last) = RequestsUpTo(asked, last)
    BY ONLY <2>2, OneMoreAsked
  <2>5. QED
    BY <2>1, <2>3, <2>4, Zenon
<1>4. /\ TakenCount' = TakenCount /\ InHand' = InHand
      /\ Handled' = Handled /\ Replied' = Replied /\ Reported' = Reported
  <2>1. TakenCount' = TakenCount
    BY <1>1, <1>2 DEF TakenCount
  <2>2. InHand' = InHand /\ pc' = pc
    BY DEF InHand
  <2>3. QED
    BY <2>1, <2>2 DEF Handled, Replied, Reported
<1>5. /\ TakenCount \in 0 .. Len(asked) /\ Handled \in 0 .. Len(asked)
      /\ Replied \in 0 .. Len(asked) /\ Reported \in 0 .. Len(asked)
  BY <1>1 DEF QueueInv, TakenCount, Handled, Replied, Reported
<1>6. SessionTypeOK'
  BY <1>0, <1>1 DEF SessionTypeOK, WorkerTypeOK, Ask, SendCommand
<1>7. QueueInv'
  <2>1. ASSUME NEW k \in 1 .. Len(toWorker'[Node])
        PROVE  toWorker'[Node][k] = asked'[TakenCount + k]
    <3>1. CASE k \in 1 .. Len(toWorker[Node])
      <4>1. TakenCount + k \in 1 .. Len(asked)
        BY <3>1, <1>1, <1>5 DEF TakenCount
      <4>2. QED
        BY <3>1, <4>1, <1>1, <1>2 DEF QueueInv
    <3>2. CASE k = Len(toWorker[Node]) + 1
      BY <3>2, <1>1, <1>2, <1>5 DEF TakenCount
    <3>3. QED
      BY <3>1, <3>2, <1>1
  <2>2. QED
    <3>1. TakenCount' \in Nat
      BY <1>4, <1>5
    <3>2. (\A k \in 1 .. Len(toWorker[Node]) :
             toWorker[Node][k] = asked[TakenCount + k])'
      BY <2>1, <1>4
    <3>3. (pc[Node] = "down" => TakenCount = 0)'
      BY <1>4 DEF QueueInv
    <3>4. (InHand \/ pc[Node] = "reply" =>
             TakenCount >= 1 /\ request[Node] = asked[TakenCount])'
      <4>1. InHand \/ pc[Node] = "reply" =>
              TakenCount >= 1 /\ request[Node] = asked[TakenCount]
        BY DEF QueueInv
      <4>2. InHand \/ pc[Node] = "reply" => asked[TakenCount] = asked'[TakenCount]
        BY <4>1, <1>2, <1>5
      <4>3. QED
        BY <4>1, <4>2, <1>4
    <3>5. QED
      BY <3>1, <3>2, <3>3, <3>4 DEF QueueInv
<1>8. ReplyInv'
  <2>1. Len(answered) + Len(toController[Node]) \in 0 .. Len(asked)
    BY <1>5 DEF ReplyInv
  <2>2. QED
    <3>1. (Len(answered) + Len(toController[Node]) = Replied)'
      BY <1>0, <1>1, <1>4 DEF ReplyInv, SendCommand
    <3>2. \A k \in 1 .. Len(answered) : answered[k] = AnswerOf(asked'[k])
      BY <1>1, <1>2, <2>1 DEF ReplyInv
    <3>3. ASSUME NEW k \in 1 .. Len(toController[Node])
          PROVE  toController[Node][k] = AnswerOf(asked'[Len(answered) + k])
      <4>1. Len(answered) + k \in 1 .. Len(asked)
        BY <1>1, <2>1
      <4>2. QED
        BY <1>2, <4>1 DEF ReplyInv
    <3>4. (pc[Node] = "reply" => reply[Node] = AnswerOf(request[Node]))'
      BY DEF ReplyInv, AnswerOf
    <3>5. QED
      BY <1>0, <1>1, <3>1, <3>2, <3>3, <3>4 DEF ReplyInv, SendCommand
<1>9. ExitInv' /\ RequestInv'
  BY <1>2, <1>4, <1>5 DEF ExitInv, RequestInv
<1>10. SessionConnectorInv'
  <2>1. /\ LastBefore(asked', "INIT", Handled + 1)
             = LastBefore(asked, "INIT", Handled + 1)
        /\ LastBefore(asked', "GETRESULTS", Handled + 1)
             = LastBefore(asked, "GETRESULTS", Handled + 1)
        /\ \A first : RunsBetween(asked', first, Handled + 1)
                        = RunsBetween(asked, first, Handled + 1)
    <3>1. Handled + 1 \in 0 .. Len(asked) + 1
      BY <1>1, <1>5
    <3>2. QED
      BY <1>3, <3>1
  <2>2. QED
    BY <1>4, <2>1 DEF SessionConnectorInv
<1>11. ResultsInv'
  <2>1. ASSUME NEW row, NEW k, IsResult(row, k) PROVE IsResult(row, k)'
    <3>1. PICK g \in Positions(asked, "GETRESULTS") :
            /\ Cardinality(RequestsUpTo(asked, g)) = k
            /\ row.runs
                 = Cardinality(RunsBetween(asked, LastBefore(asked, "INIT", g), g))
      BY <2>1 DEF IsResult
    <3>2. g \in 0 .. Len(asked) /\ g \in 0 .. Len(asked) + 1
      BY <1>1 DEF Positions
    <3>3. QED
      BY <1>3, <3>1, <3>2 DEF IsResult
  <2>2. Requests' <= Len(collected) + 1
    <3>1. CASE x = "GETRESULTS"
      <4>1. Requests = Len(collected)
        BY <1>0, <3>1
      <4>2. /\ IsFiniteSet(1 .. Len(asked))
            /\ Positions(asked, "GETRESULTS") \subseteq 1 .. Len(asked)
        BY FS_Interval, <1>1 DEF Positions
      <4>3. IsFiniteSet(Positions(asked, "GETRESULTS"))
        BY <4>2, FS_Subset
      <4>4. /\ IsFiniteSet(Positions(asked, "GETRESULTS") \cup {Len(asked')})
            /\ Cardinality(Positions(asked, "GETRESULTS") \cup {Len(asked')})
                 \in {Requests, Requests + 1}
        BY <4>3, FS_AddElement DEF Requests
      <4>5. Requests' <= Cardinality(Positions(asked, "GETRESULTS") \cup {Len(asked')})
        BY <4>4, <1>3, FS_Subset DEF Requests
      <4>6. Requests' \in Nat
        BY <4>4, <1>3, FS_Subset, FS_CardinalityType DEF Requests
      <4>7. QED
        BY <4>1, <4>4, <4>5, <4>6, <1>1
    <3>2. CASE x # "GETRESULTS"
      BY <3>2, <1>3 DEF ResultsInv, Requests
    <3>3. QED
      BY <3>1, <3>2
  <2>3. QED
    <3>1. UNCHANGED <<collected, dataQueue>>
      BY <1>0 DEF Ask, SendCommand
    <3>2. (Len(collected) + Len(dataQueue[Node])
             = Cardinality(RequestsUpTo(asked, Reported)))'
      BY <3>1, <1>3, <1>4, <1>5 DEF ResultsInv
    <3>3. (\A k \in 1 .. Len(collected) : IsResult(collected[k], k))'
      BY <3>1, <2>1 DEF ResultsInv
    <3>4. (\A k \in 1 .. Len(dataQueue[Node]) :
             IsResult(dataQueue[Node][k], Len(collected) + k))'
      BY <3>1, <2>1 DEF ResultsInv
    <3>5. QED
      BY <2>2, <3>1, <3>2, <3>3, <3>4 DEF ResultsInv
<1>12. QED
  BY <1>6, <1>7, <1>8, <1>9, <1>10, <1>11

LEMMA TakeReplyStep ==
  ASSUME SessionInv, TakeReply, UNCHANGED workerVars
  PROVE  SessionInv'
<1> USE OneNode DEF SessionInv, workerVars, dataVars, HasNode
<1>0. HasNode /\ HasNode'
  BY NodeIsServed DEF TakeReply, ReceiveReply, SessionTypeOK
<1>1. /\ UNCHANGED <<asked, collected, toWorker, dataQueue>>
      /\ toController[Node] \in Seq(Replies \cup {NoMessage})
      /\ toController[Node] # <<>>
      /\ answered \in Seq(Replies \cup {NoMessage})
      /\ answered' = Append(answered, Head(toController[Node]))
      /\ toController' = [toController EXCEPT ![Node] = Tail(@)]
      /\ toController'[Node] = Tail(toController[Node])
  BY DEF TakeReply, ReceiveReply, SessionTypeOK
<1>2. /\ Len(answered) \in Nat /\ Len(answered') = Len(answered) + 1
      /\ \A k \in 1 .. Len(answered) : answered'[k] = answered[k]
      /\ answered'[Len(answered) + 1] = toController[Node][1]
      /\ Len(toController[Node]) \in Nat \ {0}
      /\ Len(toController'[Node]) = Len(toController[Node]) - 1
      /\ \A k \in 1 .. Len(toController'[Node]) :
           toController'[Node][k] = toController[Node][k + 1]
  <2>1. /\ Len(answered) \in Nat /\ Len(answered') = Len(answered) + 1
        /\ \A k \in 1 .. Len(answered) : answered'[k] = answered[k]
        /\ answered'[Len(answered) + 1] = Head(toController[Node])
    BY <1>1
  <2>2. ASSUME NEW q, q = toController[Node], NEW t, t = Tail(q)
        PROVE  /\ Head(q) = q[1] /\ Len(q) \in Nat \ {0} /\ Len(t) = Len(q) - 1
               /\ \A k \in 1 .. Len(t) : t[k] = q[k + 1]
    BY <1>1, <2>2
  <2>3. QED
    BY <1>0, <1>1, <2>1, <2>2
<1>3. /\ TakenCount' = TakenCount /\ InHand' = InHand
      /\ Handled' = Handled /\ Replied' = Replied /\ Reported' = Reported
  BY <1>1 DEF TakenCount, Handled, Replied, Reported, InHand
<1>4. SessionTypeOK'
  BY <1>1 DEF SessionTypeOK, WorkerTypeOK
<1>5. QueueInv' /\ ExitInv' /\ RequestInv'
  BY <1>1, <1>3 DEF QueueInv, ExitInv, RequestInv
<1>6. ReplyInv'
  <2>1. (Len(answered) + Len(toController[Node]) = Replied)'
    <3>1. Len(answered) + Len(toController[Node]) = Replied
      BY DEF ReplyInv
    <3>2. QED
      BY <1>0, <1>2, <1>3, <3>1
  <2>2. ASSUME NEW k \in 1 .. Len(answered')
        PROVE  answered'[k] = AnswerOf(asked[k])
    <3>1. CASE k \in 1 .. Len(answered)
      BY <3>1, <1>2 DEF ReplyInv
    <3>2. CASE k = Len(answered) + 1
      <4>1. 1 \in 1 .. Len(toController[Node])
        BY <1>2
      <4>2. toController[Node][1] = AnswerOf(asked[Len(answered) + 1])
        BY <4>1 DEF ReplyInv
      <4>3. QED
        BY <3>2, <4>2, <1>2
    <3>3. QED
      BY <3>1, <3>2, <1>2
  <2>3. ASSUME NEW k \in 1 .. Len(toController'[Node])
        PROVE  toController'[Node][k] = AnswerOf(asked[Len(answered') + k])
    <3>1. k + 1 \in 1 .. Len(toController[Node])
          /\ Len(answered) + (k + 1) = Len(answered') + k
      BY <1>2
    <3>2. QED
      BY <1>2, <3>1 DEF ReplyInv
  <2>4. (pc[Node] = "reply" => reply[Node] = AnswerOf(request[Node]))'
    BY DEF ReplyInv, AnswerOf
  <2>5. \A command : AnswerOf(command)' = AnswerOf(command)
    BY DEF AnswerOf
  <2>6. asked' = asked
    BY <1>1
  <2>7. (\A k \in 1 .. Len(answered) : answered[k] = AnswerOf(asked[k]))'
    BY <2>2, <2>5, <2>6
  <2>8. (\A k \in 1 .. Len(toController[Node]) :
           toController[Node][k] = AnswerOf(asked[Len(answered) + k]))'
    BY <2>3, <2>5, <2>6
  <2>9. QED
    BY <2>1, <2>4, <2>7, <2>8 DEF ReplyInv
<1>7. SessionConnectorInv' /\ ResultsInv'
  BY <1>1, <1>3, ConnectorFrame, ResultsFrame
<1>8. QED
  BY <1>4, <1>5, <1>6, <1>7

LEMMA TakeResultsStep ==
  ASSUME SessionInv, TakeResults, UNCHANGED workerVars
  PROVE  SessionInv'
<1> USE OneNode DEF SessionInv, workerVars, commandVars, HasNode
<1>0. HasNode /\ HasNode'
  BY NodeIsServed DEF TakeResults, ReceiveResultsAndClose, SessionTypeOK
<1>1. /\ UNCHANGED <<asked, answered, toWorker, toController>>
      /\ dataQueue[Node] \in Seq([hostname : Workers, runs : Nat])
      /\ dataQueue[Node] # <<>>
      /\ collected \in Seq([hostname : Workers, runs : Nat])
      /\ collected' = Append(collected, Head(dataQueue[Node]))
      /\ dataQueue' = [dataQueue EXCEPT ![Node] = <<>>]
      /\ dataQueue'[Node] = <<>>
  BY DEF TakeResults, ReceiveResultsAndClose, SessionTypeOK
<1>2. /\ Len(collected) \in Nat /\ Len(collected') = Len(collected) + 1
      /\ \A k \in 1 .. Len(collected) : collected'[k] = collected[k]
      /\ collected'[Len(collected) + 1] = dataQueue[Node][1]
      /\ Len(dataQueue[Node]) \in Nat \ {0} /\ Len(dataQueue'[Node]) = 0
  BY <1>1
<1>3. /\ TakenCount' = TakenCount /\ InHand' = InHand
      /\ Handled' = Handled /\ Replied' = Replied /\ Reported' = Reported
  BY <1>1 DEF TakenCount, Handled, Replied, Reported, InHand
<1>4. SessionTypeOK'
  <2>1. collected' \in Seq([hostname : Workers, runs : Nat])
    <3> DEFINE Rows == [hostname : Workers, runs : Nat]
    <3>1. /\ collected \in Seq(Rows) /\ dataQueue[Node] \in Seq(Rows)
          /\ dataQueue[Node] # <<>>
      BY <1>1
    <3> HIDE DEF Rows
    <3>2. Head(dataQueue[Node]) \in Rows
      BY <3>1
    <3>3. collected' \in Seq(Rows)
      BY <1>1, <3>1, <3>2
    <3>4. QED
      BY <3>3 DEF Rows
  <2>2. dataQueue' \in [Workers -> Seq([hostname : Workers, runs : Nat])]
    BY <1>1 DEF SessionTypeOK
  <2>3. QED
    BY <1>1, <2>1, <2>2 DEF SessionTypeOK, WorkerTypeOK
<1>5. QueueInv' /\ ExitInv' /\ RequestInv' /\ ReplyInv'
  BY <1>1, <1>3 DEF QueueInv, ExitInv, RequestInv, ReplyInv
<1>6. SessionConnectorInv'
  BY <1>1, <1>3, ConnectorFrame
<1>7. ResultsInv'
  <2>1. Len(asked) \in Nat /\ Reported \in Nat /\ Requests \in Nat
    <3>1. Len(asked) \in Nat
      BY DEF SessionTypeOK
    <3>2. QED
      BY <3>1, RequestsAreCounted
      DEF Requests, Reported, Handled, QueueInv, InHand
  <2>2. /\ Cardinality(RequestsUpTo(asked, Reported)) \in Nat
        /\ Cardinality(RequestsUpTo(asked, Reported)) <= Requests
    BY <2>1, RequestsAreCounted DEF Requests
  <2>3. Len(dataQueue[Node]) = 1
    <3>1. /\ Requests <= Len(collected) + 1
          /\ Len(collected) + Len(dataQueue[Node])
               = Cardinality(RequestsUpTo(asked, Reported))
      BY DEF ResultsInv
    <3>2. PICK c \in Nat, q \in Nat, k \in Nat, r \in Nat :
            /\ c = Len(collected) /\ q = Len(dataQueue[Node]) /\ q # 0
            /\ k = Cardinality(RequestsUpTo(asked, Reported)) /\ r = Requests
      BY <1>2, <2>1, <2>2
    <3>3. q >= 1 /\ c + q = k /\ k <= r /\ r <= c + 1
      BY <2>2, <3>1, <3>2
    <3>4. q = 1
      BY <3>3
    <3>5. QED
      BY <3>2, <3>4
  <2>4. (Len(collected) + Len(dataQueue[Node])
           = Cardinality(RequestsUpTo(asked, Reported)))'
    <3>1. Len(collected) + Len(dataQueue[Node])
            = Cardinality(RequestsUpTo(asked, Reported))
      BY DEF ResultsInv
    <3>2. QED
      BY <1>0, <1>1, <1>2, <1>3, <2>3, <3>1
  <2>5. Requests' <= Len(collected') + 1
    BY <1>1, <1>2, <2>1 DEF ResultsInv, Requests
  <2>6. ASSUME NEW k \in 1 .. Len(collected')
        PROVE  IsResult(collected'[k], k)
    <3>1. CASE k \in 1 .. Len(collected)
      BY <3>1, <1>2 DEF ResultsInv
    <3>2. CASE k = Len(collected) + 1
      BY <3>2, <1>2 DEF ResultsInv
    <3>3. QED
      BY <3>1, <3>2, <1>2
  <2>7. (\A k \in 1 .. Len(collected) : IsResult(collected[k], k))'
    BY <1>1, <2>6 DEF IsResult
  <2>8. QED
    BY <1>2, <2>4, <2>5, <2>7 DEF ResultsInv
<1>8. QED
  BY <1>4, <1>5, <1>6, <1>7

LEMMA ClientKeepsInv ==
  ASSUME SessionInv, ClientStep, UNCHANGED workerVars
  PROVE  SessionInv'
<1>1. CASE Open
  BY <1>1, ConnectStep DEF Open, ConnectCommand, dataVars, clientVars
<1>2. CASE OpenData
  BY <1>2, ConnectStep DEF OpenData, ConnectData, commandVars, clientVars
<1>3. QED
  BY <1>1, <1>2, AskStep, TakeReplyStep, TakeResultsStep DEF ClientStep

-----------------------------------------------------------------------------
\* The node's steps that carry out no command and send nothing.
LEMMA StartOrClose ==
  ASSUME SessionInv, StartWorker(Node) \/ CloseWorker(Node), UNCHANGED clientVars
  PROVE  SessionInv'
<1> USE OneNode DEF SessionInv, clientVars, HasNode, dataVars
<1>1. /\ SessionTypeOK' /\ HasNode /\ HasNode'
      /\ UNCHANGED <<toWorker, toController, dataQueue, clientVars,
                     state, connector, runs, protobuf, request, reply>>
      /\ \/ pc[Node] = "down" /\ pc'[Node] = "receive"
         \/ pc[Node] = "close" /\ pc'[Node] = "exited"
  BY NodeIsServed
  DEF StartWorker, BindCommand, CloseWorker, CloseCommandAtWorker, Goto,
      SessionTypeOK, WorkerTypeOK
<1>2. /\ TakenCount' = TakenCount /\ ~InHand /\ ~InHand'
      /\ Handled' = Handled /\ Replied' = Replied /\ Reported' = Reported
  BY <1>1 DEF TakenCount, Handled, Replied, Reported, InHand
<1>3. QueueInv' /\ RequestInv'
  BY <1>1, <1>2 DEF QueueInv, RequestInv
<1>4. ReplyInv'
  BY <1>1, <1>2 DEF ReplyInv, AnswerOf
<1>5. ExitInv'
  BY <1>1, <1>2 DEF ExitInv, QueueInv
<1>6. SessionConnectorInv' /\ ResultsInv'
  BY <1>1, <1>2, ConnectorFrame, ResultsFrame
<1>7. QED
  BY <1>1, <1>3, <1>4, <1>5, <1>6

\* The next command comes out of the queue.
LEMMA ReceiveStep ==
  ASSUME SessionInv, ReceiveRequest(Node), UNCHANGED clientVars
  PROVE  SessionInv'
<1> USE OneNode DEF SessionInv, clientVars, HasNode, dataVars
<1>1. /\ HasNode
      /\ UNCHANGED <<toController, dataQueue, clientVars,
                     state, connector, runs, protobuf, reply>>
      /\ toWorker[Node] \in Seq(Commands \cup {NoMessage})
      /\ toWorker[Node] # <<>>
      /\ toWorker' = [toWorker EXCEPT ![Node] = Tail(@)]
      /\ request' = [request EXCEPT ![Node] = Head(toWorker[Node])]
      /\ pc' = [pc EXCEPT ![Node] = "handle"]
      /\ pc[Node] = "receive"
  BY NodeIsServed DEF ReceiveRequest, ReceiveCommand, Goto, SessionTypeOK
<1>2. SessionTypeOK' /\ HasNode'
  <2>1. Head(toWorker[Node]) \in Commands \cup {NoMessage}
        /\ Tail(toWorker[Node]) \in Seq(Commands \cup {NoMessage})
    BY <1>1
  <2>2. SessionTypeOK'
    BY <1>1, <2>1 DEF SessionTypeOK, WorkerTypeOK
  <2>3. QED
    BY <2>2 DEF SessionTypeOK, WorkerTypeOK
<1>3. /\ Len(toWorker[Node]) \in Nat \ {0}
      /\ Len(toWorker'[Node]) = Len(toWorker[Node]) - 1
      /\ \A k \in 1 .. Len(toWorker'[Node]) : toWorker'[Node][k] = toWorker[Node][k + 1]
      /\ request'[Node] = toWorker[Node][1]
      /\ pc'[Node] = "handle"
  <2>1. toWorker'[Node] = Tail(toWorker[Node]) /\ request'[Node] = Head(toWorker[Node])
    BY <1>1
  <2>2. ASSUME NEW q, q = toWorker[Node], NEW t, t = Tail(q)
        PROVE  /\ Head(q) = q[1] /\ Len(q) \in Nat \ {0} /\ Len(t) = Len(q) - 1
               /\ \A k \in 1 .. Len(t) : t[k] = q[k + 1]
    BY <1>1, <2>2
  <2>3. QED
    BY <1>1, <2>1, <2>2
<1>4. /\ TakenCount \in Nat /\ TakenCount' = TakenCount + 1
      /\ Len(asked) \in Nat /\ TakenCount + 1 <= Len(asked)
  BY <1>1, <1>2, <1>3 DEF QueueInv, TakenCount, SessionTypeOK
<1>5. /\ Handled' = Handled /\ Replied' = Replied /\ Reported' = Reported
      /\ InHand' /\ ~InHand
  BY <1>1, <1>3, <1>4 DEF Handled, Replied, Reported, InHand
<1>6. QueueInv'
  <2>1. ASSUME NEW k \in 1 .. Len(toWorker'[Node])
        PROVE  toWorker'[Node][k] = asked[TakenCount' + k]
    <3>1. k + 1 \in 1 .. Len(toWorker[Node]) /\ TakenCount + (k + 1) = TakenCount' + k
      BY <1>2, <1>3, <1>4
    <3>2. QED
      BY <1>3, <3>1 DEF QueueInv
  <2>2. request'[Node] = asked[TakenCount']
    BY <1>3, <1>4 DEF QueueInv
  <2>3. QED
    BY <1>1, <1>3, <1>4, <2>1, <2>2 DEF QueueInv
<1>7. ReplyInv'
  BY <1>1, <1>2, <1>3, <1>5 DEF ReplyInv, AnswerOf
<1>8. ExitInv' /\ RequestInv'
  BY <1>1, <1>2, <1>3, <1>4 DEF ExitInv, RequestInv
<1>9. SessionConnectorInv' /\ ResultsInv'
  BY <1>1, <1>5, ConnectorFrame, ResultsFrame
<1>10. QED
  BY <1>2, <1>6, <1>7, <1>8, <1>9

\* A command in hand is the last of those taken, and the next to be carried out.
LEMMA CommandInHand ==
  ASSUME SessionInv, InHand
  PROVE  /\ Len(asked) \in Nat /\ TakenCount \in 1 .. Len(asked)
         /\ Handled = TakenCount - 1 /\ Handled + 1 = TakenCount
         /\ asked[TakenCount] = request[Node]
<1> USE OneNode DEF SessionInv, HasNode
<1>1. HasNode /\ Len(asked) \in Nat /\ Len(toWorker[Node]) \in Nat
  BY NodeIsServed DEF SessionTypeOK
<1>2. TakenCount \in Nat /\ TakenCount >= 1 /\ request[Node] = asked[TakenCount]
  BY DEF QueueInv
<1>3. TakenCount <= Len(asked)
  BY <1>1 DEF TakenCount
<1>4. Handled = TakenCount - 1
  BY DEF Handled
<1>5. QED
  BY <1>1, <1>2, <1>3, <1>4

\* What the connector is once the command in hand is carried out.
LEMMA CommandCarriedOut ==
  ASSUME SessionInv, InHand, asked' = asked, Handled' = TakenCount,
         request[Node] \in Commands \cup {NoMessage},
         connector'[Node] = IF request[Node] = "INIT" THEN "live"
                            ELSE IF request[Node] = "GETRESULTS" THEN "deleted"
                            ELSE connector[Node],
         protobuf'[Node] = IF request[Node] = "GETRESULTS" THEN "down"
                           ELSE protobuf[Node],
         runs'[Node] = IF request[Node] = "INIT" THEN 0
                       ELSE IF request[Node] = "GO" THEN runs[Node] + 1
                       ELSE runs[Node]
  PROVE  SessionConnectorInv'
<1> DEFINE T == TakenCount
           init == LastBefore(asked, "INIT", T)
           results == LastBefore(asked, "GETRESULTS", T)
           init1 == LastBefore(asked, "INIT", T + 1)
           results1 == LastBefore(asked, "GETRESULTS", T + 1)
<1>1. /\ Len(asked) \in Nat /\ T \in 1 .. Len(asked)
      /\ Handled = T - 1 /\ Handled + 1 = T /\ asked[T] = request[Node]
  BY CommandInHand
<1>2. /\ init \in 0 .. T - 1 /\ results \in 0 .. T - 1
      /\ connector[Node] = "live" <=> init > results
      /\ protobuf[Node] = "up" <=> results = 0
      /\ runs[Node] = Cardinality(RunsBetween(asked, init, T))
  BY <1>1 DEF SessionInv, SessionConnectorInv
<1>3. /\ init1 = IF request[Node] = "INIT" THEN T ELSE init
      /\ results1 = IF request[Node] = "GETRESULTS" THEN T ELSE results
  BY <1>1, LastBeforeNext
<1>4. runs'[Node] = Cardinality(RunsBetween(asked, init1, T + 1))
  <2>1. CASE request[Node] = "INIT"
    <3>1. RunsBetween(asked, T, T + 1) = {}
      BY <1>1 DEF RunsBetween, Positions
    <3>2. Cardinality({}) = 0
      BY FS_EmptySet
    <3>3. QED
      BY <1>3, <2>1, <3>1, <3>2
  <2>2. CASE request[Node] # "INIT"
    <3>1. Cardinality(RunsBetween(asked, init, T + 1))
            = Cardinality(RunsBetween(asked, init, T))
                + (IF asked[T] = "GO" THEN 1 ELSE 0)
      BY <1>1, <1>2, OneMoreRun
    <3>2. Cardinality(RunsBetween(asked, init, T)) \in Nat
      BY <1>2, OneNode DEF SessionInv, SessionTypeOK, WorkerTypeOK
    <3>3. QED
      BY <1>1, <1>2, <1>3, <2>2, <3>1, <3>2
  <2>3. QED
    BY <2>1, <2>2
<1> HIDE DEF init, results, init1, results1
<1>5. /\ init1 \in 0 .. T /\ results1 \in 0 .. T
      /\ connector'[Node] = "live" <=> init1 > results1
      /\ protobuf'[Node] = "up" <=> results1 = 0
  BY <1>1, <1>2, <1>3
<1>6. QED
  BY <1>4, <1>5 DEF SessionConnectorInv, init1, results1

\* A handler that ends: the reply is set, the connector is what the command makes
\* of it, and EXIT is the only command that leaves the loop.
LEMMA AnswerStep ==
  ASSUME SessionInv, SessionTypeOK',
         pc[Node] \in {"handle", "closeData"}, pc'[Node] = "reply",
         pc[Node] = "handle" => request[Node] # "GETRESULTS",
         reply'[Node] = AnswerOf(request[Node]),
         UNCHANGED <<request, toWorker, toController, dataQueue, clientVars>>,
         state'[Node] = "EXIT" <=> request[Node] = "EXIT",
         connector'[Node] = IF request[Node] = "INIT" THEN "live"
                            ELSE IF request[Node] = "GETRESULTS" THEN "deleted"
                            ELSE connector[Node],
         protobuf'[Node] = IF request[Node] = "GETRESULTS" THEN "down"
                           ELSE protobuf[Node],
         runs'[Node] = IF request[Node] = "INIT" THEN 0
                       ELSE IF request[Node] = "GO" THEN runs[Node] + 1
                       ELSE runs[Node]
  PROVE  SessionInv'
<1> USE OneNode DEF clientVars, HasNode
<1>1. HasNode /\ HasNode' /\ request[Node] \in Commands \cup {NoMessage}
  BY DEF SessionInv, SessionTypeOK, WorkerTypeOK
<1>2. /\ InHand /\ ~InHand' /\ TakenCount' = TakenCount
      /\ Handled' = TakenCount /\ Reported' = TakenCount
  BY DEF InHand, TakenCount, Handled, Reported
<1>3. /\ Len(asked) \in Nat /\ TakenCount \in 1 .. Len(asked)
      /\ Handled = TakenCount - 1 /\ asked[TakenCount] = request[Node]
  BY <1>2, CommandInHand
<1>4. Replied' = Replied
  BY <1>2 DEF Replied
<1>5. QueueInv'
  BY <1>1, <1>2, <1>3 DEF SessionInv, QueueInv
<1>6. ReplyInv'
  BY <1>1, <1>4 DEF SessionInv, ReplyInv, AnswerOf
<1>7. ExitInv' /\ RequestInv'
  BY <1>1, <1>2, <1>3 DEF SessionInv, ExitInv, RequestInv
<1>8. SessionConnectorInv'
  BY <1>1, <1>2, CommandCarriedOut
<1>9. ResultsInv'
  <2>1. CASE pc[Node] = "closeData"
    <3>1. Reported' = Reported
      BY <2>1, <1>2 DEF Reported
    <3>2. QED
      BY <3>1, ResultsFrame DEF SessionInv
  <2>2. CASE pc[Node] = "handle"
    <3>1. Reported = TakenCount - 1
      BY <2>2, <1>3 DEF Reported
    <3>2. Cardinality(RequestsUpTo(asked, TakenCount))
            = Cardinality(RequestsUpTo(asked, TakenCount - 1))
      <4>1. Cardinality(RequestsUpTo(asked, TakenCount - 1)) \in Nat
        <5>1. TakenCount - 1 \in Nat
          BY <1>3
        <5>2. QED
          BY <5>1, <1>3, RequestsAreCounted
      <4>2. asked[TakenCount] # "GETRESULTS"
        BY <2>2, <1>3
      <4>3. Cardinality(RequestsUpTo(asked, TakenCount))
              = Cardinality(RequestsUpTo(asked, TakenCount - 1)) + 0
        BY <1>3, <4>2, OneMoreRequest
      <4>4. QED
        BY <4>1, <4>3
    <3>3. QED
      BY <1>2, <3>1, <3>2 DEF SessionInv, ResultsInv, IsResult, Requests
  <2>3. QED
    BY <2>1, <2>2
<1>10. QED
  BY <1>5, <1>6, <1>7, <1>8, <1>9 DEF SessionInv

LEMMA HandlerStep ==
  ASSUME SessionInv, UNCHANGED clientVars,
         \/ HandleInit(Node) \/ HandleGo(Node) \/ HandleRestart(Node)
         \/ HandleExit(Node) \/ HandleUnknown(Node) \/ CloseData(Node)
  PROVE  SessionInv'
<1> USE OneNode
    DEF Answer, Goto, Dispatch, HasNode, mqVars, commandVars, dataVars, Commands,
        Replies
<1>1. /\ HasNode /\ runs \in [Workers -> Nat]
      /\ pc[Node] = "closeData" => request[Node] = "GETRESULTS" /\ state[Node] # "EXIT"
      /\ pc[Node] = "handle" => state[Node] # "EXIT"
  BY NodeIsServed DEF SessionInv, SessionTypeOK, WorkerTypeOK, RequestInv, ExitInv
<1>2. CASE HandleInit(Node)
  <2>1. SessionTypeOK'
    BY <1>2 DEF HandleInit, SessionInv, SessionTypeOK, WorkerTypeOK, clientVars
  <2>2. QED
    BY <1>1, <1>2, <2>1, AnswerStep DEF HandleInit, AnswerOf, AnswerTo
<1>3. CASE HandleGo(Node)
  <2>1. SessionTypeOK'
    BY <1>1, <1>3 DEF HandleGo, SessionInv, SessionTypeOK, WorkerTypeOK, clientVars
  <2>2. QED
    BY <1>1, <1>3, <2>1, AnswerStep DEF HandleGo, AnswerOf, AnswerTo
<1>4. CASE HandleRestart(Node)
  <2>1. SessionTypeOK'
    BY <1>4 DEF HandleRestart, SessionInv, SessionTypeOK, WorkerTypeOK, clientVars
  <2>2. QED
    BY <1>1, <1>4, <2>1, AnswerStep DEF HandleRestart, AnswerOf, AnswerTo
<1>5. CASE HandleExit(Node)
  <2>1. SessionTypeOK'
    BY <1>5 DEF HandleExit, SessionInv, SessionTypeOK, WorkerTypeOK, clientVars
  <2>2. QED
    BY <1>1, <1>5, <2>1, AnswerStep DEF HandleExit, AnswerOf, AnswerTo
<1>6. CASE HandleUnknown(Node)
  <2>1. SessionTypeOK'
    BY <1>6 DEF HandleUnknown, SessionInv, SessionTypeOK, WorkerTypeOK, clientVars
  <2>2. QED
    BY <1>1, <1>6, <2>1, AnswerStep DEF HandleUnknown, AnswerOf, AnswerTo
<1>7. CASE CloseData(Node)
  <2>1. SessionTypeOK'
    BY <1>7
    DEF CloseData, CloseDataAtWorker, SessionInv, SessionTypeOK, WorkerTypeOK,
        clientVars
  <2>2. QED
    BY <1>1, <1>7, <2>1, AnswerStep DEF CloseData, CloseDataAtWorker, AnswerOf, AnswerTo
<1>8. QED
  BY <1>2, <1>3, <1>4, <1>5, <1>6, <1>7

LEMMA GetResultsOrCrash ==
  ASSUME SessionInv, HandleGetResults(Node) \/ UndefinedUse(Node), UNCHANGED clientVars
  PROVE  SessionInv'
<1> USE OneNode DEF SessionInv, clientVars, HasNode, dataVars, commandVars
<1>1. /\ SessionTypeOK' /\ HasNode /\ HasNode'
      /\ UNCHANGED <<toWorker, toController, dataQueue, clientVars,
                     state, connector, runs, protobuf, request, reply>>
      /\ pc[Node] = "handle"
      /\ \/ pc'[Node] = "sendData" /\ request[Node] = "GETRESULTS"
         \/ /\ pc'[Node] = "crashed"
            /\ \/ /\ request[Node] = "GO"
                  /\ connector[Node] # "live" \/ protobuf[Node] # "up"
               \/ request[Node] = "GETRESULTS" /\ connector[Node] # "live"
  BY NodeIsServed
  DEF HandleGetResults, BindData, UndefinedUse, Goto, Dispatch, SessionTypeOK,
      WorkerTypeOK
<1>2. /\ TakenCount' = TakenCount /\ InHand /\ InHand'
      /\ Handled' = Handled /\ Replied' = Replied /\ Reported' = Reported
  BY <1>1 DEF TakenCount, Handled, Replied, Reported, InHand
<1>3. QueueInv' /\ RequestInv'
  BY <1>1, <1>2 DEF QueueInv, RequestInv
<1>4. ReplyInv' /\ ExitInv'
  BY <1>1, <1>2 DEF ReplyInv, AnswerOf, ExitInv
<1>5. SessionConnectorInv' /\ ResultsInv'
  BY <1>1, <1>2, ConnectorFrame, ResultsFrame
<1>6. QED
  BY <1>1, <1>3, <1>4, <1>5

\* The results of the connector are those of the GETRESULTS in hand.
LEMMA SendDataStep ==
  ASSUME SessionInv, SendData(Node), UNCHANGED clientVars
  PROVE  SessionInv'
<1> USE OneNode DEF SessionInv, clientVars, HasNode, commandVars
<1> DEFINE row == Results(Node)
<1>1. /\ HasNode
      /\ UNCHANGED <<toWorker, toController, clientVars,
                     state, connector, runs, protobuf, request, reply>>
      /\ dataQueue[Node] \in Seq([hostname : Workers, runs : Nat])
      /\ dataQueue' = [dataQueue EXCEPT ![Node] = Append(@, row)]
      /\ row \in [hostname : Workers, runs : Nat] /\ row.runs = runs[Node]
      /\ pc' = [pc EXCEPT ![Node] = "closeData"]
      /\ pc[Node] = "sendData" /\ request[Node] = "GETRESULTS"
  BY NodeIsServed
  DEF SendData, SendResults, Goto, Results, SessionTypeOK, WorkerTypeOK, RequestInv
<1> HIDE DEF row
<1>2. SessionTypeOK' /\ HasNode'
  <2>1. Append(dataQueue[Node], row) \in Seq([hostname : Workers, runs : Nat])
    <3> DEFINE Rows == [hostname : Workers, runs : Nat]
    <3>1. dataQueue[Node] \in Seq(Rows) /\ row \in Rows
      BY <1>1
    <3> HIDE DEF Rows
    <3>2. Append(dataQueue[Node], row) \in Seq(Rows)
      BY <3>1
    <3>3. QED
      BY <3>2 DEF Rows
  <2>2. SessionTypeOK'
    BY <1>1, <2>1 DEF SessionTypeOK, WorkerTypeOK
  <2>3. QED
    BY <2>2 DEF SessionTypeOK, WorkerTypeOK
<1>3. /\ Len(dataQueue[Node]) \in Nat
      /\ Len(dataQueue'[Node]) = Len(dataQueue[Node]) + 1
      /\ \A k \in 1 .. Len(dataQueue[Node]) : dataQueue'[Node][k] = dataQueue[Node][k]
      /\ dataQueue'[Node][Len(dataQueue[Node]) + 1] = row
      /\ pc'[Node] = "closeData"
  BY <1>1
<1>4. /\ TakenCount' = TakenCount /\ InHand /\ InHand'
      /\ Handled' = Handled /\ Replied' = Replied /\ Reported' = TakenCount
      /\ Reported = Handled
  BY <1>1, <1>3 DEF TakenCount, Handled, Replied, Reported, InHand
<1>5. /\ Len(asked) \in Nat /\ TakenCount \in 1 .. Len(asked)
      /\ Handled = TakenCount - 1 /\ Handled + 1 = TakenCount
      /\ asked[TakenCount] = "GETRESULTS"
  BY <1>1, <1>4, CommandInHand
<1>6. QueueInv' /\ RequestInv'
  BY <1>1, <1>2, <1>3, <1>4 DEF QueueInv, RequestInv
<1>7. ReplyInv' /\ ExitInv'
  BY <1>1, <1>2, <1>3, <1>4 DEF ReplyInv, AnswerOf, ExitInv
<1>8. SessionConnectorInv'
  BY <1>1, <1>4, ConnectorFrame
<1>9. ResultsInv'
  <2>1. Cardinality(RequestsUpTo(asked, TakenCount))
          = Cardinality(RequestsUpTo(asked, Reported)) + 1
    BY <1>4, <1>5, OneMoreRequest
  <2>2. PICK c \in Nat, q \in Nat :
          /\ c = Len(collected) /\ q = Len(dataQueue[Node])
          /\ Cardinality(RequestsUpTo(asked, Reported)) = c + q
    BY <1>3 DEF ResultsInv, SessionTypeOK
  <2>3. Cardinality(RequestsUpTo(asked, TakenCount)) = c + (q + 1)
    BY <2>1, <2>2
  <2>4. IsResult(row, c + (q + 1))
    <3>1. TakenCount \in Positions(asked, "GETRESULTS")
      BY <1>5 DEF Positions
    <3>2. row.runs
            = Cardinality(
                RunsBetween(asked, LastBefore(asked, "INIT", TakenCount), TakenCount))
      BY <1>1, <1>5 DEF SessionConnectorInv
    <3>3. QED
      BY <2>3, <3>1, <3>2 DEF IsResult
  <2>5. ASSUME NEW k \in 1 .. Len(dataQueue'[Node])
        PROVE  IsResult(dataQueue'[Node][k], Len(collected) + k)
    <3>1. CASE k \in 1 .. Len(dataQueue[Node])
      BY <3>1, <1>3 DEF ResultsInv
    <3>2. CASE k = q + 1
      BY <3>2, <1>3, <2>2, <2>4
    <3>3. QED
      BY <3>1, <3>2, <1>3, <2>2
  <2>6. (\A k \in 1 .. Len(dataQueue[Node]) :
           IsResult(dataQueue[Node][k], Len(collected) + k))'
    BY <1>1, <2>5 DEF IsResult
  <2>7. (Len(collected) + Len(dataQueue[Node])
           = Cardinality(RequestsUpTo(asked, Reported)))'
    BY <1>1, <1>2, <1>3, <1>4, <2>2, <2>3
  <2>8. (\A k \in 1 .. Len(collected) : IsResult(collected[k], k))'
    BY <1>1 DEF ResultsInv, IsResult
  <2>9. (Requests <= Len(collected) + 1)'
    BY <1>1 DEF ResultsInv, Requests
  <2>10. QED
    BY <2>6, <2>7, <2>8, <2>9 DEF ResultsInv
<1>10. QED
  BY <1>2, <1>6, <1>7, <1>8, <1>9

\* The reply joins those on their way, and the loop goes on unless it was EXIT.
LEMMA SendReplyStep ==
  ASSUME SessionInv, SendReply(Node), UNCHANGED clientVars
  PROVE  SessionInv'
<1> USE OneNode DEF SessionInv, clientVars, HasNode, dataVars
<1>1. /\ HasNode
      /\ UNCHANGED <<toWorker, dataQueue, clientVars,
                     state, connector, runs, protobuf, request, reply>>
      /\ toController[Node] \in Seq(Replies \cup {NoMessage})
      /\ reply[Node] \in Replies \cup {NoMessage}
      /\ toController' = [toController EXCEPT ![Node] = Append(@, reply[Node])]
      /\ pc'[Node] = IF state[Node] \in {"EXIT", "ERROR"} THEN "close" ELSE "receive"
      /\ pc[Node] = "reply"
      /\ request[Node] # NoMessage => request[Node] \in Commands
  BY NodeIsServed
  DEF SendReply, SendToController, Goto, SessionTypeOK, WorkerTypeOK
<1>2. SessionTypeOK' /\ HasNode'
  BY <1>1 DEF SendReply, SendToController, Goto, SessionTypeOK, WorkerTypeOK
<1>3. /\ Len(toController[Node]) \in Nat
      /\ Len(toController'[Node]) = Len(toController[Node]) + 1
      /\ \A k \in 1 .. Len(toController[Node]) :
           toController'[Node][k] = toController[Node][k]
      /\ toController'[Node][Len(toController[Node]) + 1] = reply[Node]
  BY <1>1
<1>4. /\ TakenCount' = TakenCount /\ ~InHand /\ ~InHand'
      /\ Handled' = Handled /\ Reported' = Reported
      /\ Replied = TakenCount - 1 /\ Replied' = TakenCount
      /\ TakenCount \in Nat /\ TakenCount >= 1 /\ request[Node] = asked[TakenCount]
  BY <1>1 DEF TakenCount, Handled, Replied, Reported, InHand, QueueInv
<1>5. QueueInv' /\ RequestInv'
  BY <1>1, <1>2, <1>4 DEF QueueInv, RequestInv
<1>6. ReplyInv'
  <2>1. PICK a \in Nat, q \in Nat :
          /\ a = Len(answered) /\ q = Len(toController[Node]) /\ a + q = TakenCount - 1
    BY <1>3, <1>4 DEF ReplyInv, SessionTypeOK
  <2>2. (Len(answered) + Len(toController[Node]) = Replied)'
    <3>1. a + (q + 1) = TakenCount
      BY <1>4, <2>1
    <3>2. QED
      BY <1>1, <1>2, <1>3, <1>4, <2>1, <3>1
  <2>3. reply[Node] = AnswerOf(asked[a + (q + 1)])
    BY <1>1, <1>4, <2>1 DEF ReplyInv
  <2>4. ASSUME NEW k \in 1 .. Len(toController'[Node])
        PROVE  toController'[Node][k] = AnswerOf(asked[Len(answered) + k])
    <3>1. CASE k \in 1 .. Len(toController[Node])
      BY <3>1, <1>3 DEF ReplyInv
    <3>2. CASE k = q + 1
      BY <3>2, <1>3, <2>1, <2>3
    <3>3. QED
      BY <3>1, <3>2, <1>3, <2>1
  <2>5. pc'[Node] # "reply"
    BY <1>1
  <2>6. QED
    BY <1>1, <2>2, <2>4, <2>5 DEF ReplyInv, AnswerOf
<1>7. ExitInv'
  <2>1. pc'[Node] = "receive" => \A j \in 1 .. TakenCount : asked[j] # "EXIT"
    BY <1>1, <1>4 DEF ExitInv
  <2>2. pc'[Node] = "receive" => state[Node] # "EXIT"
    BY <1>1
  <2>3. pc'[Node] \in {"receive", "close"}
    BY <1>1
  <2>4. QED
    BY <1>1, <1>4, <2>1, <2>2, <2>3 DEF ExitInv
<1>8. SessionConnectorInv' /\ ResultsInv'
  BY <1>1, <1>4, ConnectorFrame, ResultsFrame
<1>9. QED
  BY <1>2, <1>5, <1>6, <1>7, <1>8

-----------------------------------------------------------------------------
\* Every step of client and node keeps the invariant.
LEMMA SessionStep == SessionInv /\ [SessionNext]_sessionVars => SessionInv'
<1> SUFFICES ASSUME SessionInv, [SessionNext]_sessionVars PROVE SessionInv'
  OBVIOUS
<1>1. CASE ClientStep /\ UNCHANGED workerVars
  BY <1>1, ClientKeepsInv
<1>2. CASE WorkerStep(Node) /\ UNCHANGED clientVars
  BY <1>2, StartOrClose, ReceiveStep, HandlerStep, GetResultsOrCrash, SendDataStep,
     SendReplyStep
  DEF WorkerStep
<1>3. CASE UNCHANGED sessionVars
  BY <1>3, ConnectStep DEF sessionVars, mqVars, commandVars, dataVars
<1>4. QED
  BY <1>1, <1>2, <1>3 DEF SessionNext

\* SessionInv holds whatever the client sends, and however far ahead.
THEOREM SessionInvariantHolds == SessionSpec => []SessionInv
<1>1. SessionInit => SessionInv
  BY InitSessionInv
<1>2. SessionInv /\ [SessionNext]_sessionVars => SessionInv'
  BY SessionStep
<1>3. QED
  BY <1>1, <1>2, PTL DEF SessionSpec

\* RepliesInOrder: the k-th reply answers the k-th command, and nothing after
\* EXIT is answered.
THEOREM AnswersInOrder == SessionSpec => []RepliesInOrder
<1>1. SessionInv => RepliesInOrder
  <2> SUFFICES ASSUME SessionInv PROVE RepliesInOrder
    OBVIOUS
  <2> USE OneNode DEF SessionInv
  <2>1. PICK a \in Nat, q \in Nat, t \in Nat, l \in Nat :
          /\ a = Len(answered) /\ q = Len(toController[Node])
          /\ l = Len(asked) /\ t = TakenCount
    <3>1. /\ Len(answered) \in Nat /\ Len(toController[Node]) \in Nat
          /\ Len(asked) \in Nat
      BY DEF SessionTypeOK
    <3>2. TakenCount \in Nat
      BY DEF QueueInv
    <3>3. QED
      BY <3>1, <3>2, Zenon
  <2>2. t <= l
    <3>1. PICK w \in Nat : w = Len(toWorker[Node])
      BY DEF SessionTypeOK
    <3>2. t = l - w
      BY <2>1, <3>1 DEF TakenCount
    <3>3. QED
      BY <3>2
  <2>3. a <= t
    BY <2>1 DEF ReplyInv, Replied
  <2>4. ASSUME NEW k \in 1 .. Len(answered)
        PROVE  answered[k] = IF asked[k] \in Commands THEN AnswerTo[asked[k]]
                             ELSE NoMessage
    BY DEF ReplyInv, AnswerOf
  <2>5. ASSUME NEW k \in 1 .. Len(answered), NEW j \in 1 .. k - 1
        PROVE  asked[j] # "EXIT"
    BY <2>1, <2>3 DEF ExitInv
  <2>6. QED
    BY <2>1, <2>2, <2>3, <2>4, <2>5 DEF RepliesInOrder
<1>2. QED
  BY <1>1, SessionInvariantHolds, PTL

\* What has been taken of a session is what had been asked for up to then.
LEMMA TakenIsPrefix ==
  ASSUME SessionInv
  PROVE  /\ Len(Taken) = TakenCount /\ TakenCount \in Nat /\ TakenCount <= Len(asked)
         /\ \A j \in 1 .. TakenCount : Taken[j] = asked[j]
<1>1. TakenCount \in Nat /\ asked \in Seq(Commands \cup {NoMessage})
      /\ toWorker[Node] \in Seq(Commands \cup {NoMessage})
  BY OneNode DEF SessionInv, SessionTypeOK, QueueInv
<1>2. TakenCount <= Len(asked)
  BY <1>1 DEF TakenCount
<1>3. Taken = SubSeq(asked, 1, TakenCount)
  BY DEF Taken, TakenCount
<1>4. QED
  BY <1>1, <1>2, <1>3

\* CrashOnlyOnMisuse: the node dies only of a GO or a GETRESULTS that no legal
\* session has at that place.
THEOREM CrashNeedsMisuse == SessionSpec => []CrashOnlyOnMisuse
<1>1. SessionInv => CrashOnlyOnMisuse
  <2> SUFFICES ASSUME SessionInv, pc[Node] = "crashed", Legal(Taken) PROVE FALSE
    BY DEF CrashOnlyOnMisuse
  <2> DEFINE T == TakenCount
  <2>1. /\ InHand /\ T \in 1 .. Len(asked) /\ Handled + 1 = T
        /\ asked[T] = request[Node] /\ Len(asked) \in Nat
    BY CommandInHand DEF InHand
  <2>2. /\ Len(Taken) = T /\ Taken[T] = request[Node]
        /\ \A j \in 1 .. T - 1 : Taken[j] = asked[j]
    BY <2>1, TakenIsPrefix
  <2>3. \A message : LastBefore(Taken, message, T) = LastBefore(asked, message, T)
    BY <2>1, <2>2, LastBeforeAgrees
  <2>4. /\ connector[Node] = "live"
             <=> LastBefore(Taken, "INIT", T) > LastBefore(Taken, "GETRESULTS", T)
        /\ protobuf[Node] = "up" <=> LastBefore(Taken, "GETRESULTS", T) = 0
    BY <2>1, <2>3 DEF SessionInv, SessionConnectorInv
  <2>5. T \in Positions(Taken, request[Node])
    BY <2>1, <2>2 DEF Positions
  <2>6. QED
    BY <2>4, <2>5 DEF SessionInv, RequestInv, Legal
<1>2. QED
  BY <1>1, SessionInvariantHolds, PTL

\* ResultsSinceInit: the k-th results are those of the k-th GETRESULTS, and sum
\* up the runs since the INIT before it.
THEOREM ResultsOfRequests == SessionSpec => []ResultsSinceInit
<1>1. SessionInv => ResultsSinceInit
  BY DEF SessionInv, ResultsInv, IsResult, RequestsUpTo, RunsBetween, ResultsSinceInit
<1>2. QED
  BY <1>1, SessionInvariantHolds, PTL
=============================================================================
