---------------------------- MODULE WorkerSession ----------------------------
(***************************************************************************)
(* One node and a client that need not be the controller of               *)
(* src/SimulationController.cc: it sends any commands of Alphabet in any   *)
(* order, up to MaxOutstanding of them without waiting for the replies.    *)
(* This is the contract of the node taken alone: what a client has to      *)
(* respect for SimulationWorker::run() to be defined, and what it then     *)
(* gets.  No node of a cluster is ever sent RESTART, or an unknown command *)
(* unless a receive is interrupted: here they happen.                      *)
(***************************************************************************)
EXTENDS SimulationWorker, FiniteSets

CONSTANTS
  Alphabet,         \* the commands the client uses
  MaxCommands,      \* bound: how many it sends
  MaxOutstanding    \* bound: how many it sends ahead of the replies

ASSUME SessionAssumption ==
  /\ N = 1
  /\ Alphabet \subseteq Commands \cup {NoMessage}
  /\ MaxCommands \in Nat /\ MaxOutstanding \in Nat

Node == 1

VARIABLES
  asked,       \* the commands the client has sent
  answered,    \* the replies it has received
  collected    \* the results it has received

clientVars == <<asked, answered, collected>>
sessionVars == <<mqVars, workerVars, clientVars>>

SessionInit ==
  /\ MQInit
  /\ WorkerInit
  /\ asked = <<>>
  /\ answered = <<>>
  /\ collected = <<>>

Positions(s, message) == {i \in 1 .. Len(s) : s[i] = message}

Requests == Cardinality(Positions(asked, "GETRESULTS"))

Owed == Len(asked) - Len(answered)

Open ==
  /\ Node \notin linked
  /\ ConnectCommand(Node)
  /\ UNCHANGED clientVars

\* The data socket reconnects as long as it is open: results sent before it is
\* closed are lost with it.  So the client asks for results again only when it
\* has those it asked for.
Ask ==
  /\ Len(asked) < MaxCommands
  /\ Owed < MaxOutstanding
  /\ \E command \in Alphabet :
       /\ command = "GETRESULTS" => Len(collected) = Requests
       /\ SendCommand(Node, command)
       /\ asked' = Append(asked, command)
  /\ UNCHANGED <<answered, collected>>

TakeReply ==
  /\ ReceiveReply(Node)
  /\ answered' = Append(answered, Head(toController[Node]))
  /\ UNCHANGED <<asked, collected>>

\* A client that has asked for results opens a data socket to take them.
OpenData ==
  /\ dataLinked = NoWorker
  /\ Len(collected) < Requests
  /\ ConnectData(Node)
  /\ UNCHANGED clientVars

TakeResults ==
  /\ ReceiveResultsAndClose(Node)
  /\ collected' = Append(collected, Head(dataQueue[Node]))
  /\ UNCHANGED <<asked, answered>>

ClientStep == Open \/ Ask \/ TakeReply \/ OpenData \/ TakeResults

SessionNext ==
  \/ ClientStep /\ UNCHANGED workerVars
  \/ WorkerStep(Node) /\ UNCHANGED clientVars

SessionSpec == SessionInit /\ [][SessionNext]_sessionVars

\* The node's thread runs; the client may stop asking, but takes what it asked for.
FairSessionSpec ==
  /\ SessionSpec
  /\ WF_sessionVars(WorkerStep(Node) /\ UNCHANGED clientVars)
  /\ WF_sessionVars((Open \/ TakeReply \/ OpenData \/ TakeResults) /\ UNCHANGED workerVars)

-----------------------------------------------------------------------------
\* The commands the node has taken from its socket.
Taken == SubSeq(asked, 1, Len(asked) - Len(toWorker[Node]))

LastBefore(s, message, i) ==
  LET before == {j \in Positions(s, message) : j < i}
  IN  IF before = {} THEN 0 ELSE CHOOSE j \in before : \A k \in before : k <= j

\* GO and GETRESULTS come after an INIT that no GETRESULTS has undone, and GO
\* comes before the first GETRESULTS of the process.
Legal(s) ==
  /\ \A i \in Positions(s, "GO") \cup Positions(s, "GETRESULTS") :
       LastBefore(s, "INIT", i) > LastBefore(s, "GETRESULTS", i)
  /\ \A i \in Positions(s, "GO") : LastBefore(s, "GETRESULTS", i) = 0

AnswerTo ==
  [command \in Commands |->
     CASE command = "INIT" -> "INITDONE"
       [] command = "GO" -> "RESULTSREADY"
       [] command = "GETRESULTS" -> "DONERESULTS"
       [] command = "RESTART" -> "RESTARTING"
       [] command = "EXIT" -> "EXITING"]

(***************************************************************************)
(* Replies carry no identification.  Whatever is sent, and however far     *)
(* ahead, the k-th reply answers the k-th command; an unknown command is   *)
(* answered by an empty message, and nothing after EXIT is answered.       *)
(***************************************************************************)
RepliesInOrder ==
  /\ Len(answered) <= Len(asked)
  /\ \A k \in 1 .. Len(answered) :
       /\ answered[k] = IF asked[k] \in Commands THEN AnswerTo[asked[k]] ELSE NoMessage
       /\ \A j \in 1 .. k - 1 : asked[j] # "EXIT"

(***************************************************************************)
(* The contract: the use of a connector that was never created, or was     *)
(* deleted, or whose library is gone, happens only to a client whose       *)
(* commands so far are not a legal session.  INIT may be repeated.         *)
(***************************************************************************)
CrashOnlyOnMisuse == pc[Node] = "crashed" => ~Legal(Taken)

(***************************************************************************)
(* In a legal session the k-th results are those of the k-th GETRESULTS,   *)
(* and they sum up every run since the last INIT before it: a second INIT  *)
(* starts from zero, RESTART does not.                                     *)
(***************************************************************************)
ResultsSinceInit ==
  Legal(Taken) =>
    \A k \in 1 .. Len(collected) :
      \E g \in Positions(asked, "GETRESULTS") :
        /\ Cardinality({j \in Positions(asked, "GETRESULTS") : j <= g}) = k
        /\ collected[k].runs =
             Cardinality({j \in Positions(asked, "GO") :
                            LastBefore(asked, "INIT", g) < j /\ j < g})

(***************************************************************************)
(* A node that does not crash and is not told to exit ends up waiting with *)
(* every command answered and every result delivered: neither side can be  *)
(* left in a send or a receive, whatever the order of the two connections. *)
(***************************************************************************)
EveryCommandAnswered ==
  <>[](\/ pc[Node] \in {"crashed", "exited"}
       \/ /\ Len(answered) = Len(asked)
          /\ Len(collected) = Requests)
=============================================================================
