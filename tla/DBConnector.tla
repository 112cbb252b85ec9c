----------------------------- MODULE DBConnector -----------------------------
(***************************************************************************)
(* DBConnector::run() (src/DBConnector.cc) at several nodes at once.  Each *)
(* node goes over its copy of the same directory tree, in the order its    *)
(* file system gives, and for every file writes the contents to the        *)
(* database and reads them back, over a REQ socket to the broker.          *)
(*                                                                         *)
(* The key is the file name without its directory and extension: files of  *)
(* different directories, and the files of different nodes, may share it.  *)
(* A file stands for its contents.  Broker has the socket.                 *)
(***************************************************************************)
EXTENDS Broker, FiniteSets

CONSTANTS
  KeyOf,         \* KeyOf[f]: the key file f is stored under
  SizeOf,        \* SizeOf[f]: the bytes of the serialized object
  BytesLimit,    \* Configuration::bytesLimit; -1 when the option is not given
  MaxRuns        \* bound: calls of run(), of all nodes

Files == Values

ASSUME ConnectorAssumption ==
  /\ Files \subseteq Nat
  /\ KeyOf \in [Files -> Keys]
  /\ SizeOf \in [Files -> Nat]
  /\ BytesLimit \in Nat \cup {-1}
  /\ MaxRuns \in Nat

VARIABLES
  pc,           \* where run() is, at each node
  todo,         \* files directoryIterator has not reached
  file,         \* the file being sent
  value,        \* what getValue() returned
  loaded,       \* mLoadedObjects
  total,        \* mTotalDataSize
  calls         \* how often run() was called

nodeVars == <<pc, todo, file, value, loaded, total, calls>>
vars == <<nodeVars, brokerVars>>

Init ==
  /\ BrokerInit
  /\ pc = [n \in Nodes |-> "idle"]
  /\ todo = [n \in Nodes |-> {}]
  /\ file = [n \in Nodes |-> Empty]
  /\ value = [n \in Nodes |-> Empty]
  /\ loaded = [n \in Nodes |-> 0]
  /\ total = [n \in Nodes |-> 0]
  /\ calls = [n \in Nodes |-> 0]

Goto(n, label) == pc' = [pc EXCEPT ![n] = label]

-----------------------------------------------------------------------------
\* GO: run() starts over the whole tree, without resetting a counter.
Run(n) ==
  /\ pc[n] \in {"idle", "returned"}
  /\ SumFunction(calls) < MaxRuns
  /\ calls' = [calls EXCEPT ![n] = @ + 1]
  /\ todo' = [todo EXCEPT ![n] = Files]
  /\ Goto(n, "next")
  /\ UNCHANGED <<file, value, loaded, total, brokerVars>>

\* load(): the counters take what is about to be sent.
Count(n, f) ==
  /\ loaded' = [loaded EXCEPT ![n] = @ + 1]
  /\ total' = [total EXCEPT ![n] = @ + SizeOf[f]]

Load(n) ==
  /\ pc[n] = "next"
  /\ \E f \in todo[n] :
       /\ file' = [file EXCEPT ![n] = f]
       /\ todo' = [todo EXCEPT ![n] = @ \ {f}]
       /\ Count(n, f)
  /\ Goto(n, "put")
  /\ UNCHANGED <<value, calls, brokerVars>>

SendPut(n) ==
  /\ pc[n] = "put"
  /\ Send(n, Put(KeyOf[file[n]], file[n]))
  /\ Goto(n, "putReply")
  /\ UNCHANGED <<todo, file, value, loaded, total, calls>>

\* Mutant of ReceivePut: putValue() does not wait for the reply.
ReceivePutLater(n) ==
  /\ pc[n] = "putReply"
  /\ Goto(n, "get")
  /\ UNCHANGED <<todo, file, value, loaded, total, calls, brokerVars>>

\* An error is only logged.
ReceivePut(n) ==
  /\ pc[n] = "putReply"
  /\ Receive(n) \/ Interrupt(n)
  /\ Goto(n, "get")
  /\ UNCHANGED <<todo, file, value, loaded, total, calls>>

SendGet(n) ==
  /\ pc[n] = "get"
  /\ Send(n, Get(KeyOf[file[n]]))
  /\ Goto(n, "getReply")
  /\ UNCHANGED <<todo, file, value, loaded, total, calls>>

\* Mutant of ReceiveGet: getValue() does not wait for the reply.
ReceiveGetLater(n) ==
  /\ pc[n] = "getReply"
  /\ Goto(n, "create")
  /\ UNCHANGED <<todo, file, value, loaded, total, calls, brokerVars>>

ReceiveGet(n) ==
  /\ pc[n] = "getReply"
  /\ Receive(n) \/ Interrupt(n)
  /\ value' = [value EXCEPT ![n] = reply[n].value]
  /\ Goto(n, "create")
  /\ UNCHANGED <<todo, file, loaded, total, calls>>

\* Mutant of OverLimit: ">=" for ">", without the test for "no limit".
OverLimitUnguarded(n) == total[n] >= BytesLimit

OverLimit(n) == BytesLimit # -1 /\ total[n] > BytesLimit

\* create(), then the test at the end of the loop body, where the variables of
\* the body go out of scope.  Without any bytes create() takes the address of
\* an element that is not there, and reads an object from an empty buffer:
\* in "undefined" nothing is claimed about the node any more.
Create(n) ==
  /\ pc[n] = "create"
  /\ \/ Goto(n, IF OverLimit(n) THEN "returned" ELSE "next")
     \/ value[n] = Empty /\ Goto(n, "undefined")
  /\ file' = [file EXCEPT ![n] = Empty]
  /\ value' = [value EXCEPT ![n] = Empty]
  /\ UNCHANGED <<todo, loaded, total, calls, brokerVars>>

EndOfTree(n) ==
  /\ pc[n] = "next"
  /\ todo[n] = {}
  /\ Goto(n, "returned")
  /\ UNCHANGED <<todo, file, value, loaded, total, calls, brokerVars>>

\* The destructor: afterwards there is no connector at the node.
Delete(n) ==
  /\ pc[n] \in {"idle", "returned"}
  /\ Close(n)
  /\ Goto(n, "deleted")
  /\ UNCHANGED <<todo, file, value, loaded, total, calls>>

NodeStep(n) ==
  \/ Load(n)
  \/ SendPut(n)
  \/ ReceivePut(n)
  \/ SendGet(n)
  \/ ReceiveGet(n)
  \/ Create(n)
  \/ EndOfTree(n)

Next == \E n \in Nodes : Run(n) \/ Delete(n) \/ NodeStep(n) \/ (Serve(n) /\ UNCHANGED nodeVars)

Spec == Init /\ [][Next]_vars

\* The nodes' threads run, and the broker answers; nobody has to send GO.
FairSpec ==
   Spec /\ \A n \in Nodes : WF_vars(NodeStep(n)) /\ WF_vars(Serve(n) /\ UNCHANGED nodeVars)

-----------------------------------------------------------------------------
(***************************************************************************)
(* The object rebuilt by create() was stored under the key of the file     *)
(* just sent, by this node or another.  Nothing in the messages ties a     *)
(* reply to a request, so an interrupted receive shifts the replies by     *)
(* one; but the failed send that follows shifts them back.  It takes one   *)
(* interrupt for create() to get nothing, two for it to get an object of   *)
(* another key.                                                            *)
(***************************************************************************)
ReadsBackItsKey ==
  \A n \in Nodes :
    pc[n] = "create" =>
      \/ value[n] # Empty /\ KeyOf[value[n]] = KeyOf[file[n]]
      \/ value[n] = Empty /\ interrupts[n] >= 1
      \/ interrupts[n] >= 2

(***************************************************************************)
(* The number of objects a node reports is that of the objects it stored,  *)
(* less at most one for every interrupted receive: a send refused by the   *)
(* socket loses a PUT that the counters have already counted.              *)
(***************************************************************************)
LostPutsAreBounded ==
  \A n \in Nodes :
    pc[n] \in {"next", "returned", "deleted"} =>
      loaded[n] - executed[n].PUT \in 0 .. interrupts[n]

(***************************************************************************)
(* The limit ends every call of run() after the first file that exceeds    *)
(* it, and nothing else does: a call that returned either went over the    *)
(* whole tree or over the limit, and exceeds it by that one file, or by    *)
(* one file for each call, since the total is never reset.                 *)
(***************************************************************************)
LimitEndsRun ==
  \A n \in Nodes :
    /\ pc[n] = "returned" =>
         todo[n] = {} \/ (BytesLimit # -1 /\ total[n] > BytesLimit)
    /\ BytesLimit # -1 /\ loaded[n] > 0 =>
         \E f \in Files : total[n] <= BytesLimit + calls[n] * SizeOf[f]

(***************************************************************************)
(* Every call of run() returns, interrupted receives or not: no receive    *)
(* ever waits for the reply to a request that was refused by the socket.   *)
(* What create() does with nothing is left open.                           *)
(***************************************************************************)
RunReturns ==
  \A n \in Nodes :
    pc[n] = "next" ~> pc[n] = "returned" \/ (pc[n] = "undefined" /\ interrupts[n] > 0)

(***************************************************************************)
(* KeyValueClusterPerf.cc: "Maximum number of bytes to transmit", of the   *)
(* option bytesLimit.                                                      *)
(***************************************************************************)
BytesWithinLimit == BytesLimit # -1 => \A n \in Nodes : total[n] <= BytesLimit
=============================================================================
