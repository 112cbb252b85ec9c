------------------------------ MODULE Simulator ------------------------------
(***************************************************************************)
(* Simulator (src/Simulator.cc) at several nodes: bursts of accesses that  *)
(* an access pattern generates, to a database behind RiakJavaKeyValueDB    *)
(* and MessageSender, or to the dummy.  DBConnector::burnInOut() is the    *)
(* same loop over the same objects.                                        *)
(*                                                                         *)
(* The values are all the same (ConstantValueDistribution), so that the    *)
(* database knows only which keys are stored.  A caller uses the public    *)
(* operations in any order.  In "undefined" a node has used a pointer that *)
(* was never set, or divided by zero: nothing is claimed about it any more.*)
(***************************************************************************)
EXTENDS Broker, AccessPatterns

CONSTANTS
  Configurations,    \* the worker configurations of the nodes
  MaxBurst,          \* bound: accesses in one call
  MaxCalls           \* bound: calls, of all nodes

ASSUME SimulatorAssumption ==
  /\ \A c \in Configurations :
       /\ c.ratio \in Nat /\ c.minKey \in Int /\ c.maxKey \in Int
       /\ c.minKey <= c.maxKey /\ c.minKey .. c.maxKey \subseteq Keys
  /\ \E v \in Values : Values = {v}
  /\ MaxBurst \in Nat /\ MaxCalls \in Nat

VARIABLES
  pc,          \* where the node is
  config,      \* its configuration
  mode,        \* the operation in progress
  left,        \* accesses it has left
  unwritten,   \* keys initialise() has left
  access,      \* the access in progress or just made, with what the database answered
  reads,       \* counters of simulate(), never reset
  writes,
  runs,        \* the parameter of simulate() or burnInOut()
  asked,       \* history: accesses asked of simulate()
  accesses,    \* history: all accesses
  calls,       \* history: operations called
  filled       \* history: the configurations the database has been initialised with

simVars == <<pc, config, mode, left, unwritten, access, reads, writes, runs,
             asked, accesses, calls, filled>>
vars == <<simVars, brokerVars>>

TheValue == CHOOSE v \in Values : TRUE

NoAccess == [made |-> FALSE, read |-> FALSE, key |-> Empty, sure |-> FALSE, value |-> Empty]

Init ==
  /\ BrokerInit
  /\ pc = [n \in Nodes |-> "start"]
  /\ config \in [Nodes -> Configurations]
  /\ mode = [n \in Nodes |-> "none"]
  /\ left = [n \in Nodes |-> 0]
  /\ unwritten = [n \in Nodes |-> {}]
  /\ access = [n \in Nodes |-> NoAccess]
  /\ reads = [n \in Nodes |-> 0]
  /\ writes = [n \in Nodes |-> 0]
  /\ runs = [n \in Nodes |-> 0]
  /\ asked = [n \in Nodes |-> 0]
  /\ accesses = [n \in Nodes |-> 0]
  /\ calls = 0
  /\ filled = {}

\* A RiakJavaKeyValueDB has a MessageSender.
UsesBroker(n) == config[n].database = "RiakJava"

Goto(n, label) == pc' = [pc EXCEPT ![n] = label]

-----------------------------------------------------------------------------
\* The constructor goes through accessPattern, which an unknown type leaves
\* unset.
Construct(n) ==
  /\ pc[n] = "start"
  /\ Goto(n, IF config[n].pattern \in KnownPatterns THEN "idle" ELSE "undefined")
  /\ UNCHANGED <<config, mode, left, unwritten, access, reads, writes, runs,
                 asked, accesses, calls, filled, brokerVars>>

Call(n, operation) ==
  /\ pc[n] = "idle"
  /\ calls < MaxCalls
  /\ calls' = calls + 1
  /\ mode' = [mode EXCEPT ![n] = operation]
  /\ Goto(n, "loop")
  /\ UNCHANGED <<config, access, reads, writes, accesses, filled, brokerVars>>

Repeat(n, k) ==
  /\ runs' = [runs EXCEPT ![n] = k]
  /\ left' = [left EXCEPT ![n] = k]
  /\ UNCHANGED unwritten

Simulate(n) ==
  \E k \in 0 .. MaxBurst :
    /\ Call(n, "simulate")
    /\ Repeat(n, k)
    /\ asked' = [asked EXCEPT ![n] = @ + k]

BurnInOut(n) ==
  \E k \in 0 .. MaxBurst :
    /\ Call(n, "burn")
    /\ Repeat(n, k)
    /\ UNCHANGED asked

\* KeyValueDB::initialise() with getInitialisationKeyValuePairs().  (That of
\* RiakJavaKeyValueDB, which does nothing, only hides it: it is not virtual.)
\* The call is commented out in the constructor: here the caller makes it.
Initialise(n) ==
  /\ Call(n, "initialise")
  /\ unwritten' = [unwritten EXCEPT ![n] = InitialisationKeys(config[n])]
  /\ UNCHANGED <<runs, left, asked>>

\* Mutant of Counted: the loops of simulate() and burnInOut() are one.
CountedAlways(n, isRead) ==
  /\ reads' = [reads EXCEPT ![n] = IF isRead THEN @ + 1 ELSE @]
  /\ writes' = [writes EXCEPT ![n] = IF isRead THEN @ ELSE @ + 1]

\* Only simulate() counts, and before it calls the database.
Counted(n, isRead) ==
  LET counts == mode[n] = "simulate" IN
    /\ reads' = [reads EXCEPT ![n] = IF counts /\ isRead THEN @ + 1 ELSE @]
    /\ writes' = [writes EXCEPT ![n] = IF counts /\ ~isRead THEN @ + 1 ELSE @]

\* The keys that n may draw have been initialised.
Initialised(n) ==
  \E c \in filled : InitialisationKeys(config[n]) \subseteq InitialisationKeys(c)

\* getValue() or putValue() of the node's database: a RiakJavaKeyValueDB sends
\* a request, a dummy or RamCloudKeyValueDB (whose code is commented out)
\* returns at once, and an unknown type left no object.
Access(n, isRead, key) ==
  /\ access' = [access EXCEPT ![n] = [made |-> TRUE, read |-> isRead, key |-> key,
                                      sure |-> Initialised(n), value |-> Empty]]
  /\ Goto(n, CASE UsesBroker(n) -> "send"
               [] config[n].database \in {"Dummy", "RamCloud"} -> "loop"
               [] OTHER -> "undefined")
  /\ accesses' = [accesses EXCEPT ![n] = IF UsesBroker(n) THEN @ + 1 ELSE @]

GetNext(n) ==
  /\ pc[n] = "loop" /\ left[n] > 0
  /\ ~DividesByZero(config[n])
  /\ \E r, s \in 0 .. RandMax :
       LET next == NextAccess(config[n], r, s) IN
         Counted(n, next.read) /\ Access(n, next.read, next.key)
  /\ left' = [left EXCEPT ![n] = @ - 1]
  /\ UNCHANGED <<config, mode, unwritten, runs, asked, calls, filled, brokerVars>>

GetNextOfOneKey(n) ==
  /\ pc[n] = "loop" /\ left[n] > 0
  /\ DividesByZero(config[n])
  /\ Goto(n, "undefined")
  /\ UNCHANGED <<config, mode, left, unwritten, access, reads, writes, runs, asked, accesses,
                 calls, filled, brokerVars>>

\* The pairs are in the order of a map: any order here.
PutInitial(n) ==
  /\ pc[n] = "loop"
  /\ \E k \in unwritten[n] :
       /\ unwritten' = [unwritten EXCEPT ![n] = @ \ {k}]
       /\ Access(n, FALSE, k)
  /\ UNCHANGED <<config, mode, left, reads, writes, runs, asked, calls, filled,
                 brokerVars>>

SendRequest(n) ==
  /\ pc[n] = "send"
  /\ Send(n, IF access[n].read THEN Get(access[n].key) ELSE Put(access[n].key, TheValue))
  /\ Goto(n, "receive")
  /\ UNCHANGED <<config, mode, left, unwritten, access, reads, writes, runs,
                 asked, accesses, calls, filled>>

\* An error is only logged; getValue() then returns the empty string.
ReceiveAnswer(n) ==
  /\ pc[n] = "receive"
  /\ Receive(n) \/ Interrupt(n)
  /\ access' = [access EXCEPT ![n].value =
                  IF access[n].read /\ reply[n].op = "OK" THEN reply[n].value ELSE Empty]
  /\ Goto(n, "loop")
  /\ UNCHANGED <<config, mode, left, unwritten, reads, writes, runs, asked,
                 accesses, calls, filled>>

\* getResults()
Results(n) == [reads |-> reads[n], writes |-> writes[n]]

Ended(n) == pc[n] = "loop" /\ left[n] = 0 /\ unwritten[n] = {}

\* The last line of output of simulate() divides integers by runs.
EndOfSimulate(n) ==
  /\ Ended(n) /\ mode[n] = "simulate"
  /\ Goto(n, IF runs[n] = 0 THEN "undefined" ELSE "idle")
  /\ UNCHANGED filled

EndOfBurnInOut(n) ==
  /\ Ended(n) /\ mode[n] = "burn"
  /\ Goto(n, "idle")
  /\ UNCHANGED filled

EndOfInitialise(n) ==
  /\ Ended(n) /\ mode[n] = "initialise"
  /\ Goto(n, "idle")
  /\ filled' = IF UsesBroker(n) /\ interrupts[n] = 0
               THEN filled \cup {config[n]} ELSE filled

Return(n) ==
  /\ EndOfSimulate(n) \/ EndOfBurnInOut(n) \/ EndOfInitialise(n)
  /\ access' = [access EXCEPT ![n] = NoAccess]
  /\ mode' = [mode EXCEPT ![n] = "none"]
  /\ runs' = [runs EXCEPT ![n] = 0]
  /\ UNCHANGED <<config, left, unwritten, reads, writes, asked, accesses, calls,
                 brokerVars>>

\* The destructor deletes the database, and with it the MessageSender.
Destroy(n) ==
  /\ pc[n] = "idle"
  /\ calls < MaxCalls
  /\ calls' = calls + 1
  /\ Close(n)
  /\ Goto(n, "gone")
  /\ UNCHANGED <<config, mode, left, unwritten, access, reads, writes, runs, asked,
                 accesses, filled>>

NodeStep(n) ==
  \/ Construct(n)
  \/ GetNext(n)
  \/ GetNextOfOneKey(n)
  \/ PutInitial(n)
  \/ SendRequest(n)
  \/ ReceiveAnswer(n)
  \/ Return(n)

CallerStep(n) == Simulate(n) \/ BurnInOut(n) \/ Initialise(n) \/ Destroy(n)

Next ==
  \E n \in Nodes : NodeStep(n) \/ CallerStep(n) \/ (Serve(n) /\ UNCHANGED simVars)

Spec == Init /\ [][Next]_vars

\* The nodes' threads run and the broker answers; nobody has to call anything.
FairSpec ==
  Spec /\ \A n \in Nodes : WF_vars(NodeStep(n)) /\ WF_vars(Serve(n) /\ UNCHANGED simVars)

-----------------------------------------------------------------------------
(***************************************************************************)
(* AccessPattern.h, of getInitialisationKeyValuePairs(): "This prevents    *)
(* access to non-existend items".  Once a node has initialised the         *)
(* database, without an interrupted receive, every read of every node      *)
(* brings a value, whatever key its pattern draws, until one of its own    *)
(* receives is interrupted.                                                *)
(***************************************************************************)
InitialisedReadsFind ==
  \A n \in Nodes :
    pc[n] = "loop" /\ access[n].read /\ access[n].sure /\ UsesBroker(n)
      /\ interrupts[n] = 0 => access[n].value # Empty

(***************************************************************************)
(* Every access the loops have counted off has reached the database, less  *)
(* at most one for every interrupted receive of that node, when the socket *)
(* refuses the next request.                                               *)
(***************************************************************************)
LostAccessesAreBounded ==
  \A n \in Nodes :
    pc[n] \in {"idle", "gone"} =>
      accesses[n] - (executed[n].PUT + executed[n].GET) \in 0 .. interrupts[n]

(***************************************************************************)
(* Simulator.h: "Perform burn in or burn out, dous not count towards       *)
(* statistics".  reads and writes sum up what simulate() was asked for, in *)
(* all its calls, whatever was called in between.                          *)
(***************************************************************************)
OnlySimulateCounts ==
  \A n \in Nodes :
    pc[n] # "undefined" =>
      Results(n).reads + Results(n).writes =
        asked[n] - (IF mode[n] = "simulate" THEN left[n] ELSE 0)

(***************************************************************************)
(* Every operation returns, interrupted receives or not, unless it divides *)
(* by zero or has no database.                                             *)
(***************************************************************************)
OperationsReturn ==
  \A n \in Nodes : pc[n] = "loop" ~> pc[n] \in {"idle", "undefined"}

-----------------------------------------------------------------------------
(***************************************************************************)
(* calculateDurationMicroseconds(): the difference of two clock readings   *)
(* in unsigned integers, which has to come out right although the          *)
(* nanoseconds of the later reading may be the fewer.  (The result is in   *)
(* nanoseconds here: the last line of the function divides it by 1000.0.   *)
(* The steps above do not measure time.)                                   *)
(***************************************************************************)
Second == 1000000000

\* A struct timespec as clock_gettime() fills it.
Timespec == [sec : Nat, nsec : 0 .. Second - 1]

Nanoseconds(t) == t.sec * Second + t.nsec

\* uint64_t has Modulus = 2^64.
Duration(start, stop, Modulus) ==
  LET secondsDifference     == (stop.sec - start.sec) % Modulus
      nanosecondsDifference == (stop.nsec - start.nsec) % Modulus
  IN  (nanosecondsDifference + ((secondsDifference * Second) % Modulus)) % Modulus
=============================================================================
