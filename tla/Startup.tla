------------------------------- MODULE Startup -------------------------------
(***************************************************************************)
(* From main() to the role of the process (src/KeyValueClusterPerf.cc):    *)
(* the options, then controllerConfiguration.xml, whose host entries are   *)
(* expanded into the two parallel lists the controller goes by, then       *)
(* workerConfiguration.xml.  Every process reads both files, whatever its  *)
(* role.  A file that cannot be read, or a missing or malformed field,     *)
(* throws, and main returns 1.                                             *)
(***************************************************************************)
EXTENDS Integers, Sequences, SequencesExt

CONSTANTS
  HostEntries,    \* the <host> entries that may be in the file
  MaxEntries,     \* bound: how many of them
  HostLimits      \* values of the option hostLimit; -1 when it is not given

ASSUME StartupAssumption ==
  /\ \A h \in HostEntries :
       /\ h.firstCommandPort \in Int /\ h.firstDataPort \in Int
       /\ h.numberOfNodes \in Int /\ h.wellFormed \in BOOLEAN
  /\ MaxEntries \in Nat
  /\ HostLimits \subseteq Int

VARIABLES
  options,        \* controller, worker, help: given or not; hostLimit
  hosts,          \* the entries of controllerConfiguration.xml
  workerFile,     \* workerConfiguration.xml is well formed
  pc,             \* where main() is
  entry,          \* the entry that is being expanded
  i,              \* the node of that entry
  commandHosts,   \* Configuration::commandHosts
  dataHosts,      \* Configuration::dataHosts
  role            \* what main() starts: "controller" or "worker"

inputs == <<options, hosts, workerFile>>
vars == <<inputs, pc, entry, i, commandHosts, dataHosts, role>>

Endpoint(address, port) == [address |-> address, port |-> port]

Init ==
  /\ options \in [controller : BOOLEAN, worker : BOOLEAN, help : BOOLEAN,
                  hostLimit : HostLimits]
  /\ hosts \in BoundedSeq(HostEntries, MaxEntries)
  /\ workerFile \in BOOLEAN
  /\ pc = "options"
  /\ entry = 1
  /\ i = 0
  /\ commandHosts = <<>>
  /\ dataHosts = <<>>
  /\ role = "none"

\* "--help", both roles or neither: a message, and main returns 0.
ParseCommandLine ==
  /\ pc = "options"
  /\ pc' = IF options.help \/ options.controller = options.worker
           THEN "exit 0" ELSE "hosts"
  /\ UNCHANGED <<inputs, entry, i, commandHosts, dataHosts, role>>

LimitReached == options.hostLimit > 0 /\ i >= options.hostLimit

\* The four gets of an entry come before its nodes; any of them may throw.
MalformedEntry ==
  /\ pc = "hosts"
  /\ entry <= Len(hosts)
  /\ ~hosts[entry].wellFormed
  /\ pc' = "exit 1"
  /\ UNCHANGED <<inputs, entry, i, commandHosts, dataHosts, role>>

\* Adding a node: which is the last, and how the two endpoints are stored.
AddNodeIf(more, command, data) ==
  /\ pc = "hosts"
  /\ entry <= Len(hosts)
  /\ hosts[entry].wellFormed
  /\ more
  /\ ~LimitReached
  /\ commandHosts' = command
  /\ dataHosts' = data
  /\ i' = i + 1
  /\ UNCHANGED <<inputs, pc, entry, role>>

CommandEndpoint == Endpoint(hosts[entry].address, hosts[entry].firstCommandPort + i)
DataEndpoint == Endpoint(hosts[entry].address, hosts[entry].firstDataPort + i)

\* Mutants of AddNode: push_front for push_back of the data host; the command
\* port used twice.
AddDataHostInFront ==
  AddNodeIf(i < hosts[entry].numberOfNodes,
            Append(commandHosts, CommandEndpoint), <<DataEndpoint>> \o dataHosts)
AddCommandPortTwice ==
  AddNodeIf(i < hosts[entry].numberOfNodes,
            Append(commandHosts, CommandEndpoint), Append(dataHosts, CommandEndpoint))

AddNode ==
  AddNodeIf(i < hosts[entry].numberOfNodes,
            Append(commandHosts, CommandEndpoint), Append(dataHosts, DataEndpoint))

\* Mutant of NextEntry: the counter is declared outside the loop over entries.
KeepCounting ==
  /\ pc = "hosts"
  /\ entry <= Len(hosts)
  /\ hosts[entry].wellFormed
  /\ i >= hosts[entry].numberOfNodes \/ LimitReached
  /\ entry' = entry + 1
  /\ UNCHANGED <<inputs, pc, i, commandHosts, dataHosts, role>>

NextEntry ==
  /\ pc = "hosts"
  /\ entry <= Len(hosts)
  /\ hosts[entry].wellFormed
  /\ i >= hosts[entry].numberOfNodes \/ LimitReached
  /\ entry' = entry + 1
  /\ i' = 0
  /\ UNCHANGED <<inputs, pc, commandHosts, dataHosts, role>>

EndOfHosts ==
  /\ pc = "hosts"
  /\ entry > Len(hosts)
  /\ pc' = "worker file"
  /\ UNCHANGED <<inputs, entry, i, commandHosts, dataHosts, role>>

ParseWorkerXML ==
  /\ pc = "worker file"
  /\ pc' = IF workerFile THEN "start" ELSE "exit 1"
  /\ UNCHANGED <<inputs, entry, i, commandHosts, dataHosts, role>>

Start ==
  /\ pc = "start"
  /\ role' = IF options.controller THEN "controller" ELSE "worker"
  /\ pc' = "running"
  /\ UNCHANGED <<inputs, entry, i, commandHosts, dataHosts>>

Next ==
  \/ ParseCommandLine
  \/ MalformedEntry
  \/ AddNode
  \/ NextEntry
  \/ EndOfHosts
  \/ ParseWorkerXML
  \/ Start

Spec == Init /\ [][Next]_vars

-----------------------------------------------------------------------------
\* The nodes of an entry that are used.
Used(h) ==
  IF options.hostLimit > 0 /\ options.hostLimit < h.numberOfNodes
  THEN 0 .. options.hostLimit - 1
  ELSE 0 .. h.numberOfNodes - 1

CommandPorts(h) == {h.firstCommandPort + j : j \in Used(h)}
DataPorts(h) == {h.firstDataPort + j : j \in Used(h)}

\* The two port ranges of an entry are apart, and entries of one address too.
Disjoint ==
  /\ \A e \in 1 .. Len(hosts) : CommandPorts(hosts[e]) \cap DataPorts(hosts[e]) = {}
  /\ \A e, f \in 1 .. Len(hosts) :
       e # f /\ hosts[e].address = hosts[f].address =>
         (CommandPorts(hosts[e]) \cup DataPorts(hosts[e]))
           \cap (CommandPorts(hosts[f]) \cup DataPorts(hosts[f])) = {}

(***************************************************************************)
(* The controller pops dataHosts once per command connection: it relies on *)
(* the two lists having one entry per node each, in the same order, the    *)
(* k-th ones being the two ports of the same process.                      *)
(***************************************************************************)
PairedByIndex ==
  /\ Len(commandHosts) = Len(dataHosts)
  /\ \A k \in 1 .. Len(commandHosts) :
       \E e \in 1 .. Len(hosts) : \E j \in Used(hosts[e]) :
         /\ commandHosts[k] = Endpoint(hosts[e].address, hosts[e].firstCommandPort + j)
         /\ dataHosts[k] = Endpoint(hosts[e].address, hosts[e].firstDataPort + j)

(***************************************************************************)
(* A PAIR socket talks to one peer only, so the controller must never be   *)
(* given the same endpoint twice, nor a command port that is a data port.  *)
(* Nothing checks it: it holds of the files whose port ranges do not meet. *)
(***************************************************************************)
EndpointsDistinct ==
  Disjoint =>
    LET all == commandHosts \o dataHosts
    IN  \A j, k \in 1 .. Len(all) : all[j] = all[k] => j = k

(***************************************************************************)
(* A process that starts has been given one role, and has all the nodes of *)
(* both files: each entry of the host file has its nodes in the lists, as  *)
(* many as it asks for or the limit allows, whatever the other entries.    *)
(***************************************************************************)
StartedWithEveryNode ==
  pc = "running" =>
    /\ role = IF options.worker THEN "worker" ELSE "controller"
    /\ options.controller # options.worker
    /\ workerFile
    /\ \A e \in 1 .. Len(hosts) :
         /\ hosts[e].wellFormed
         /\ \A j \in Used(hosts[e]) :
              Endpoint(hosts[e].address, hosts[e].firstCommandPort + j) \in ToSet(commandHosts)

(***************************************************************************)
(* KeyValueClusterPerf.cc: "Maximum number of worker nodes to connect", of *)
(* the option hostLimit.                                                   *)
(***************************************************************************)
HostLimitHolds == options.hostLimit > 0 => Len(commandHosts) <= options.hostLimit
=============================================================================
