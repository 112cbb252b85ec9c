--------------------------- MODULE StartupProofs -----------------------------
(***************************************************************************)
(* Proofs, for any host entries and limits, that the two lists Startup     *)
(* makes of the host file are parallel, that they give no endpoint twice   *)
(* if the port ranges are apart, and that a process that starts has them   *)
(* complete.                                                               *)
(***************************************************************************)
EXTENDS Startup, TLAPS

Endpoints == [address : {h.address : h \in HostEntries}, port : Int]

Labels == {"options", "hosts", "worker file", "start", "running", "exit 0", "exit 1"}

TypeOK ==
  /\ options \in [controller : BOOLEAN, worker : BOOLEAN, help : BOOLEAN,
                  hostLimit : HostLimits]
  /\ hosts \in Seq(HostEntries)
  /\ workerFile \in BOOLEAN
  /\ pc \in Labels
  /\ entry \in 1 .. Len(hosts) + 1
  /\ i \in Nat
  /\ commandHosts \in Seq(Endpoints)
  /\ dataHosts \in Seq(Endpoints)

CommandEndpointOf(e, j) == Endpoint(hosts[e].address, hosts[e].firstCommandPort + j)
DataEndpointOf(e, j) == Endpoint(hosts[e].address, hosts[e].firstDataPort + j)

\* Node j of entry e has been added.
Added(e, j) == j \in Used(hosts[e]) /\ (e < entry \/ (e = entry /\ j < i))

\* The k-th ones of both lists are the endpoints of a node that was added.
Paired ==
  /\ Len(commandHosts) = Len(dataHosts)
  /\ \A k \in 1 .. Len(commandHosts) :
       \E e \in 1 .. Len(hosts) : \E j \in Nat :
         /\ Added(e, j)
         /\ commandHosts[k] = CommandEndpointOf(e, j)
         /\ dataHosts[k] = DataEndpointOf(e, j)

\* No endpoint is in the lists twice.
Distinct ==
  \A k, l \in 1 .. Len(commandHosts) :
    /\ commandHosts[k] # dataHosts[l]
    /\ k # l => commandHosts[k] # commandHosts[l] /\ dataHosts[k] # dataHosts[l]

\* What has been read is in the lists.
Complete ==
  \A e \in 1 .. Len(hosts) :
    /\ e < entry => hosts[e].wellFormed
    /\ \A j \in Used(hosts[e]) :
         Added(e, j) =>
            \E k \in 1 .. Len(commandHosts) : commandHosts[k] = CommandEndpointOf(e, j)

\* How far main() has come.
Progress ==
  /\ pc = "options" => entry = 1 /\ i = 0
  /\ entry = Len(hosts) + 1 => i = 0
  /\ pc \notin {"options", "exit 0"} => options.controller # options.worker
  /\ pc \in {"worker file", "start", "running"} => entry = Len(hosts) + 1
  /\ pc \in {"start", "running"} => workerFile
  /\ pc = "running" => role = IF options.worker THEN "worker" ELSE "controller"

IInv == TypeOK /\ Paired /\ (Disjoint => Distinct) /\ Complete /\ Progress

-----------------------------------------------------------------------------
LEMMA EndpointsEqual ==
  ASSUME NEW a, NEW b, NEW p, NEW q, Endpoint(a, p) = Endpoint(b, q)
  PROVE  a = b /\ p = q
BY DEF Endpoint

LEMMA EntryFields ==
  ASSUME TypeOK, NEW e \in 1 .. Len(hosts)
  PROVE  /\ hosts[e] \in HostEntries
         /\ hosts[e].firstCommandPort \in Int /\ hosts[e].firstDataPort \in Int
         /\ hosts[e].numberOfNodes \in Int /\ hosts[e].wellFormed \in BOOLEAN
         /\ options.hostLimit \in Int
<1>1. hosts[e] \in HostEntries /\ options.hostLimit \in HostLimits
  BY DEF TypeOK
<1>2. QED
  BY <1>1, StartupAssumption

LEMMA UsedAreNat == \A h : Used(h) \subseteq Int /\ \A j \in Used(h) : 0 <= j
BY DEF Used

\* The lists change, the inputs do not.
LEMMA InputsFrame ==
  ASSUME options' = options, hosts' = hosts
  PROVE  /\ Disjoint' = Disjoint
         /\ \A e \in 1 .. Len(hosts) : Used(hosts[e])' = Used(hosts[e])
         /\ \A e, j : /\ CommandEndpointOf(e, j)' = CommandEndpointOf(e, j)
                     /\ DataEndpointOf(e, j)' = DataEndpointOf(e, j)
<1>1. \A h : Used(h)' = Used(h)
  BY DEF Used
<1>2. \A h : CommandPorts(h)' = CommandPorts(h) /\ DataPorts(h)' = DataPorts(h)
  BY <1>1 DEF CommandPorts, DataPorts
<1>3. Disjoint' = Disjoint
  BY <1>2 DEF Disjoint
<1>4. \A e, j : /\ CommandEndpointOf(e, j)' = CommandEndpointOf(e, j)
               /\ DataEndpointOf(e, j)' = DataEndpointOf(e, j)
  BY DEF CommandEndpointOf, DataEndpointOf
<1>5. QED
  BY <1>1, <1>3, <1>4

LEMMA InitIInv == Init => IInv
<1> SUFFICES ASSUME Init PROVE IInv
  OBVIOUS
<1> USE DEF Init
<1>1. hosts \in Seq(HostEntries)
  BY StartupAssumption DEF BoundedSeq, SeqOf
<1>2. Len(hosts) \in Nat
  BY <1>1
<1>3. TypeOK
  BY <1>1, <1>2 DEF TypeOK, Labels
<1>4. Paired /\ Distinct
  BY DEF Paired, Distinct
<1>5. Complete
  BY <1>2, UsedAreNat DEF Complete, Added
<1>6. Progress
  BY <1>2 DEF Progress
<1>7. QED
  BY <1>3, <1>4, <1>5, <1>6 DEF IInv

-----------------------------------------------------------------------------
\* The node that AddNode adds, and what the limit leaves of its entry.
LEMMA NewNode ==
  ASSUME TypeOK, AddNode
  PROVE  /\ entry \in 1 .. Len(hosts) /\ i \in Used(hosts[entry]) /\ ~Added(entry, i)
         /\ CommandEndpointOf(entry, i) \in Endpoints /\ DataEndpointOf(entry, i) \in Endpoints
         /\ commandHosts' = Append(commandHosts, CommandEndpointOf(entry, i))
         /\ dataHosts' = Append(dataHosts, DataEndpointOf(entry, i))
         /\ hosts[entry].wellFormed /\ i' = i + 1 /\ pc = "hosts"
         /\ UNCHANGED <<inputs, pc, entry, role>>
<1> USE DEF AddNode, AddNodeIf
<1>1. entry \in 1 .. Len(hosts) /\ i \in Nat /\ i < hosts[entry].numberOfNodes
  BY DEF TypeOK
<1>2. hosts[entry].numberOfNodes \in Int /\ options.hostLimit \in Int
      /\ hosts[entry] \in HostEntries
      /\ hosts[entry].firstCommandPort \in Int /\ hosts[entry].firstDataPort \in Int
  BY <1>1, EntryFields
<1>3. i \in Used(hosts[entry]) /\ ~Added(entry, i)
  BY <1>1, <1>2 DEF Used, Added, LimitReached
<1>4. CommandEndpointOf(entry, i) \in Endpoints /\ DataEndpointOf(entry, i) \in Endpoints
  BY <1>1, <1>2 DEF CommandEndpointOf, DataEndpointOf, Endpoint, Endpoints
<1>5. QED
  BY <1>1, <1>3, <1>4
     DEF CommandEndpoint, DataEndpoint, CommandEndpointOf, DataEndpointOf

\* Neither endpoint of the node is in the lists, nor are the two the same.
LEMMA NewEndpoints ==
  ASSUME TypeOK, Paired, AddNode, Disjoint, NEW k \in 1 .. Len(commandHosts)
  PROVE  LET c == CommandEndpointOf(entry, i)
             d == DataEndpointOf(entry, i)
         IN  /\ c # d
             /\ commandHosts[k] \notin {c, d} /\ dataHosts[k] \notin {c, d}
<1>1. entry \in 1 .. Len(hosts) /\ i \in Used(hosts[entry]) /\ ~Added(entry, i)
  BY NewNode
<1>2. PICK e \in 1 .. Len(hosts), j \in Nat :
        /\ Added(e, j)
        /\ commandHosts[k] = CommandEndpointOf(e, j)
        /\ dataHosts[k] = DataEndpointOf(e, j)
  BY DEF Paired
<1> DEFINE h == hosts[entry]
           g == hosts[e]
<1>3. /\ h.firstCommandPort \in Int /\ h.firstDataPort \in Int /\ i \in Int
      /\ g.firstCommandPort \in Int /\ g.firstDataPort \in Int /\ j \in Int
  BY <1>1, EntryFields, UsedAreNat
<1>4. /\ h.firstCommandPort + i \in CommandPorts(h) /\ h.firstDataPort + i \in DataPorts(h)
      /\ g.firstCommandPort + j \in CommandPorts(g) /\ g.firstDataPort + j \in DataPorts(g)
  BY <1>1, <1>2 DEF CommandPorts, DataPorts, Added
<1>5. h.firstCommandPort + i # h.firstDataPort + i
  BY <1>1, <1>4 DEF Disjoint
<1>6. ASSUME g.address = h.address
      PROVE  /\ g.firstCommandPort + j \notin {h.firstCommandPort + i, h.firstDataPort + i}
             /\ g.firstDataPort + j \notin {h.firstCommandPort + i, h.firstDataPort + i}
  <2>1. CASE e = entry
    <3>1. j # i
      BY <1>1, <1>2, <2>1
    <3>2. CommandPorts(h) \cap DataPorts(h) = {}
      BY <1>1 DEF Disjoint
    <3>3. QED
      BY <1>3, <1>4, <2>1, <3>1, <3>2
  <2>2. CASE e # entry
    <3>1. (CommandPorts(g) \cup DataPorts(g)) \cap (CommandPorts(h) \cup DataPorts(h)) = {}
      BY <1>1, <1>6, <2>2 DEF Disjoint
    <3>2. QED
      BY <1>4, <3>1
  <2>3. QED
    BY <2>1, <2>2
<1>7. QED
  BY <1>2, <1>5, <1>6, EndpointsEqual DEF CommandEndpointOf, DataEndpointOf

LEMMA AddNodeStep ==
  ASSUME IInv, AddNode
  PROVE  IInv'
<1> DEFINE c == CommandEndpointOf(entry, i)
           d == DataEndpointOf(entry, i)
           len == Len(commandHosts)
<1>1. /\ entry \in 1 .. Len(hosts) /\ i \in Used(hosts[entry]) /\ ~Added(entry, i)
      /\ c \in Endpoints /\ d \in Endpoints
      /\ commandHosts' = Append(commandHosts, c) /\ dataHosts' = Append(dataHosts, d)
      /\ hosts[entry].wellFormed /\ i' = i + 1 /\ pc = "hosts"
      /\ options' = options /\ hosts' = hosts /\ workerFile' = workerFile
      /\ pc' = pc /\ entry' = entry /\ role' = role
  BY NewNode DEF IInv, inputs
<1>2. /\ Len(commandHosts) = len /\ Len(dataHosts) = len /\ len \in Nat
      /\ commandHosts \in Seq(Endpoints) /\ dataHosts \in Seq(Endpoints) /\ i \in Nat
  BY DEF IInv, Paired, TypeOK
<1> HIDE DEF len, c, d
<1>3. /\ Len(commandHosts') = len + 1 /\ Len(dataHosts') = len + 1
      /\ commandHosts'[len + 1] = c /\ dataHosts'[len + 1] = d
      /\ \A k \in 1 .. len : commandHosts'[k] = commandHosts[k] /\ dataHosts'[k] = dataHosts[k]
      /\ commandHosts' \in Seq(Endpoints) /\ dataHosts' \in Seq(Endpoints)
  BY <1>1, <1>2
<1>4. TypeOK'
  BY <1>1, <1>2, <1>3 DEF IInv, TypeOK
<1>5. \A e \in 1 .. Len(hosts), j \in Nat :
        /\ Added(e, j) => Added(e, j)'
        /\ Added(e, j)' => Added(e, j) \/ (e = entry /\ j = i)
  <2>1. \A e \in 1 .. Len(hosts) : Used(hosts[e])' = Used(hosts[e])
    BY <1>1, InputsFrame
  <2>2. QED
    BY <1>1, <1>2, <2>1 DEF Added
<1>6. \A e \in 1 .. Len(hosts), j \in Nat : e = entry /\ j = i => Added(e, j)'
  BY <1>1, <1>2, InputsFrame DEF Added
<1>7. Paired'
  <2>1. ASSUME NEW k \in 1 .. len + 1
        PROVE  \E e \in 1 .. Len(hosts) : \E j \in Nat :
                 /\ Added(e, j)'
                 /\ commandHosts'[k] = CommandEndpointOf(e, j)
                 /\ dataHosts'[k] = DataEndpointOf(e, j)
    <3>1. CASE k = len + 1
      <4>1. /\ commandHosts'[k] = CommandEndpointOf(entry, i)
            /\ dataHosts'[k] = DataEndpointOf(entry, i)
        BY <1>3, <3>1 DEF c, d
      <4>2. QED
        BY <1>1, <1>2, <1>6, <4>1
    <3>2. CASE k # len + 1
      <4>1. k \in 1 .. len
        BY <1>2, <3>2
      <4>2. PICK e \in 1 .. Len(hosts), j \in Nat :
              /\ Added(e, j)
              /\ commandHosts[k] = CommandEndpointOf(e, j)
              /\ dataHosts[k] = DataEndpointOf(e, j)
        BY <1>2, <4>1 DEF IInv, Paired
      <4>3. QED
        BY <1>3, <1>5, <4>1, <4>2
    <3>3. QED
      BY <3>1, <3>2
  <2>2. ASSUME NEW k \in 1 .. len + 1
        PROVE  \E e \in 1 .. Len(hosts) : \E j \in Nat :
                 /\ Added(e, j)'
                 /\ commandHosts'[k] = CommandEndpointOf(e, j)'
                 /\ dataHosts'[k] = DataEndpointOf(e, j)'
    BY <1>1, <2>1, InputsFrame
  <2>3. QED
    BY <1>1, <1>3, <2>2 DEF Paired
<1>8. Disjoint' => Distinct'
  <2>1. Disjoint' => Disjoint /\ Distinct
    BY <1>1, InputsFrame DEF IInv
  <2>2. SUFFICES ASSUME Disjoint, Distinct, NEW k \in 1 .. len + 1, NEW l \in 1 .. len + 1
                 PROVE  /\ commandHosts'[k] # dataHosts'[l]
                        /\ k # l =>
                             /\ commandHosts'[k] # commandHosts'[l]
                             /\ dataHosts'[k] # dataHosts'[l]
    BY <1>3, <2>1 DEF Distinct
  <2>3. c # d
    <3>1. CASE len = 0
      <4>1. hosts[entry].firstCommandPort + i \in CommandPorts(hosts[entry])
            /\ hosts[entry].firstDataPort + i \in DataPorts(hosts[entry])
        BY <1>1 DEF CommandPorts, DataPorts
      <4>2. hosts[entry].firstCommandPort + i # hosts[entry].firstDataPort + i
        BY <1>1, <2>2, <4>1 DEF Disjoint
      <4>3. QED
        BY <4>2, EndpointsEqual DEF c, d, CommandEndpointOf, DataEndpointOf
    <3>2. CASE len # 0
      <4>1. 1 \in 1 .. Len(commandHosts)
        BY <1>2, <3>2
      <4>2. QED
        BY <2>2, <4>1, NewEndpoints DEF IInv, c, d
    <3>3. QED
      BY <3>1, <3>2
  <2>4. \A m \in 1 .. len : commandHosts[m] \notin {c, d} /\ dataHosts[m] \notin {c, d}
    BY <1>2, <2>2, NewEndpoints DEF IInv, c, d
  <2>5. k \in 1 .. len \/ k = len + 1
    BY <1>2
  <2>6. l \in 1 .. len \/ l = len + 1
    BY <1>2
  <2>7. QED
    BY <1>2, <1>3, <2>2, <2>3, <2>4, <2>5, <2>6 DEF Distinct
<1>9. Complete'
  <2>1. ASSUME NEW e \in 1 .. Len(hosts), NEW j \in Used(hosts[e]), Added(e, j)'
        PROVE  \E k \in 1 .. len + 1 : commandHosts'[k] = CommandEndpointOf(e, j)
    <3>1. CASE Added(e, j)
      <4>1. PICK k \in 1 .. len : commandHosts[k] = CommandEndpointOf(e, j)
        BY <1>2, <3>1 DEF IInv, Complete
      <4>2. QED
        BY <1>2, <1>3, <4>1
    <3>2. CASE e = entry /\ j = i
      BY <1>2, <1>3, <3>2 DEF c
    <3>3. QED
      BY <1>5, <2>1, <3>1, <3>2, UsedAreNat
  <2>2. \A e \in 1 .. Len(hosts) : e < entry => hosts[e].wellFormed
    BY DEF IInv, Complete
  <2>3. \A e \in 1 .. Len(hosts) : Used(hosts[e])' = Used(hosts[e])
    BY <1>1, InputsFrame
  <2>4. \A e, j : CommandEndpointOf(e, j)' = CommandEndpointOf(e, j)
    BY <1>1, InputsFrame
  <2>5. ASSUME NEW e \in 1 .. Len(hosts), NEW j \in Used(hosts[e])'
        PROVE  Added(e, j)' => \E k \in 1 .. Len(commandHosts') :
                                 commandHosts'[k] = CommandEndpointOf(e, j)'
    BY <1>3, <2>1, <2>3, <2>4, <2>5
  <2>6. QED
    BY <1>1, <2>2, <2>5 DEF Complete
<1>10. Progress'
  BY <1>1, <1>2 DEF IInv, Progress
<1>11. QED
  BY <1>4, <1>7, <1>8, <1>9, <1>10 DEF IInv

LEMMA NextEntryStep ==
  ASSUME IInv, NextEntry
  PROVE  IInv'
<1>1. /\ pc = "hosts" /\ entry \in 1 .. Len(hosts) /\ hosts[entry].wellFormed
      /\ entry' = entry + 1 /\ i' = 0
      /\ options' = options /\ hosts' = hosts /\ workerFile' = workerFile
      /\ pc' = pc /\ commandHosts' = commandHosts /\ dataHosts' = dataHosts /\ role' = role
  BY DEF NextEntry, inputs, IInv, TypeOK
<1>2. Len(hosts) \in Nat /\ i \in Nat
  BY DEF IInv, TypeOK
<1>3. TypeOK'
  BY <1>1, <1>2 DEF IInv, TypeOK
\* All nodes of the entry that are used have been added.
<1>4. \A j \in Used(hosts[entry]) : j < i
  BY <1>1, <1>2, EntryFields DEF NextEntry, LimitReached, Used, IInv
<1>5. \A e \in 1 .. Len(hosts), j \in Int : Added(e, j)' <=> Added(e, j)
  <2>1. ASSUME NEW e \in 1 .. Len(hosts), NEW j \in Int
        PROVE  Added(e, j)' <=> j \in Used(hosts[e]) /\ e < entry + 1
    BY <1>1, InputsFrame, UsedAreNat DEF Added
  <2>2. QED
    BY <1>1, <1>4, <2>1 DEF Added
<1>6. Paired'
  BY <1>1, <1>5, InputsFrame DEF IInv, Paired
<1>7. Disjoint' => Distinct'
  BY <1>1, InputsFrame DEF IInv, Distinct
<1>8. Complete'
  <2>1. \A e \in 1 .. Len(hosts) : e < entry' => hosts[e].wellFormed
    BY <1>1, <1>2 DEF IInv, Complete
  <2>2. QED
    BY <1>1, <1>5, <2>1, InputsFrame, UsedAreNat DEF IInv, Complete
<1>9. Progress'
  BY <1>1, <1>2 DEF IInv, Progress
<1>10. QED
  BY <1>3, <1>6, <1>7, <1>8, <1>9 DEF IInv

LEMMA HostsRead ==
  ASSUME IInv, EndOfHosts
  PROVE  entry = Len(hosts) + 1
<1>1. Len(hosts) \in Nat
  BY DEF IInv, TypeOK
<1>2. entry \in 1 .. Len(hosts) + 1
  BY DEF IInv, TypeOK
<1>3. entry > Len(hosts)
  BY DEF EndOfHosts
<1>4. QED
  BY <1>1, <1>2, <1>3

\* The other steps move pc on, and choose the role.
LEMMA OtherSteps ==
  ASSUME IInv,
         \/ ParseCommandLine \/ MalformedEntry \/ EndOfHosts \/ ParseWorkerXML \/ Start
         \/ UNCHANGED vars
  PROVE  IInv'
<1>1. /\ options' = options /\ hosts' = hosts /\ workerFile' = workerFile
      /\ entry' = entry /\ i' = i /\ commandHosts' = commandHosts /\ dataHosts' = dataHosts
  BY DEF ParseCommandLine, MalformedEntry, EndOfHosts, ParseWorkerXML, Start, vars, inputs
<1>2. TypeOK'
  BY <1>1 DEF IInv, TypeOK, Labels, ParseCommandLine, MalformedEntry, EndOfHosts,
      ParseWorkerXML, Start, vars
<1>3. \A h : Used(h)' = Used(h)
  BY <1>1 DEF Used
<1>4. \A e, j : Added(e, j)' <=> Added(e, j)
  BY <1>1, <1>3 DEF Added
<1>5. \A e, j : /\ CommandEndpointOf(e, j)' = CommandEndpointOf(e, j)
               /\ DataEndpointOf(e, j)' = DataEndpointOf(e, j)
  BY <1>1, InputsFrame
<1>6. Paired'
  BY <1>1, <1>4, <1>5 DEF IInv, Paired
<1>7. Disjoint' => Distinct'
  BY <1>1, InputsFrame DEF IInv, Distinct
<1>8. Complete'
  <2>1. Complete
    BY DEF IInv
  <2>2. SUFFICES ASSUME NEW e \in 1 .. Len(hosts)
                 PROVE  /\ e < entry => hosts[e].wellFormed
                        /\ \A j \in Used(hosts[e]) :
                             Added(e, j) =>
                               \E k \in 1 .. Len(commandHosts) :
                                  commandHosts[k] = CommandEndpointOf(e, j)
    BY <1>1, <1>3, <1>4, <1>5, Zenon DEF Complete
  <2>3. QED
    BY <2>1 DEF Complete
<1>9. Progress'
  <2>1. CASE ParseCommandLine \/ MalformedEntry \/ UNCHANGED vars
    BY <1>1, <2>1 DEF IInv, Progress, ParseCommandLine, MalformedEntry, vars
  <2>2. CASE EndOfHosts
    <3>1. entry = Len(hosts) + 1
      BY <2>2, HostsRead
    <3>2. /\ pc = "hosts" /\ pc' = "worker file" /\ role' = role
      BY <2>2 DEF EndOfHosts
    <3>3. QED
      BY <1>1, <3>1, <3>2 DEF IInv, Progress
  <2>3. CASE ParseWorkerXML
    BY <1>1, <2>3 DEF IInv, Progress, ParseWorkerXML
  <2>4. CASE Start
    BY <1>1, <2>4 DEF IInv, Progress, TypeOK, Start
  <2>5. QED
    BY <2>1, <2>2, <2>3, <2>4
<1>10. QED
  BY <1>2, <1>6, <1>7, <1>8, <1>9 DEF IInv

\* The invariant that the theorems rest on, kept by every step.
THEOREM InductiveInvariant == Spec => []IInv
<1>1. IInv /\ [Next]_vars => IInv'
  BY AddNodeStep, NextEntryStep, OtherSteps DEF Next
<1>2. QED
  BY InitIInv, <1>1, PTL DEF Spec

(***************************************************************************)
(* The k-th command host and the k-th data host are the two ports of one   *)
(* process, for any file, with or without a limit on the nodes.            *)
(***************************************************************************)
THEOREM ListsAreParallel == Spec => []PairedByIndex
<1>1. IInv => PairedByIndex
  BY DEF IInv, Paired, PairedByIndex, Added, CommandEndpointOf, DataEndpointOf
<1>2. QED
  BY <1>1, InductiveInvariant, PTL

(***************************************************************************)
(* A file whose port ranges are apart gives no PAIR socket the endpoint of *)
(* another, whatever the number of entries and of nodes.                   *)
(***************************************************************************)
THEOREM NoEndpointTwice == Spec => []EndpointsDistinct
<1>1. IInv => EndpointsDistinct
  <2> DEFINE all == commandHosts \o dataHosts
             len == Len(commandHosts)
  <2>1. SUFFICES ASSUME IInv, Disjoint, NEW j \in 1 .. Len(all), NEW k \in 1 .. Len(all),
                        all[j] = all[k]
                 PROVE  j = k
    BY DEF EndpointsDistinct
  <2>2. /\ len \in Nat /\ Len(dataHosts) = len /\ Len(all) = len + len
        /\ \A l \in 1 .. len : all[l] = commandHosts[l]
        /\ \A l \in len + 1 .. len + len : all[l] = dataHosts[l - len]
    <3>1. /\ commandHosts \in Seq(Endpoints) /\ dataHosts \in Seq(Endpoints)
          /\ Len(dataHosts) = len
      BY <2>1 DEF IInv, TypeOK, Paired
    <3>2. /\ len \in Nat /\ Len(all) = len + Len(dataHosts)
          /\ \A l \in 1 .. len + Len(dataHosts) :
               all[l] = IF l <= len THEN commandHosts[l] ELSE dataHosts[l - len]
      BY <3>1
    <3>3. QED
      BY <3>1, <3>2
  <2>3. Distinct
    BY <2>1 DEF IInv
  <2> HIDE DEF all, len
  <2>4. \A l \in 1 .. Len(all) :
          l \in 1 .. len \/ (l \in len + 1 .. len + len /\ l - len \in 1 .. len)
    BY <2>2
  <2>5. CASE j \in 1 .. len /\ k \in 1 .. len
    BY <2>1, <2>2, <2>3, <2>5 DEF Distinct, len
  <2>6. CASE j - len \in 1 .. len /\ k - len \in 1 .. len
    BY <2>1, <2>2, <2>3, <2>4, <2>6 DEF Distinct, len
  <2>7. CASE j \in 1 .. len /\ k - len \in 1 .. len
    BY <2>1, <2>2, <2>3, <2>4, <2>7 DEF Distinct, len
  <2>8. CASE j - len \in 1 .. len /\ k \in 1 .. len
    BY <2>1, <2>2, <2>3, <2>4, <2>8 DEF Distinct, len
  <2>9. QED
    BY <2>1, <2>4, <2>5, <2>6, <2>7, <2>8
<1>2. QED
  BY <1>1, InductiveInvariant, PTL

(***************************************************************************)
(* A process that starts has one role, and every node of every entry that  *)
(* the limit allows is in its list.                                        *)
(***************************************************************************)
THEOREM StartsComplete == Spec => []StartedWithEveryNode
<1>1. IInv => StartedWithEveryNode
  <2>1. SUFFICES ASSUME IInv, pc = "running"
                 PROVE  \A e \in 1 .. Len(hosts) :
                          /\ hosts[e].wellFormed
                          /\ \A j \in Used(hosts[e]) :
                               CommandEndpointOf(e, j) \in ToSet(commandHosts)
    BY DEF StartedWithEveryNode, CommandEndpointOf, IInv, Progress
  <2>2. \A e \in 1 .. Len(hosts) : e < entry
    BY <2>1 DEF IInv, Progress, TypeOK
  <2>3. \A e \in 1 .. Len(hosts) : \A j \in Used(hosts[e]) :
          \E k \in 1 .. Len(commandHosts) : commandHosts[k] = CommandEndpointOf(e, j)
    BY <2>1, <2>2 DEF IInv, Complete, Added
  <2>4. DOMAIN commandHosts = 1 .. Len(commandHosts)
    BY <2>1 DEF IInv, TypeOK
  <2>5. QED
    BY <2>1, <2>2, <2>3, <2>4 DEF IInv, Complete, ToSet
<1>2. QED
  BY <1>1, InductiveInvariant, PTL
=============================================================================
