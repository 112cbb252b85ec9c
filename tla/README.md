# KeyValueClusterPerf in TLA+

KeyValueClusterPerf measures the latency of a distributed key/value store. One
*controller* drives N *worker nodes* over ZeroMQ; each node writes the files of
a directory tree to the database and reads them back, through a broker; the
controller collects the figures and writes them to a CSV file. This directory
holds a model of that program: TLA+ modules translated from `src/`, TLC
configurations that check them on small instances, and proofs that TLAPS checks
for every number of nodes, any files and any number of faults. `src/` below is
the source directory of the repository.

## The system

| Component | State | Operations | Talks to |
|---|---|---|---|
| Start-up (`KeyValueClusterPerf.cc`) | options; `commandHosts`, `dataHosts` | `parse_cmd_line`, `parseControllerXML`, `parseWorkerXML`, `main` | starts a controller or a worker |
| Controller (`SimulationController.cc`) | `mCommandMQs`, `dataHosts`, `allResults`, its place in `run()`, the result files | `run`, `sendAllNodes`, `getAllNodes`, `receiveDataFromWorker`, `mergeResults`, destructor | each node: a PAIR socket for commands, another for results |
| Worker node (`SimulationWorker.cc`) | `state`, `connector`, its place in `run()` | INIT, GO, GETRESULTS, RESTART, EXIT; `sendDataToController` | the controller; owns a `DBConnector` |
| ZeroMQ wrapper (`MQ.cc`) | a context and a socket | `openSocket`, `bind`, `connect`, `send`, four `receive`s, `closeSocket`, `destroy` | everybody |
| Database connector (`DBConnector.cc`) | `mLoadedObjects`, `mTotalDataSize`, `mDuration`, a REQ socket | `run`, `load`, `putValue`, `getValue`, `create`, `getResults`, destructor | the broker |
| `Simulator.cc` | `reads`, `writes`, `duration` | `simulate`, `burnInOut`, `getResults`, `mergeResults` | an access pattern and a back end; not in the build: the predecessor of `DBConnector` |
| Access patterns, value distribution | range of keys, border between reads and writes | `getNext`, `getInitialisationKeyValuePairs` | constructed with the connector; used by `burnInOut`, which nothing calls, and `Simulator` |
| Back ends (`RiakJavaKeyValueDB`, `DummyKeyValueDB`, `RamCloudKeyValueDB`), `MessageSender` | a REQ socket | `putValue`, `getValue`, `initialise`; `send`, `receive` | the broker |
| `ConfigurationManager.cc` | none | `readString`, `writeString`, files | carries the results as text |
| Hashes (`sha1.cc`, `vmac.c`, `rijndael-alg-fst.c`) | the context of a message: what has been worked in, what is left of the last block | `update`, `final`, `sha1`; `vmac_set_key`, `vhash_update`, `vmac` | `MessageSender`, which hashes a message before it sends it |

A benchmark is a fixed sequence of rounds: connect; INIT to all, INITDONE from
all; GO to all, RESULTSREADY from all; for one node after the other GETRESULTS
and the results over a data connection; DONERESULTS from all; EXIT to all,
EXITING from all; write the file; close.

What makes it hard:

* **Nothing is checked.** A node goes through its connector pointer without
  looking at it; the controller logs an unexpected reply and counts it; a failed
  `zmq_msg_recv` is printed and becomes an empty message; a row of the results
  belongs to a host by its position. That all this works rests on the order of
  the commands and on queues that hold exactly what they should.
* **Interleaving.** Nodes answer at their own pace. The figures are those of a
  cluster under load only if nobody measures while another node is being
  initialised or collected.
* **Blocking without timeouts.** The results are sent over a socket that blocks
  until the controller comes for them; all receives wait for ever.
* **Failure.** Interrupted calls, killed controllers and nodes that are started
  again meet a protocol that carries no identification of runs or rounds.
* **Accumulated state.** Counters survive a second GO, the protocol buffers
  library does not survive the first deleted connector.

What makes each component correct:

* start-up: parallel lists, distinct endpoints, every node of the file;
* controller: the barriers, complete results in the order of the hosts, an end;
* node: its contract with whoever sends the commands: what is a legal session,
  and what is answered in it;
* connector: what is read back was stored under the key, the counters match what
  was stored, every run ends;
* simulator: a pattern draws only keys that its initialisation covers, only
  `simulate` counts, every operation returns;
* strings: what is read is what was written, unless a meaning gets in its way;
* hashes: a digest depends on the message and nothing else, in whatever pieces it
  came and whatever was hashed before;
* database clients: an access takes effect at one moment between its request and
  its reply;
* together: the abstract phases of a benchmark, and figures that count what the
  database has done.

`PROJECT.json` lists the hazards with their lines and the properties about them.

## Modules

| Module | Models | State and actions |
|---|---|---|
| `MQ` | `MQ.cc`, PAIR sockets | Per node two connections, each a queue that stands for both pipes and the wire. A connecting end can send at once; a binding end only while a peer is there. Closing waits until what was sent is out, as `zmq_ctx_destroy` does without `ZMQ_LINGER`. |
| `SimulationWorker` | `SimulationWorker.cc` | `pc[w]` is where the node's thread is. One action per command handler; GETRESULTS, which blocks, has three. `connector` is what the pointer designates, `protobuf` the library that `~DBConnector` shuts down; `UndefinedUse` is the crash that a use of a dead connector may be, next to seeming to work. |
| `SimulationController` | `SimulationController.cc` | `stage` is the loop of `run()`, named after the command it sends or the reply it waits for, `it` its iterator. One action per loop body, `EndLoop` between two loops. The member `simulationIteration` starts with any value: nothing assigns it. |
| `SimulationCluster` | a benchmark | Controller and nodes over `MQ`, with `DBConnector::run()` as one step; the safety and action properties. |
| `Benchmark` | the whole program | `SimulationCluster` with a `DBConnector` in every node, and the broker: created by INIT, run from GO to RESULTSREADY, reported and deleted by GETRESULTS. `pc[w] = "run"` is a node inside `run()`, whose steps are those of `DBConnector`. `reported` is the history of the figures sent. |
| `BenchmarkPhases` | what a benchmark promises | The abstract specification: how many commands each node has carried out, which nodes have been collected, whether the file is written. |
| `PhasesRefinement` | | `SimulationCluster` implements `BenchmarkPhases` under a mapping of connector, counters and state to the number of commands. |
| `ClusterInvariant` | | The inductive invariant of `SimulationCluster`, which the run `cluster` checks too. The other invariants are at the beginning of the modules that prove them. |
| `ClusterFaults` | failed calls, killed processes | `SimulationCluster` with interrupted calls at each of the four places that block, and with controllers and nodes that are killed and started again, in any combination. The history variable `restarted` holds the nodes that were, `happened` the kinds of fault. |
| `WorkerSession` | one node, any client | A client that sends any commands of an alphabet, some ahead of the replies: the contract of a node. |
| `Broker` | REQ sockets (`MQ.cc`, `MessageSender.cc`), the broker | `request` and `reply` are what is between a node's socket and the broker. `Send` is refused while a reply is owed, `Interrupt` is a receive that fails, `Close` drops a reply and lets a request out. The broker is not in this repository; it answers everything, in any order between nodes. |
| `DBConnector` | `DBConnector.cc` | `Broker` with `run()` at several nodes: `pc[n]` is where it is. |
| `AtomicStore` | what a client of the database may rely on | The abstract specification of `putValue` and `getValue`: invoked, done at one moment, returned. A node one of whose receives was interrupted is `disturbed`, and its requests are anybody's. |
| `ConnectorRefinement`, `SimulatorRefinement` | | `DBConnector` and `Simulator` over `Broker` implement `AtomicStore`: the place of a node, its request and the reply that waits for it say which phase its call is in. |
| `AccessPatterns` | the four patterns | Operators: what a configuration and the numbers of `rand()` make of the next access, and which keys initialisation covers. |
| `Simulator` | `Simulator.cc`, `KeyValueDB.cc`, `RiakJavaKeyValueDB.cc`, `DummyKeyValueDB.cc`; `burnInOut()` of `DBConnector` too | `Broker` with loops of accesses that `AccessPatterns` chooses. `pc[n]` is `"undefined"` after an uninitialised pointer or a division by zero. `Duration` is the clock arithmetic, which no action uses. |
| `ResultStrings` | `ConfigurationManager.cc` and the buffer of `SimulationWorker.cc` | `Write` and `Read`, `WriteFile` and `ReadFile`, on sequences of the characters that the two give a meaning to. |
| `Words` | unsigned integers | Sets of bits, with `Xor`, shifts, and `Add` by its carries, for a given width. |
| `Sha1` | `sha1.cc`, `sha1.h` | The context, with `Sha1Update`, `Sha1Final` and `Sha1Function`; words of `WordBits` bits, of which the code uses 64 and the algorithm 32. |
| `Sha1Standard` | | SHA-1 as FIPS 180 defines it, of a whole message: what `Sha1` is compared with. |
| `Vmac` | `vmac.c`, `vmac.h` | The context (`polytmp`, `first_block_processed`), blocks of `NHBYTES` and a remainder, the memory behind the message. NH, the polynomial and the final hash are free terms. |
| `MessageHashes` | the constructor and `send()` of `MessageSender` | Which of the two, or none, the option `security` makes of a message; and the two libraries by themselves. |
| `Startup` | `KeyValueClusterPerf.cc`, `ConfigurationManager.h` | `main()`: options, host file, worker file, role. An iteration of the loop over the nodes of an entry is an action. |
| `ClusterProofs`, `FaultProofs`, `SessionProofs`, `ConnectorProofs`, `SimulatorProofs`, `StartupProofs`, `BenchmarkProofs`, `MessageProofs` | | Inductive invariants and theorems. `MessageProofs` is about `ResultStrings` and `MessageHashes`. |
| `MC*` | | Values of constants for TLC. |

Mutants are definitions next to what they change, named in `PROJECT.json`: for
every property of a passing run one that breaks it.

What is abstracted: a result is its host and the number of runs its counters sum
up; messages are the command strings; a file of the database is its identity,
with a key and a size. Exiting on exhausted memory or invalid addresses, logging
and the clock are left out. A value of the simulator is one model value (they
are all alike), a ratio is in hundredths. SHA-1 is modelled to the bit, because
its words are wider than it expects and what they carry above bit 31 must not
matter; `MCHashes` also checks the digests of known messages. VMAC is modelled by
which bytes go where: equal terms are equal tags, and different terms different
tags but for a collision. Its 128 bits come from two computations side by side
that differ in their keys only; one stands for both.

## Runs

| Run | Bounds | Question and answer |
|---|---|---|
| `cluster` | 4 nodes, an option given, 2 values of the uninitialised member | In every interleaving: no dead connector, no library that is gone, every barrier takes the replies of its round, rows match hosts, one sender at a time, nothing left behind, nodes measure together. The inductive invariant of the proofs holds; the cluster implements the phases with their fairness, so that everybody returns and the file is written, and the nodes go through them in lockstep. Deadlock is checked: the only states without a step of a process are those where all have returned. |
| `benchmark` | 2 nodes, 2 files of one name, 2 interrupts | Controller, nodes, connectors and broker together. The database is under load only while all connectors exist and the controller is between INITDONE and GETRESULTS; every row counts what the database executed for its node, up to the interrupts of that node; there is always a result file, unless a node reads an object from nothing. That `run()` is one step in `SimulationCluster` is justified: this benchmark implements that one. |
| `faults` | 2 nodes, 2 faults of 6 kinds | Interrupted calls put controller and nodes out of step, controllers and nodes are killed anywhere and started again, against whatever is left in the queues. Only a node that was killed itself can meet a dead connector; a failed collection leaves garbage in its own row only, rows are never misfiled, the file has a row for every node, and the rows of nodes that were not killed are those of one run; an INIT leaks a connector only after the controller was killed; and the controller returns with its file unless the transfer of results was interrupted, a node was killed, or an earlier controller had come as far as to ask for results. |
| `session` | 5 commands, 2 ahead | A client that may send anything: replies in order, crashes only after an illegal session, results sum up the runs since INIT, and every command is answered. |
| `connector` | 2 nodes, 3 files with 2 keys, 2 runs and 2 interrupts in all, limit 7 | What is read back was stored under the same key; one interrupt can cost a PUT or a value, and only two at one node can bring an object of another key. Every run ends, at the end of the tree or after the file over the limit, unless an interrupt left `create()` with nothing to read, which C++ does not define. The calls of a node whose receives have all succeeded are those of an atomic store, whatever happens to the other one. |
| `simulator` | 2 nodes, 6 configurations, 2 calls of 2 accesses, 1 interrupt | The operations of `Simulator` in any order: what was initialised is found whatever keys the patterns draw; the counters are those of `simulate()` alone; an interrupt costs at most one access; every operation returns, or divides by zero, or had no database. The accesses are those of the same atomic store. |
| `startup` | 2 host entries, 33 kinds of entry, 4 limits, all options | Lists stay parallel, endpoints are distinct when port ranges do not meet, every entry has its nodes. |
| `strings` | maps of 2 entries between strings of 2 characters out of 4, buffer of 10 | What is read is what was written exactly when no key has a separator or looks like a comment and no value has a line break; what was read once survives writing and reading. |
| `hashes` | SHA-1: up to 130 bytes in pieces of 9, 55, 56, 64 and 65; VMAC: up to 300 bytes in calls of 1 and 2 blocks, any remainder | `Sha1` gives the digest of the standard; a VMAC tag says something about the message alone exactly when the zeroes that `vmac.h` asks for behind it are there, which `c_str()` gives for lengths of 0 and 15 modulo 16 only. |

Runs that are expected to fail, each about a line of the repository that the
code does not do:

| Run | Says | Does |
|---|---|---|
| `filename` | `README.md:43`: the number given identifies the `resultsX.csv` file | X is a member that is never assigned (`SimulationController.cc:142`) |
| `bytes_limit` | `KeyValueClusterPerf.cc:106`: "Maximum number of bytes to transmit" | tested after the transfer, exceeded whenever it stops a run (`DBConnector.cc:228`) |
| `host_limit` | `KeyValueClusterPerf.cc:105`: "Maximum number of worker nodes to connect" | a limit per host entry (line 49) |

Two more such lines have no run of their own, because properties of the passing
runs say what the code does instead. `SimulationController.cc:91` has "All nodes
should reply with INITDONE", where any reply counts, an empty one too (lines 160
to 173): `RepliesMatchRound` holds without faults and is not claimed with them.
`DBConnector.h:31` has "results from the last simulation", where the counters add
up over all of them: `ResultsSinceInit`.

### Why the bounds are enough

Nodes do not talk to each other, and the controller treats them by position:
with four there are a first, a last and two inner ones in every loop, and the
proofs cover the other numbers. With two nodes, as in `benchmark` and `faults`,
one is served while the other waits. Two faults let one end be two messages
ahead, kill the controller twice, or combine an interrupted call with the death
of either side; the properties distinguish none and some of a kind, and the
proofs have no bound on the faults. In `benchmark` the files share their key, so that the two nodes
write it against each other, and two interrupts are one at each node or the two
that shift the replies of one. Five commands are an INIT, a run, a
collection, and one of them again. Three files with a shared key give a node its
own key twice and another key; two interrupts are what it takes to bring a value
of another key; two runs are two nodes at once or one node twice, and the limit
of 7 is over the bytes of one run and below those of two. Two accesses are a PUT
and a GET, or two of a kind; two calls are an initialisation and a use of it, by
one node or by two; with one interrupt the socket refuses a request and the
answers are shifted; two values of `rand()` choose both reads and writes and all
the keys that can be drawn. The configurations have a pattern of each kind, a
type the constructor does not know for each of pattern and database, and a range
of one key. Strings of two characters have everything `readString` looks for at
their beginning, at their end and next to each other, and two entries a line
break between them. Two host entries make the counter start again. A message of
130 bytes has two complete blocks for SHA-1 and begins a third; the pieces end
one before, on and one after the end of a block and of the room for the length.
For VMAC two blocks of 128 bytes and a remainder pass through every branch of
`vhash` and `vhash_update`. The messages that `MessageSender` sends lie on both sides
of these boundaries.
Every bound is a CONSTANT: `N`, `MaxFaults`, `MaxCommands`, `MaxOutstanding`,
`MaxRuns`, `MaxInterrupts`, `MaxBurst`, `MaxCalls`, `RandMax`, `BufferSize`,
`MaxEntries`, `MaxLength`, `MaxBytes`.

Deadlock is not checked where a system may really stop: after a fault that
nothing answers, when the client has sent its commands or the caller has made
its calls, and when a run or `main` has returned.

### Fairness

Weak fairness of the controller and of each node: they are processes with one
thread each, scheduled by the operating system, and every action is a step of
that thread. That a node starts is assumed with it: "First, the worker nodes
must be fired up". Faults are never due. In `WorkerSession` the client need not
send anything, but takes the replies and the results it asked for; in
`DBConnector` and `Simulator` the threads that are in an operation go on, nobody
has to call one, and the broker answers, which is an assumption about a program
that is not in this repository. `Benchmark` puts both together: the thread of a
node is fair whether it is inside `run()` or outside, and the broker is fair to
every node. `BenchmarkPhases` states the fairness that the refinement
establishes. `AtomicStore` has none: that a call of either of its clients returns is
what `RunReturns` and `OperationsReturn` say.

## Proofs

Everything below is proved for every value of the constants: any number of
nodes, any files, keys, sizes and limits, any configurations of the simulator, any
host file, any characters and any maps of strings, any bytes of a message, and no
bound on faults, interrupts or runs. The only assumptions are
those on the constants, which every configuration of TLC satisfies: `N` is a
natural number, files are numbered, each with a key and a size, an option that
is not given is -1, a member that is not assigned holds a natural number.
`SortedKeys`, the order of the keys of a map, lists every string that is a part
of a key or a value of `Maps`; such a list exists for any finite set of maps. The
length of a block of VMAC is a multiple of 16, as the powers of two are that `vmac.h:17` allows. A word of
SHA-1 has at least 32 bits, as `sha1.h` demands, and a message at most 8191
bytes: this one is a limit of the model and of the proof, not of the code, and
keeps the length in bits, which ends the padding, below 2^16.

| Module | Theorems | of the properties |
|---|---|---|
| `ClusterProofs` | `InductiveInvariant`, `TypeCorrect`, `NoDeadConnector`, `NoUseAfterShutdown`, `BarriersHold`, `RowsBelongToHosts`, `SendersTakeTurns`, `NothingLeftBehind`, `MeasuredTogether`, `ImplementsPhasesSafely`, `NodesInLockstep` | every safety property of `cluster`; the steps of `ImplementsPhases` |
| `FaultProofs` | `CommandsStayInOrder`, `LeaksNeedCrash`, `RowsInPlace` | every safety property of `faults` |
| `SessionProofs` | `SessionInvariantHolds`, `AnswersInOrder`, `CrashNeedsMisuse`, `ResultsOfRequests` | every safety property of `session` |
| `ConnectorProofs` | `ReadsBack`, `LostPuts`, `LimitHolds`, `ImplementsStore` | every safety property of `connector` |
| `SimulatorProofs` | `ReadsFind`, `LostAccesses`, `Counting`, `ImplementsStore`, `DurationIsDifference` | every safety property of `simulator`; the clock |
| `StartupProofs` | `ListsAreParallel`, `NoEndpointTwice`, `StartsComplete` | all of `startup` |
| `BenchmarkProofs` | `BenchmarkIsCluster`, `BenchmarkIsConnectors`, `LoadTogether`, `RowsCount`, `BenchmarkCallsAreAtomic` | every safety property of `benchmark` |
| `MessageProofs` | `RoundTrip`, `StableOnceRead`, `DigestOfMessage`, `TagOfMessage` | all of `strings` and `hashes` |

Each of these modules proves that an invariant is inductive, with a lemma per
action, and gets the properties from it. TLC has checked every invariant on an
instance before it was proved. What they say is the argument why the code works.

**The cluster.** The properties are not inductive: that a reply is the one of the
round depends on how many commands the node had been sent, that a connector is
live on what the node had already handled. The place of the controller in `run()`
determines both: `Sent(w)` and `Acked(w)`, the commands sent to a node and the
replies taken from it, are functions of `stage` and `it`. `IInv` says that they
differ by at most one (`At`), and that the members, the place and the queues of a
node are those of the number of commands it has carried out: it is idle, or the
one outstanding command is queued, being handled, being answered, or answered.
`SocketInv` ties the sockets to the two places, `CollectInv` the results, the
data queues and `dataHosts` to the position in the collection loop.
`OnlyProtocolCommands` shows that RESTART, unknown commands and `UndefinedUse`
cannot happen. The last part of `ClusterProofs` shows first that the mapped `step` of a node is the
number of commands it has carried out (`StepIsCommandCount`), so that the guards
of the phases, which are about all nodes, follow from where the controller is;
the lockstep of the nodes is then `Sent(v) <= Acked(w) + 1`.

**Faults.** With them nothing says any more how far a node is when the controller
is somewhere. What survives is an order. The controller sends the commands of
`run()` in their order, and a command is lost only with the process that holds
it. So for a node that was not killed, each GO, on its way or yet to be sent,
finds a connector that has not run, and each GETRESULTS one that has run once
(`OrderInv`). `RunsBefore` is what is claimed about the connector when a command
comes to its turn: it depends on the command in front of it or, for the first,
on what the node has in hand (`RunsAhead`). A second controller starts with INIT,
and so keeps the order; but its INIT is the one that leaks. Without it each node
gets one INIT, before everything else (`InitOnce`). Rows are filed in turn
(`HostsInTurn`) because `dataHosts` and the iterator advance together, fault or
not; and a row on its way is that of its node and of one run (`RowsOnTheirWay`).

**The session.** A client that sends anything leaves one thing to hold on to: the
node takes the commands in the order in which they were asked for. So all that a
node is follows from three numbers, how many commands it has taken, carried out
and answered, which differ by at most one and as its place says. The connector is
live when the last INIT it carried out came after the last GETRESULTS, the library
is up when there was no GETRESULTS, and the counters hold the GOs since the last
INIT (`SessionConnectorInv`); `LastBeforeNext` and `OneMoreRun` say what one
command more makes of these. A node that dies has one in hand that no legal
session has at that place. The client asks for results only when it has the
others, so that no more than one row is on its way (`ResultsInv`): the next
GETRESULTS opens a socket that the one before has closed.

**The connectors.** A node, its socket and the answers it is owed are one state of
affairs. With no interrupt the socket owes exactly the answer that is waited for
(`InStep`); with one, at most the answer before (`OneBehind`); with more nothing is
claimed but that a receive always has something to wait for, so nobody hangs. The
lost PUTs need a count: every interrupted receive leaves an answer behind, and every answer left
behind makes the socket refuse one request, which takes it away. So what is
counted but not executed, plus what is owed, is never more than the interrupts
plus what is waited for (`CountInv`). That the key which is read back is there
rests on the database keeping keys: no step removes one (`KeepsKeys`). The same
argument carries `Simulator`, for one loop of accesses instead of pairs of them
(the `IInv` of `SimulatorProofs`), with the patterns as constraints on keys: initialisation
covers what `getNext()` can draw.

**The store.** Both clients are shown to implement `AtomicStore` step by step:
sending is the invocation, the broker's service the moment the call takes effect,
receiving the return. A receive that is interrupted makes its node `disturbed`,
and its later requests are anybody's.

**Start-up.** Two loops fill the lists; which endpoints are in them at any point is
given by the pair of the entry and the node within it (`Added`), in the order of
the loops. Endpoints differ because these pairs do, when port ranges do not meet.

**The whole program.** `Benchmark` is proved to be a behaviour of
`SimulationCluster` under one mapping, where `run()` takes effect when it returns,
and a behaviour of `DBConnector` under another, where a connector that has not been
created yet is one that has not been used. So it has the invariants of both, and
neither proof is repeated: `LinkInv`, the only new one, says that a node is
inside `run()` exactly when its connector is, and that what it reported is what
the connector counted. `LoadTogether` needs all three: the connector is running,
so the node has a GO, so every node has its connector. So does `RowsCount`: the
file is there, so every node has been collected and its connector deleted, and
then what was reported is what was counted, and that is what was executed but for
the interrupts.

**The clock.** `DurationIsDifference` says that `calculateDurationMicroseconds`
gives the difference of two readings for every width of the unsigned integers
that holds it, though the difference of the nanoseconds wraps; `Remainder` and
`WrappedSum` are its lemmas on `%`.

**The strings.** `OnItsWay` follows a map through the buffer or the file. The work
is in the text: `WriteString` puts the entries one after the other, so an
induction on their number shows where each line begins and ends and that nothing
else is one. What `ReadString` makes of a line depends on the line alone, so a clean
map is read as it was written (`RoundTrip`). The converse takes the entry that is
not clean: its line is none, or a comment, or splits before the end of the key. And
what is read is clean in any case, which is `StableOnceRead`. An induction is one
on a set here (`SetInduction`, from the well-foundedness of the natural numbers),
because the provers cannot instantiate a predicate. A function that is defined by
recursion is a CHOOSE, of which nothing is known until there is such a function:
`RecursionExists` is the lemma.

**The digests.** The code adds words of 64 bits where the standard has 32, in
another order, over a ring of 16 words where the standard shifts them along, and a
message comes in pieces. `Digested` says that until `final()` the context matches
the message (`Matches`): `transforms` counts its whole blocks, the lower 32 bits of
the digest are the hash of these, and the buffer is what remains. For a
block: the lower bits of a sum are those of the lower bits, because carries go
upwards; addition is associative, because a word stands for a number and `Add`
is addition modulo 2^w; the mask of `SHA1_ROL` is what keeps the upper
bits from coming back (the mutant `RolUnmasked` is without it);
and the ring and the shifting words both show the same sixteen of one schedule
(`Ring`, `WindowsShowSchedule`). `AbsorbMatches` does this for the blocks of an
`update()`, and `PaddedIsHash` for the one or two of `final()`, where the border is at 55
bytes: the bytes of the standard's padding (`PadBytes`) are compared with the
filled buffer and with the two words that hold the length.

**The tags.** Before there is a tag, whole blocks have been passed and the context
is a function of their number (`ContextAt`), however many there were at a time;
after it the context is as it was at first (`VmacInv`). So a tag is that of whole
blocks and a rest (`HashAt`), and what remains is when the last block ends in
zeroes: it is cut at the next 16 bytes (`RoundedUp`), and what is behind the message
shows exactly when that is not where the message ends, or just behind its end
(`PaddingNoticed`). Tags are terms, so different blocks make different ones.

Only model-checked: liveness, which is out of the prover's reach (the fairness
part of `ImplementsPhases`, `BenchmarkCompletesOverDatabase`, `ControllerReturns`,
`EveryCommandAnswered`, `RunReturns`, `OperationsReturn`), and that `Sha1Standard`
is SHA-1, which is a definition: `MCHashes` compares it with published digests.

## Not modelled

* `Simulator::mergeResults` (its copy in `SimulationController` is modelled), the
  clock and the seed of `rand()`.
* What ROOT does with the files, and with an empty buffer.
* Of the hashes: AES, a table look-up that makes the keys and the pad of VMAC from
  its key and the nonce; the arithmetic of NH, of the polynomial and of the final
  hash, which a model could only copy; the variants of `vmac.c` for other
  machines, compilers and tag lengths, of which a build has one; its test program;
  `xvhash`, which no header declares. The digests and tags are kept in public
  members, so that the compiler leaves them in, and never sent or compared.
* `mTotalDataSize` in the result file, which a stream rounds to six digits.
* Buffer lengths other than that of the string a node sends: the byte past
  `buffer[1024]` is listed as a hazard; a model would only restate it.
* The RamCloud back end, which is commented out; scripts and generated
  documentation.

`Simulator`, `burnInOut` and `readFile` are not reached by the program as it is
built; they are modelled because the patterns, the back end and the strings are
code of the project that a caller may use again. The call that
initialises the database is commented out in the constructor of `Simulator`; in
the model the caller makes it (`Initialise`).

## Plan

Done first, because everything else depends on it: the benchmark protocol, its
faults, its abstraction and its proofs; then the node's contract, the connector
and start-up; then the other client of the broker with the patterns that drive
it, and the strings; then the whole program with its database, the abstract store
of both clients, faults of all kinds together, and the hashes.

Then the proofs, in the order of what they rest on: the cluster, its phases, the
connector and the simulator with the atomic store, start-up, faults, the whole
program, which needs the first and the third, the node's contract, and the
strings and hashes, for which the recursive definitions of their models became
functions. Every safety property of the passing runs is proved.
