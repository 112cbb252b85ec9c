-------------------------- MODULE SimulatorProofs ----------------------------
(***************************************************************************)
(* Proofs, for any nodes, keys and configurations, that IInv is an         *)
(* inductive invariant of Simulator, that its safety properties follow     *)
(* from it, and that it implements AtomicStore.                            *)
(***************************************************************************)
EXTENDS SimulatorRefinement, TLAPS

-----------------------------------------------------------------------------
(***************************************************************************)
(* The inductive invariant of Simulator: what each node waits for, what    *)
(* its socket owes it and what its loop has left agree, and what has been  *)
(* initialised stays in the database.                                      *)
(***************************************************************************)

Requests == {Put(k, TheValue) : k \in Keys} \cup {Get(k) : k \in Keys}
Answers == {OK(Empty), OK(TheValue), Error}

TypeOK ==
  /\ request \in [Nodes -> Requests \cup {NoMessage}]
  /\ reply \in [Nodes -> Answers \cup {NoMessage}]
  /\ store \in [Keys -> {Empty, TheValue}]
  /\ executed \in [Nodes -> [PUT : Nat, GET : Nat]]
  /\ interrupts \in [Nodes -> Nat]
  /\ pc \in [Nodes -> {"start", "idle", "loop", "send", "receive", "undefined", "gone"}]
  /\ config \in [Nodes -> Configurations]
  /\ mode \in [Nodes -> {"none", "simulate", "burn", "initialise"}]
  /\ left \in [Nodes -> Nat]
  /\ unwritten \in [Nodes -> SUBSET Keys]
  /\ access \in [Nodes -> [made : BOOLEAN, read : BOOLEAN, key : Keys \cup {Empty},
                           sure : BOOLEAN, value : {Empty, TheValue}]]
  /\ reads \in [Nodes -> Nat]
  /\ writes \in [Nodes -> Nat]
  /\ runs \in [Nodes -> Nat]
  /\ asked \in [Nodes -> Nat]
  /\ accesses \in [Nodes -> Nat]
  /\ calls \in Nat
  /\ filled \subseteq Configurations

KeysOf(n) == InitialisationKeys(config[n])

\* Whoever has initialised the database has stored all its keys.
FilledInv == \A c \in filled : \A k \in InitialisationKeys(c) : store[k] # Empty

Accessing(n) == pc[n] \in {"send", "receive"}

\* The reply answers the access of n.
Answered(n) ==
  /\ access[n].read => reply[n] = OK(TheValue) \/ (reply[n] = Error /\ ~access[n].sure)
  /\ ~access[n].read => reply[n] = OK(Empty) /\ store[access[n].key] # Empty

\* A node that was never interrupted is owed the answer it waits for.
InStep(n) ==
  /\ pc[n] # "receive" => ~Owed(n)
  /\ pc[n] = "receive" => request[n] = Intended(n) \/ Answered(n)

SocketInv(n) ==
  /\ request[n] = NoMessage \/ reply[n] = NoMessage
  /\ pc[n] = "receive" => Owed(n)
  /\ interrupts[n] = 0 => InStep(n)

AccessInv(n) ==
  /\ Accessing(n) => access[n].made /\ UsesBroker(n) /\ access[n].value = Empty
  /\ access[n].made => access[n].key \in KeysOf(n)
  /\ access[n].sure => \A k \in KeysOf(n) : store[k] # Empty
  /\ ~access[n].made => access[n] = NoAccess
  /\ pc[n] \in {"start", "idle", "gone"} => ~access[n].made
  /\ pc[n] = "loop" /\ access[n].read /\ access[n].sure /\ UsesBroker(n)
       /\ interrupts[n] = 0 => access[n].value # Empty

\* The accesses that were counted, but refused by the socket.
Lost(n) ==
  accesses[n] - (executed[n].PUT + executed[n].GET)
    - (IF request[n] # NoMessage THEN 1 ELSE 0)
    - (IF pc[n] = "send" THEN 1 ELSE 0)

\* Each interrupted receive leaves one answer behind, and each answer left
\* behind lets one request be refused, which takes it away.
CountInv(n) ==
  /\ Lost(n) >= 0
  /\ Lost(n) + (IF Owed(n) THEN 1 ELSE 0)
       <= interrupts[n] + (IF pc[n] = "receive" THEN 1 ELSE 0)

\* Only simulate() counts, and only initialise() has keys to write.
LoopInv(n) ==
  /\ reads[n] + writes[n] = asked[n] - (IF mode[n] = "simulate" THEN left[n] ELSE 0)
  /\ pc[n] \in {"start", "idle", "gone"} => mode[n] = "none" /\ left[n] = 0
  /\ mode[n] = "initialise" => left[n] = 0
  /\ mode[n] # "initialise" => unwritten[n] = {}
  /\ unwritten[n] \subseteq KeysOf(n)
  /\ mode[n] = "initialise" /\ Accessing(n) => ~access[n].read

\* What initialise() no longer has to write is stored or on its way.
InitialiseInv(n) ==
  mode[n] = "initialise" /\ UsesBroker(n) /\ interrupts[n] = 0 =>
    \A k \in KeysOf(n) \ unwritten[n] :
      store[k] # Empty \/ (Accessing(n) /\ access[n].key = k)

NodeInv(n) == SocketInv(n) /\ AccessInv(n) /\ CountInv(n) /\ LoopInv(n) /\ InitialiseInv(n)

IInv == TypeOK /\ FilledInv /\ \A n \in Nodes : NodeInv(n)

-----------------------------------------------------------------------------
LEMMA TheOnlyValue == TheValue # Empty /\ Values = {TheValue}
BY BrokerAssumption, SimulatorAssumption DEF TheValue

\* Messages of different kinds are different.
LEMMA MessageKinds ==
  /\ \A k, v : Put(k, v) # NoMessage /\ Put(k, v).op = "PUT"
               /\ Put(k, v).key = k /\ Put(k, v).value = v
  /\ \A k : Get(k) # NoMessage /\ Get(k).op = "GET" /\ Get(k).key = k
  /\ \A v : OK(v) # NoMessage /\ OK(v) # Error /\ OK(v).op = "OK" /\ OK(v).value = v
  /\ Error # NoMessage /\ Error.op # "OK" /\ Error.value = Empty
  /\ NoMessage.op # "OK"
  /\ \A k, l, v : Put(k, v) # Get(l)
BY DEF Put, Get, OK, Error, NoMessage

\* The patterns draw keys that getInitialisationKeyValuePairs() covers.
LEMMA DrawnKeys ==
  ASSUME NEW c \in Configurations, ~DividesByZero(c), NEW r \in Nat, NEW s \in Nat
  PROVE  /\ NextAccess(c, r, s).key \in InitialisationKeys(c)
         /\ NextAccess(c, r, s).read \in BOOLEAN
<1>1. c.minKey \in Int /\ c.maxKey \in Int /\ c.maxKey - c.minKey \in Nat \ {0}
  BY SimulatorAssumption DEF DividesByZero
<1>2. s % (c.maxKey - c.minKey) \in 0 .. (c.maxKey - c.minKey) - 1
  BY <1>1
<1>3. NextKey(c, s) \in InitialisationKeys(c)
  BY <1>1, <1>2 DEF NextKey, InitialisationKeys
<1>4. CASE c.pattern = "ReadOnly"
  BY <1>3, <1>4 DEF NextAccess, ReadOnlyNext
<1>5. CASE c.pattern = "WriteOnly"
  BY <1>3, <1>5 DEF NextAccess, WriteOnlyNext
<1>6. CASE c.pattern \notin {"ReadOnly", "WriteOnly"}
  <2>1. NextAccess(c, r, s) = RandomNext(c, r, s)
    BY <1>6 DEF NextAccess
  <2>2. RandomNext(c, r, s).key = NextKey(c, s)
    BY DEF RandomNext
  <2>3. RandomNext(c, r, s).read
          = (r * (1 + ReadWriteRatio(c)) <= ReadWriteRatio(c) * RandMax)
    BY Zenon DEF RandomNext
  <2>4. QED
    BY <1>3, <2>1, <2>2, <2>3
<1>7. QED
  BY <1>4, <1>5, <1>6

LEMMA KeysOfNode ==
  ASSUME TypeOK, NEW n \in Nodes
  PROVE  KeysOf(n) \subseteq Keys
BY SimulatorAssumption DEF TypeOK, KeysOf, InitialisationKeys

LEMMA InitIInv == Init => IInv
<1> SUFFICES ASSUME Init PROVE IInv
  OBVIOUS
<1> USE DEF Init, BrokerInit
<1>1. TypeOK
  BY DEF TypeOK, NoAccess
<1>2. FilledInv
  BY DEF FilledInv
<1>3. ASSUME NEW n \in Nodes PROVE NodeInv(n)
  <2>1. SocketInv(n) /\ AccessInv(n)
    BY DEF SocketInv, InStep, Owed, AccessInv, Accessing, NoAccess
  <2>2. CountInv(n)
    BY DEF CountInv, Lost, Owed
  <2>3. LoopInv(n) /\ InitialiseInv(n)
    BY DEF LoopInv, Accessing, InitialiseInv
  <2>4. QED
    BY <2>1, <2>2, <2>3 DEF NodeInv
<1>4. QED
  BY <1>1, <1>2, <1>3 DEF IInv

\* A step of n leaves the invariant of the other nodes alone if the database
\* loses no key.
SameNode(m) ==
  /\ request'[m] = request[m] /\ reply'[m] = reply[m] /\ executed'[m] = executed[m]
  /\ interrupts'[m] = interrupts[m] /\ pc'[m] = pc[m] /\ config'[m] = config[m]
  /\ mode'[m] = mode[m] /\ left'[m] = left[m] /\ unwritten'[m] = unwritten[m]
  /\ access'[m] = access[m] /\ reads'[m] = reads[m] /\ writes'[m] = writes[m]
  /\ asked'[m] = asked[m] /\ accesses'[m] = accesses[m]

KeepsKeys == \A k \in Keys : store[k] # Empty => store'[k] # Empty

LEMMA NodeFrame ==
  ASSUME TypeOK, NEW m \in Nodes, NodeInv(m), SameNode(m), KeepsKeys
  PROVE  NodeInv(m)'
<1> USE DEF SameNode
<1>1. KeysOf(m)' = KeysOf(m) /\ KeysOf(m) \subseteq Keys /\ UsesBroker(m)' = UsesBroker(m)
      /\ Intended(m)' = Intended(m) /\ Accessing(m)' = Accessing(m)
  BY KeysOfNode DEF KeysOf, UsesBroker, Intended, Accessing
<1>2. SocketInv(m)'
  <2>1. Answered(m) /\ access[m].key \in Keys => Answered(m)'
    BY DEF Answered, KeepsKeys
  <2>2. pc[m] = "receive" => access[m].key \in Keys
    BY <1>1 DEF NodeInv, AccessInv, Accessing
  <2>3. QED
    BY <1>1, <2>1, <2>2 DEF NodeInv, SocketInv, InStep, Owed
<1>3. AccessInv(m)'
  BY <1>1 DEF NodeInv, AccessInv, KeepsKeys
<1>4. CountInv(m)'
  BY DEF NodeInv, CountInv, Lost, Owed
<1>5. LoopInv(m)' /\ InitialiseInv(m)'
  BY <1>1 DEF NodeInv, LoopInv, InitialiseInv, KeepsKeys
<1>6. QED
  BY <1>2, <1>3, <1>4, <1>5 DEF NodeInv

\* What the action of one node leaves to prove.
LEMMA OneNodeStep ==
  ASSUME IInv, TypeOK', FilledInv', NEW n \in Nodes, NodeInv(n)',
         \A m \in Nodes \ {n} : SameNode(m), KeepsKeys
  PROVE  IInv'
BY NodeFrame DEF IInv

-----------------------------------------------------------------------------
LEMMA ConstructStep ==
  ASSUME IInv, NEW n \in Nodes, Construct(n)
  PROVE  IInv'
<1> USE DEF Construct, Goto, brokerVars, socketVars
<1>1. NodeInv(n) /\ pc[n] = "start" /\ pc'[n] \in {"idle", "undefined"}
  BY DEF IInv, TypeOK
<1>2. TypeOK'
  BY DEF IInv, TypeOK
<1>3. FilledInv' /\ KeepsKeys
  BY DEF IInv, FilledInv, KeepsKeys
<1>4. \A m \in Nodes \ {n} : SameNode(m)
  BY DEF IInv, TypeOK, SameNode
<1>5. NodeInv(n)'
  <2>1. SocketInv(n)' /\ AccessInv(n)'
    BY <1>1 DEF NodeInv, SocketInv, InStep, Owed, AccessInv, Accessing, KeysOf, UsesBroker
  <2>2. CountInv(n)'
    BY <1>1 DEF NodeInv, CountInv, Lost, Owed
  <2>3. LoopInv(n)' /\ InitialiseInv(n)'
    BY <1>1 DEF NodeInv, LoopInv, InitialiseInv, Accessing, KeysOf, UsesBroker
  <2>4. QED
    BY <2>1, <2>2, <2>3 DEF NodeInv
<1>6. QED
  BY <1>2, <1>3, <1>4, <1>5, OneNodeStep

\* What the caller's operations have in common.
LEMMA CallStep ==
  ASSUME IInv, NEW n \in Nodes, NEW operation \in {"simulate", "burn", "initialise"},
         Call(n, operation)
  PROVE  /\ pc[n] = "idle" /\ pc'[n] = "loop" /\ mode'[n] = operation
         /\ pc' \in [Nodes -> {"start", "idle", "loop", "send", "receive", "undefined", "gone"}]
         /\ mode' \in [Nodes -> {"none", "simulate", "burn", "initialise"}]
         /\ calls' \in Nat
         /\ SocketInv(n)' /\ AccessInv(n)' /\ CountInv(n)'
         /\ FilledInv' /\ KeepsKeys
<1> USE DEF Call, Goto, brokerVars, socketVars
<1>1. NodeInv(n) /\ pc[n] = "idle" /\ pc'[n] = "loop"
  BY DEF IInv, TypeOK
<1>2. /\ mode'[n] = operation
      /\ pc' \in [Nodes -> {"start", "idle", "loop", "send", "receive", "undefined", "gone"}]
      /\ mode' \in [Nodes -> {"none", "simulate", "burn", "initialise"}]
      /\ calls' \in Nat
  BY DEF IInv, TypeOK
<1>3. SocketInv(n)'
  BY <1>1 DEF NodeInv, SocketInv, InStep, Owed
<1>4. AccessInv(n)'
  BY <1>1 DEF NodeInv, AccessInv, Accessing, KeysOf, UsesBroker, NoAccess
<1>5. CountInv(n)'
  BY <1>1 DEF NodeInv, CountInv, Lost, Owed
<1>6. FilledInv' /\ KeepsKeys
  BY DEF IInv, FilledInv, KeepsKeys
<1>7. QED
  BY <1>1, <1>2, <1>3, <1>4, <1>5, <1>6

LEMMA RepeatStep ==
  ASSUME IInv, NEW n \in Nodes, Simulate(n) \/ BurnInOut(n)
  PROVE  IInv'
<1>1. PICK operation \in {"simulate", "burn"}, k \in 0 .. MaxBurst :
        /\ Call(n, operation) /\ Repeat(n, k)
        /\ asked' = IF operation = "simulate" THEN [asked EXCEPT ![n] = @ + k] ELSE asked
  BY DEF Simulate, BurnInOut
<1>2. k \in Nat
  BY SimulatorAssumption
<1>3. TypeOK'
  <2>1. asked' \in [Nodes -> Nat]
    BY <1>1, <1>2 DEF IInv, TypeOK
  <2>2. QED
    BY <1>1, <1>2, <2>1, CallStep DEF Repeat, Call, brokerVars, socketVars, IInv, TypeOK
<1>4. \A m \in Nodes \ {n} : SameNode(m)
  BY <1>1 DEF Repeat, Call, Goto, brokerVars, socketVars, IInv, TypeOK, SameNode
<1>5. LoopInv(n)' /\ InitialiseInv(n)'
  <2>1. /\ reads'[n] = reads[n] /\ writes'[n] = writes[n] /\ left'[n] = k
        /\ asked'[n] = IF operation = "simulate" THEN asked[n] + k ELSE asked[n]
        /\ unwritten'[n] = unwritten[n] /\ mode'[n] = operation /\ pc'[n] = "loop"
        /\ pc[n] = "idle"
    BY <1>1, CallStep DEF Repeat, Call, IInv, TypeOK
  <2>2. reads[n] \in Nat /\ writes[n] \in Nat /\ asked[n] \in Nat
    BY DEF IInv, TypeOK
  <2>3. mode[n] = "none" /\ unwritten[n] = {} /\ reads[n] + writes[n] = asked[n]
    BY <2>1, <2>2 DEF IInv, NodeInv, LoopInv
  <2>4. LoopInv(n)'
    BY <1>2, <2>1, <2>2, <2>3 DEF LoopInv, Accessing
  <2>5. QED
    BY <2>1, <2>4 DEF InitialiseInv
<1>6. QED
  BY <1>1, <1>3, <1>4, <1>5, CallStep, OneNodeStep DEF NodeInv

LEMMA InitialiseStep ==
  ASSUME IInv, NEW n \in Nodes, Initialise(n)
  PROVE  IInv'
<1>1. Call(n, "initialise") /\ unwritten' = [unwritten EXCEPT ![n] = KeysOf(n)]
      /\ runs' = runs /\ left' = left /\ asked' = asked
  BY DEF Initialise, KeysOf
<1>2. TypeOK'
  BY <1>1, CallStep, KeysOfNode DEF Call, brokerVars, socketVars, IInv, TypeOK
<1>3. \A m \in Nodes \ {n} : SameNode(m)
  BY <1>1 DEF Call, Goto, brokerVars, socketVars, IInv, TypeOK, SameNode
<1>4. LoopInv(n)' /\ InitialiseInv(n)'
  <2>1. /\ reads'[n] = reads[n] /\ writes'[n] = writes[n] /\ left'[n] = left[n]
        /\ asked'[n] = asked[n] /\ mode'[n] = "initialise" /\ pc'[n] = "loop" /\ pc[n] = "idle"
        /\ unwritten'[n] = KeysOf(n) /\ KeysOf(n)' = KeysOf(n)
    BY <1>1, CallStep DEF Call, IInv, TypeOK, KeysOf
  <2>2. reads[n] \in Nat /\ writes[n] \in Nat /\ asked[n] \in Nat
    BY DEF IInv, TypeOK
  <2>3. mode[n] = "none" /\ left[n] = 0 /\ reads[n] + writes[n] = asked[n]
    BY <2>1, <2>2 DEF IInv, NodeInv, LoopInv
  <2>4. LoopInv(n)'
    BY <2>1, <2>2, <2>3 DEF LoopInv, Accessing
  <2>5. QED
    BY <2>1, <2>4 DEF InitialiseInv
<1>5. QED
  BY <1>1, <1>2, <1>3, <1>4, CallStep, OneNodeStep DEF NodeInv

\* What the two loops have in common.
LEMMA AccessStep ==
  ASSUME IInv, NEW n \in Nodes, NEW isRead \in BOOLEAN, NEW key \in KeysOf(n),
         pc[n] = "loop", Access(n, isRead, key), UNCHANGED <<config, filled, brokerVars>>
  PROVE  /\ pc' \in [Nodes -> {"start", "idle", "loop", "send", "receive", "undefined", "gone"}]
         /\ access' \in [Nodes -> [made : BOOLEAN, read : BOOLEAN, key : Keys \cup {Empty},
                                   sure : BOOLEAN, value : {Empty, TheValue}]]
         /\ accesses' \in [Nodes -> Nat]
         /\ pc'[n] \in {"send", "loop", "undefined"} /\ (UsesBroker(n) => pc'[n] = "send")
         /\ access'[n].read = isRead /\ access'[n].key = key
         /\ SocketInv(n)' /\ AccessInv(n)' /\ CountInv(n)'
         /\ FilledInv' /\ KeepsKeys
<1> USE DEF Access, Goto, brokerVars, socketVars
<1>1. NodeInv(n) /\ key \in Keys
  BY KeysOfNode DEF IInv
<1>2. /\ access'[n] = [made |-> TRUE, read |-> isRead, key |-> key, sure |-> Initialised(n),
                       value |-> Empty]
      /\ pc'[n] \in {"send", "loop", "undefined"} /\ (UsesBroker(n) <=> pc'[n] = "send")
      /\ accesses'[n] = accesses[n] + (IF UsesBroker(n) THEN 1 ELSE 0)
      /\ request'[n] = request[n] /\ reply'[n] = reply[n] /\ executed'[n] = executed[n]
      /\ interrupts'[n] = interrupts[n] /\ config'[n] = config[n]
  BY DEF IInv, TypeOK, UsesBroker
<1>3. Initialised(n) \in BOOLEAN
  BY DEF Initialised
<1>4. /\ pc' \in [Nodes -> {"start", "idle", "loop", "send", "receive", "undefined", "gone"}]
      /\ access' \in [Nodes -> [made : BOOLEAN, read : BOOLEAN, key : Keys \cup {Empty},
                                sure : BOOLEAN, value : {Empty, TheValue}]]
      /\ accesses' \in [Nodes -> Nat]
  BY <1>1, <1>3 DEF IInv, TypeOK
<1>5. SocketInv(n)'
  BY <1>1, <1>2 DEF NodeInv, SocketInv, InStep, Owed
<1>6. AccessInv(n)'
  <2>1. Initialised(n) => \A k \in KeysOf(n) : store[k] # Empty
    BY DEF Initialised, IInv, FilledInv, KeysOf
  <2>2. KeysOf(n)' = KeysOf(n) /\ UsesBroker(n)' = UsesBroker(n)
    BY DEF KeysOf, UsesBroker
  <2>3. access'[n].made /\ access'[n].key = key /\ access'[n].sure = Initialised(n)
        /\ access'[n].value = Empty
    BY <1>2
  <2>4. QED
    BY <1>2, <2>1, <2>2, <2>3 DEF AccessInv, Accessing
<1>7. CountInv(n)'
  BY <1>1, <1>2 DEF NodeInv, CountInv, Lost, Owed, IInv, TypeOK
<1>8. FilledInv' /\ KeepsKeys
  BY DEF IInv, FilledInv, KeepsKeys
<1>9. QED
  BY <1>2, <1>4, <1>5, <1>6, <1>7, <1>8

LEMMA GetNextStep ==
  ASSUME IInv, NEW n \in Nodes, GetNext(n)
  PROVE  IInv'
<1>1. PICK r, s \in 0 .. RandMax :
        LET next == NextAccess(config[n], r, s)
        IN  Counted(n, next.read) /\ Access(n, next.read, next.key)
  BY DEF GetNext
<1> DEFINE isRead == NextAccess(config[n], r, s).read
           key == NextAccess(config[n], r, s).key
<1>2. isRead \in BOOLEAN /\ key \in KeysOf(n)
  <2>1. config[n] \in Configurations /\ r \in Nat /\ s \in Nat
    BY PatternAssumption DEF IInv, TypeOK
  <2>2. QED
    BY <2>1, DrawnKeys DEF GetNext, KeysOf
<1> HIDE DEF isRead, key
<1>3. Access(n, isRead, key) /\ Counted(n, isRead)
  BY <1>1 DEF isRead, key
<1>4. UNCHANGED <<config, filled, brokerVars>> /\ pc[n] = "loop"
  BY DEF GetNext
<1>5. /\ left' = [left EXCEPT ![n] = @ - 1] /\ left[n] > 0
      /\ UNCHANGED <<mode, unwritten, runs, asked, calls>>
  BY DEF GetNext
<1>6. /\ left[n] \in Nat \ {0} /\ reads[n] \in Nat /\ writes[n] \in Nat /\ asked[n] \in Nat
      /\ left'[n] = left[n] - 1
  BY <1>5 DEF IInv, TypeOK
<1>7. TypeOK'
  <2>1. reads' \in [Nodes -> Nat] /\ writes' \in [Nodes -> Nat] /\ left' \in [Nodes -> Nat]
    BY <1>2, <1>3, <1>5, <1>6 DEF Counted, IInv, TypeOK
  <2>2. QED
    BY <1>2, <1>3, <1>4, <1>5, <2>1, AccessStep DEF brokerVars, socketVars, IInv, TypeOK
<1>8. \A m \in Nodes \ {n} : SameNode(m)
  BY <1>3, <1>4, <1>5 DEF Counted, Access, Goto, brokerVars, socketVars, IInv, TypeOK, SameNode
<1>9. LoopInv(n)' /\ InitialiseInv(n)'
  <2>1. mode[n] # "initialise" /\ unwritten[n] = {}
    BY <1>6 DEF IInv, NodeInv, LoopInv
  <2>2. reads'[n] + writes'[n] = asked[n] - (IF mode[n] = "simulate" THEN left'[n] ELSE 0)
    <3>1. reads[n] + writes[n] = asked[n] - (IF mode[n] = "simulate" THEN left[n] ELSE 0)
      BY DEF IInv, NodeInv, LoopInv
    <3>2. mode[n] = "simulate" => reads'[n] + writes'[n] = reads[n] + writes[n] + 1
      BY <1>2, <1>3, <1>6 DEF Counted, IInv, TypeOK
    <3>3. mode[n] # "simulate" => reads'[n] = reads[n] /\ writes'[n] = writes[n]
      BY <1>3 DEF Counted, IInv, TypeOK
    <3>4. QED
      BY <1>6, <3>1, <3>2, <3>3
  <2>3. pc'[n] \in {"send", "loop", "undefined"}
    BY <1>2, <1>3, <1>4, AccessStep
  <2>4. QED
    BY <1>5, <2>1, <2>2, <2>3 DEF LoopInv, InitialiseInv
<1>10. QED
  BY <1>2, <1>3, <1>4, <1>7, <1>8, <1>9, AccessStep, OneNodeStep DEF NodeInv

LEMMA GetNextOfOneKeyStep ==
  ASSUME IInv, NEW n \in Nodes, GetNextOfOneKey(n)
  PROVE  IInv'
<1> USE DEF GetNextOfOneKey, Goto, brokerVars, socketVars
<1>1. NodeInv(n) /\ pc[n] = "loop" /\ pc'[n] = "undefined"
  BY DEF IInv, TypeOK
<1>2. TypeOK'
  BY DEF IInv, TypeOK
<1>3. FilledInv' /\ KeepsKeys
  BY DEF IInv, FilledInv, KeepsKeys
<1>4. \A m \in Nodes \ {n} : SameNode(m)
  BY DEF IInv, TypeOK, SameNode
<1>5. NodeInv(n)'
  <2>1. SocketInv(n)' /\ AccessInv(n)'
    BY <1>1 DEF NodeInv, SocketInv, InStep, Owed, AccessInv, Accessing, KeysOf, UsesBroker
  <2>2. CountInv(n)'
    BY <1>1 DEF NodeInv, CountInv, Lost, Owed
  <2>3. LoopInv(n)' /\ InitialiseInv(n)'
    BY <1>1 DEF NodeInv, LoopInv, InitialiseInv, Accessing, KeysOf, UsesBroker
  <2>4. QED
    BY <2>1, <2>2, <2>3 DEF NodeInv
<1>6. QED
  BY <1>2, <1>3, <1>4, <1>5, OneNodeStep

LEMMA PutInitialStep ==
  ASSUME IInv, NEW n \in Nodes, PutInitial(n)
  PROVE  IInv'
<1>1. PICK k \in unwritten[n] :
        unwritten' = [unwritten EXCEPT ![n] = @ \ {k}] /\ Access(n, FALSE, k)
  BY DEF PutInitial
<1>2. k \in KeysOf(n)
  BY <1>1 DEF IInv, NodeInv, LoopInv
<1>3. UNCHANGED <<config, filled, brokerVars>> /\ pc[n] = "loop"
  BY DEF PutInitial
<1>4. UNCHANGED <<mode, left, reads, writes, runs, asked, calls>>
  BY DEF PutInitial
<1>5. TypeOK'
  <2>1. unwritten' \in [Nodes -> SUBSET Keys]
    BY <1>1 DEF IInv, TypeOK
  <2>2. QED
    BY <1>1, <1>2, <1>3, <1>4, <2>1, AccessStep DEF brokerVars, socketVars, IInv, TypeOK
<1>6. \A m \in Nodes \ {n} : SameNode(m)
  BY <1>1, <1>3, <1>4 DEF Access, Goto, brokerVars, socketVars, IInv, TypeOK, SameNode
<1>7. LoopInv(n)' /\ InitialiseInv(n)'
  <2>1. /\ pc'[n] \in {"send", "loop", "undefined"} /\ (UsesBroker(n) => pc'[n] = "send")
        /\ ~access'[n].read /\ access'[n].key = k
    BY <1>1, <1>2, <1>3, AccessStep
  <2>2. /\ unwritten'[n] = unwritten[n] \ {k} /\ mode[n] = "initialise"
        /\ KeysOf(n)' = KeysOf(n) /\ UsesBroker(n)' = UsesBroker(n)
    BY <1>1, <1>3 DEF IInv, TypeOK, NodeInv, LoopInv, KeysOf, UsesBroker
  <2>3. LoopInv(n)'
    BY <1>4, <2>1, <2>2 DEF IInv, NodeInv, LoopInv
  <2>4. InitialiseInv(n)'
    <3>1. interrupts' = interrupts /\ store' = store
      BY <1>3 DEF brokerVars, socketVars
    <3>2. UsesBroker(n) /\ interrupts[n] = 0 =>
            \A j \in KeysOf(n) \ unwritten[n] : store[j] # Empty
      BY <1>3, <2>2 DEF IInv, NodeInv, InitialiseInv, Accessing
    <3>3. QED
      BY <2>1, <2>2, <3>1, <3>2 DEF InitialiseInv, Accessing
  <2>5. QED
    BY <2>3, <2>4
<1>8. QED
  BY <1>1, <1>2, <1>3, <1>5, <1>6, <1>7, AccessStep, OneNodeStep DEF NodeInv

LEMMA SendRequestStep ==
  ASSUME IInv, NEW n \in Nodes, SendRequest(n)
  PROVE  IInv'
<1> USE DEF SendRequest, Send, Goto
<1>1. /\ NodeInv(n) /\ pc[n] = "send" /\ pc'[n] = "receive"
      /\ request' = IF Owed(n) THEN request ELSE [request EXCEPT ![n] = Intended(n)]
      /\ Intended(n)' = Intended(n) /\ Intended(n) # NoMessage
  BY MessageKinds DEF IInv, TypeOK, Intended
<1>2. access[n].made /\ access[n].key \in Keys /\ Intended(n) \in Requests
  BY <1>1, KeysOfNode DEF IInv, NodeInv, AccessInv, Accessing, Intended, Requests
<1>3. TypeOK'
  BY <1>1, <1>2 DEF IInv, TypeOK
<1>4. FilledInv' /\ KeepsKeys
  BY DEF IInv, FilledInv, KeepsKeys
<1>5. \A m \in Nodes \ {n} : SameNode(m)
  BY DEF IInv, TypeOK, SameNode
<1>6. NodeInv(n)'
  <2>1. SocketInv(n)'
    BY <1>1 DEF NodeInv, SocketInv, InStep, Owed, IInv, TypeOK
  <2>2. AccessInv(n)'
    BY <1>1 DEF NodeInv, AccessInv, Accessing, KeysOf, UsesBroker
  <2>3. CountInv(n)'
    BY <1>1 DEF NodeInv, SocketInv, CountInv, Lost, Owed, IInv, TypeOK
  <2>4. LoopInv(n)' /\ InitialiseInv(n)'
    BY <1>1 DEF NodeInv, LoopInv, InitialiseInv, Accessing, KeysOf, UsesBroker
  <2>5. QED
    BY <2>1, <2>2, <2>3, <2>4 DEF NodeInv
<1>7. QED
  BY <1>3, <1>4, <1>5, <1>6, OneNodeStep

LEMMA ReceiveAnswerStep ==
  ASSUME IInv, NEW n \in Nodes, ReceiveAnswer(n)
  PROVE  IInv'
<1> USE DEF ReceiveAnswer, Goto, socketVars
<1> DEFINE answer == IF access[n].read /\ reply[n].op = "OK" THEN reply[n].value ELSE Empty
<1>1. /\ NodeInv(n) /\ pc[n] = "receive" /\ pc'[n] = "loop"
      /\ request' = request /\ store' = store
      /\ KeysOf(n)' = KeysOf(n) /\ UsesBroker(n)' = UsesBroker(n) /\ executed' = executed
  BY DEF Receive, Interrupt, IInv, TypeOK, KeysOf, UsesBroker
<1>2. \/ Receive(n) /\ interrupts'[n] = interrupts[n] /\ ~Owed(n)' /\ reply[n] # NoMessage
      \/ Interrupt(n) /\ interrupts'[n] = interrupts[n] + 1 /\ Owed(n)' /\ Owed(n)
  BY <1>1 DEF Receive, Interrupt, NodeInv, SocketInv, Owed, IInv, TypeOK
<1>3. answer \in {Empty, TheValue} /\ interrupts[n] \in Nat
  <2>1. reply[n] \in {OK(Empty), OK(TheValue), Error, NoMessage} /\ interrupts[n] \in Nat
    BY DEF IInv, TypeOK, Answers
  <2>2. reply[n].op = "OK" => reply[n].value \in {Empty, TheValue}
    BY <2>1, MessageKinds
  <2>3. QED
    BY <2>1, <2>2
<1>4. /\ access' = [access EXCEPT ![n].value = answer]
      /\ access'[n] = [access[n] EXCEPT !.value = answer]
  BY DEF IInv, TypeOK
<1>5. access[n] \in [made : BOOLEAN, read : BOOLEAN, key : Keys \cup {Empty},
                     sure : BOOLEAN, value : {Empty, TheValue}]
  BY DEF IInv, TypeOK
<1> HIDE DEF answer
<1>6. /\ access'[n].made = access[n].made /\ access'[n].read = access[n].read
      /\ access'[n].key = access[n].key /\ access'[n].sure = access[n].sure
      /\ access'[n].value = answer
  BY <1>4, <1>5
<1>7. TypeOK'
  <2>1. access' \in [Nodes -> [made : BOOLEAN, read : BOOLEAN, key : Keys \cup {Empty},
                               sure : BOOLEAN, value : {Empty, TheValue}]]
    <3>1. access'[n] \in [made : BOOLEAN, read : BOOLEAN, key : Keys \cup {Empty},
                          sure : BOOLEAN, value : {Empty, TheValue}]
      BY <1>3, <1>4, <1>5
    <3>2. access' = [access EXCEPT ![n] = access'[n]]
      BY <1>4 DEF IInv, TypeOK
    <3>3. QED
      BY <3>1, <3>2 DEF IInv, TypeOK
  <2>2. CASE Receive(n)
    BY <2>1, <2>2 DEF Receive, IInv, TypeOK
  <2>3. CASE Interrupt(n)
    BY <2>1, <2>3 DEF Interrupt, IInv, TypeOK
  <2>4. QED
    BY <2>2, <2>3
<1>8. FilledInv' /\ KeepsKeys
  BY <1>1 DEF IInv, FilledInv, KeepsKeys
<1>9. \A m \in Nodes \ {n} : SameNode(m)
  BY DEF Receive, Interrupt, IInv, TypeOK, SameNode
\* What an undisturbed node receives answers its access.
<1>10. Receive(n) /\ interrupts[n] = 0 => Answered(n)
  <2>1. Intended(n) # NoMessage
    BY MessageKinds DEF Intended
  <2>2. reply[n] # NoMessage => request[n] = NoMessage
    BY <1>1 DEF NodeInv, SocketInv
  <2>3. interrupts[n] = 0 => request[n] = Intended(n) \/ Answered(n)
    BY <1>1 DEF NodeInv, SocketInv, InStep
  <2>4. QED
    BY <2>1, <2>2, <2>3 DEF Receive
<1>11. NodeInv(n)'
  <2>1. SocketInv(n)'
    <3>1. request'[n] = NoMessage \/ reply'[n] = NoMessage
      BY <1>1 DEF Receive, Interrupt, NodeInv, SocketInv, IInv, TypeOK
    <3>2. interrupts'[n] = 0 => ~Owed(n)'
      BY <1>2, <1>3
    <3>3. QED
      BY <1>1, <3>1, <3>2 DEF SocketInv, InStep
  <2>2. AccessInv(n)'
    <3>1. access[n].made /\ access[n].key \in KeysOf(n)
      BY <1>1 DEF NodeInv, AccessInv, Accessing
    <3>2. access[n].sure => \A k \in KeysOf(n) : store[k] # Empty
      BY <1>1 DEF NodeInv, AccessInv
    <3>3. access[n].read /\ access[n].sure /\ interrupts'[n] = 0 => answer # Empty
      BY <1>2, <1>3, <1>10, MessageKinds, TheOnlyValue DEF Answered, answer
    <3>4. QED
      BY <1>1, <1>6, <3>1, <3>2, <3>3 DEF AccessInv, Accessing
  <2>3. CountInv(n)'
    <3>1. accesses'[n] = accesses[n] /\ accesses[n] \in Nat /\ executed[n].PUT \in Nat
          /\ executed[n].GET \in Nat
      BY DEF IInv, TypeOK
    <3>2. Lost(n)' = Lost(n) /\ Lost(n) \in Int
      BY <1>1, <3>1 DEF Lost
    <3>3. CASE Receive(n)
      BY <1>1, <1>2, <1>3, <3>2, <3>3 DEF NodeInv, CountInv, Owed
    <3>4. CASE Interrupt(n)
      BY <1>1, <1>2, <1>3, <3>2, <3>4 DEF Interrupt, NodeInv, CountInv, Owed
    <3>5. QED
      BY <3>3, <3>4
  <2>4. LoopInv(n)'
    BY <1>1 DEF NodeInv, LoopInv, Accessing
  <2>5. InitialiseInv(n)'
    <3>1. SUFFICES ASSUME mode[n] = "initialise", UsesBroker(n), interrupts'[n] = 0,
                          NEW k \in KeysOf(n) \ unwritten[n]
                   PROVE  store[k] # Empty
      BY <1>1 DEF InitialiseInv
    <3>2. Receive(n) /\ interrupts[n] = 0
      BY <1>2, <1>3, <3>1
    <3>3. store[k] # Empty \/ access[n].key = k
      BY <1>1, <3>1, <3>2 DEF NodeInv, InitialiseInv
    <3>4. ~access[n].read
      BY <1>1, <3>1 DEF NodeInv, LoopInv, Accessing
    <3>5. QED
      BY <1>10, <3>2, <3>3, <3>4 DEF Answered
  <2>6. QED
    BY <2>1, <2>2, <2>3, <2>4, <2>5 DEF NodeInv
<1>12. QED
  BY <1>7, <1>8, <1>9, <1>11, OneNodeStep

LEMMA ReturnStep ==
  ASSUME IInv, NEW n \in Nodes, Return(n)
  PROVE  IInv'
<1>1. /\ Ended(n) /\ mode[n] \in {"simulate", "burn", "initialise"}
      /\ pc' = [pc EXCEPT ![n] = pc'[n]] /\ pc'[n] \in {"idle", "undefined"}
      /\ \/ filled' = filled
         \/ /\ mode[n] = "initialise" /\ UsesBroker(n) /\ interrupts[n] = 0
            /\ filled' = filled \cup {config[n]}
  BY DEF Return, EndOfSimulate, EndOfBurnInOut, EndOfInitialise, Ended, Goto, IInv, TypeOK
<1>2. /\ access' = [access EXCEPT ![n] = NoAccess]
      /\ mode' = [mode EXCEPT ![n] = "none"] /\ runs' = [runs EXCEPT ![n] = 0]
      /\ UNCHANGED <<config, left, unwritten, reads, writes, asked, accesses, calls>>
      /\ UNCHANGED <<request, reply, store, executed, interrupts>>
  BY DEF Return, brokerVars, socketVars
<1>3. TypeOK'
  <2>1. NoAccess \in [made : BOOLEAN, read : BOOLEAN, key : Keys \cup {Empty},
                      sure : BOOLEAN, value : {Empty, TheValue}]
    BY DEF NoAccess
  <2>2. pc' \in [Nodes -> {"start", "idle", "loop", "send", "receive", "undefined", "gone"}]
    BY <1>1 DEF IInv, TypeOK
  <2>3. filled' \subseteq Configurations
    BY <1>1 DEF IInv, TypeOK
  <2>4. QED
    BY <1>2, <2>1, <2>2, <2>3 DEF IInv, TypeOK
<1>4. NodeInv(n) /\ pc[n] = "loop" /\ left[n] = 0 /\ unwritten[n] = {}
  BY <1>1 DEF IInv, Ended
\* When initialise() returns, nothing of what it had to write is on its way.
<1>5. FilledInv' /\ KeepsKeys
  <2>1. mode[n] = "initialise" /\ UsesBroker(n) /\ interrupts[n] = 0 =>
          \A k \in InitialisationKeys(config[n]) : store[k] # Empty
    BY <1>4 DEF NodeInv, InitialiseInv, Accessing, KeysOf
  <2>2. QED
    BY <1>1, <1>2, <2>1 DEF IInv, FilledInv, KeepsKeys
<1>6. \A m \in Nodes \ {n} : SameNode(m)
  BY <1>1, <1>2 DEF IInv, TypeOK, SameNode
<1>7. NodeInv(n)'
  <2>1. access'[n] = NoAccess /\ mode'[n] = "none"
    BY <1>2 DEF IInv, TypeOK
  <2>2. SocketInv(n)'
    BY <1>1, <1>2, <1>4 DEF NodeInv, SocketInv, InStep, Owed
  <2>3. AccessInv(n)'
    BY <1>1, <2>1 DEF AccessInv, Accessing, NoAccess
  <2>4. CountInv(n)'
    BY <1>1, <1>2, <1>4 DEF NodeInv, CountInv, Lost, Owed
  <2>5. LoopInv(n)' /\ InitialiseInv(n)'
    BY <1>1, <1>2, <1>4, <2>1 DEF NodeInv, LoopInv, InitialiseInv, Accessing, IInv, TypeOK
  <2>6. QED
    BY <2>2, <2>3, <2>4, <2>5 DEF NodeInv
<1>8. QED
  BY <1>3, <1>5, <1>6, <1>7, OneNodeStep

LEMMA DestroyStep ==
  ASSUME IInv, NEW n \in Nodes, Destroy(n)
  PROVE  IInv'
<1> USE DEF Destroy, Close, Goto
<1>1. NodeInv(n) /\ pc[n] = "idle" /\ pc'[n] = "gone" /\ reply'[n] = NoMessage
  BY DEF IInv, TypeOK
<1>2. TypeOK'
  BY DEF IInv, TypeOK
<1>3. FilledInv' /\ KeepsKeys
  BY DEF IInv, FilledInv, KeepsKeys
<1>4. \A m \in Nodes \ {n} : SameNode(m)
  BY DEF IInv, TypeOK, SameNode
<1>5. NodeInv(n)'
  <2>1. SocketInv(n)' /\ AccessInv(n)'
    BY <1>1 DEF NodeInv, SocketInv, InStep, Owed, AccessInv, Accessing, KeysOf, UsesBroker
  <2>2. CountInv(n)'
    BY <1>1 DEF NodeInv, CountInv, Lost, Owed, IInv, TypeOK
  <2>3. LoopInv(n)' /\ InitialiseInv(n)'
    BY <1>1 DEF NodeInv, LoopInv, InitialiseInv, Accessing, KeysOf, UsesBroker
  <2>4. QED
    BY <2>1, <2>2, <2>3 DEF NodeInv
<1>6. QED
  BY <1>2, <1>3, <1>4, <1>5, OneNodeStep

\* The broker answers a GET with what is stored.
LEMMA ServeStep ==
  ASSUME IInv, NEW n \in Nodes, Serve(n), UNCHANGED simVars
  PROVE  IInv'
<1> USE DEF simVars
<1>1. /\ NodeInv(n) /\ request[n] # NoMessage /\ reply[n] = NoMessage
      /\ request' = [request EXCEPT ![n] = NoMessage] /\ interrupts' = interrupts
      /\ access' = access /\ KeysOf(n)' = KeysOf(n) /\ UsesBroker(n)' = UsesBroker(n)
  BY DEF Serve, IInv, TypeOK, NodeInv, SocketInv, KeysOf, UsesBroker
<1>2. PICK k \in Keys :
        \/ request[n] = Put(k, TheValue) /\ request[n].op = "PUT"
        \/ request[n] = Get(k) /\ request[n].op = "GET"
  <2>1. request[n] \in Requests
    BY <1>1 DEF IInv, TypeOK
  <2>2. PICK k \in Keys : request[n] = Put(k, TheValue) \/ request[n] = Get(k)
    BY <2>1 DEF Requests
  <2>3. QED
    BY <2>2, MessageKinds
<1>3. request[n].key = k /\ (request[n].op = "PUT" => request[n].value = TheValue)
  BY <1>2, MessageKinds
<1>4. request[n].op = "PUT" =>
        /\ store' = [store EXCEPT ![k] = TheValue]
        /\ reply' = [reply EXCEPT ![n] = OK(Empty)]
        /\ executed' = [executed EXCEPT ![n].PUT = @ + 1]
  BY <1>3 DEF Serve
<1>5. request[n].op # "PUT" =>
        /\ store' = store
        /\ reply' = [reply EXCEPT ![n] = IF store[k] = Empty THEN Error ELSE OK(TheValue)]
        /\ executed' = [executed EXCEPT ![n].GET = @ + 1]
  <2>1. store[k] # Empty => store[k] = TheValue
    BY DEF IInv, TypeOK
  <2>2. request[n].op # "PUT" => request[n].op = "GET"
    BY <1>2
  <2>3. QED
    BY <1>3, <2>1, <2>2 DEF Serve
<1>6. TypeOK'
  <2>1. request' \in [Nodes -> Requests \cup {NoMessage}]
    BY <1>1 DEF IInv, TypeOK
  <2>2. /\ reply' \in [Nodes -> Answers \cup {NoMessage}]
        /\ store' \in [Keys -> {Empty, TheValue}]
        /\ executed' \in [Nodes -> [PUT : Nat, GET : Nat]]
    <3>1. CASE request[n].op = "PUT"
      <4>1. /\ store' = [store EXCEPT ![k] = TheValue]
            /\ reply' = [reply EXCEPT ![n] = OK(Empty)]
            /\ executed' = [executed EXCEPT ![n].PUT = @ + 1]
        BY <1>4, <3>1
      <4>2. store' \in [Keys -> {Empty, TheValue}]
        BY <4>1 DEF IInv, TypeOK
      <4>3. reply' \in [Nodes -> Answers \cup {NoMessage}]
        BY <4>1 DEF IInv, TypeOK, Answers
      <4>4. executed' \in [Nodes -> [PUT : Nat, GET : Nat]]
        <5>1. executed \in [Nodes -> [PUT : Nat, GET : Nat]]
          BY DEF IInv, TypeOK
        <5>2. QED
          BY <4>1, <5>1
      <4>5. QED
        BY <4>2, <4>3, <4>4
    <3>2. CASE request[n].op # "PUT"
      <4>1. /\ store' = store
            /\ reply' = [reply EXCEPT ![n] = IF store[k] = Empty THEN Error ELSE OK(TheValue)]
            /\ executed' = [executed EXCEPT ![n].GET = @ + 1]
        BY <1>5, <3>2
      <4>2. store' \in [Keys -> {Empty, TheValue}]
        BY <4>1 DEF IInv, TypeOK
      <4>3. reply' \in [Nodes -> Answers \cup {NoMessage}]
        BY <4>1 DEF IInv, TypeOK, Answers
      <4>4. executed' \in [Nodes -> [PUT : Nat, GET : Nat]]
        <5>1. executed \in [Nodes -> [PUT : Nat, GET : Nat]]
          BY DEF IInv, TypeOK
        <5>2. QED
          BY <4>1, <5>1
      <4>5. QED
        BY <4>2, <4>3, <4>4
    <3>3. QED
      BY <3>1, <3>2
  <2>3. QED
    BY <1>1, <2>1, <2>2 DEF IInv, TypeOK
<1>7. FilledInv' /\ KeepsKeys
  <2>1. \A j \in Keys : store[j] # Empty => store'[j] # Empty
    BY <1>4, <1>5, TheOnlyValue DEF IInv, TypeOK
  <2>2. \A c \in filled : InitialisationKeys(c) \subseteq Keys
    BY SimulatorAssumption DEF IInv, TypeOK, InitialisationKeys
  <2>3. QED
    BY <2>1, <2>2 DEF IInv, FilledInv, KeepsKeys
<1>8. \A m \in Nodes \ {n} : SameNode(m)
  BY <1>1, <1>4, <1>5 DEF IInv, TypeOK, SameNode
<1>9. NodeInv(n)'
  <2>1. request'[n] = NoMessage /\ reply'[n] # NoMessage
    BY <1>1, <1>4, <1>5, MessageKinds DEF IInv, TypeOK
  <2>2. SocketInv(n)'
    <3>1. interrupts[n] = 0 => pc[n] = "receive" /\ Answered(n)'
      <4>1. SUFFICES ASSUME interrupts[n] = 0 PROVE pc[n] = "receive" /\ Answered(n)'
        OBVIOUS
      <4>2. pc[n] = "receive" /\ (request[n] = Intended(n) \/ Answered(n))
        BY <1>1, <4>1 DEF NodeInv, SocketInv, InStep, Owed
      <4>3. request[n] = Intended(n)
        BY <1>1, <4>2, MessageKinds DEF Answered
      <4>4. CASE access[n].read
        <5>1. k = access[n].key /\ request[n].op = "GET"
          BY <1>2, <1>3, <4>3, <4>4, MessageKinds DEF Intended
        <5>2. access[n].sure => store[k] # Empty
          BY <1>1, <4>2, <5>1 DEF NodeInv, AccessInv, Accessing
        <5>3. reply'[n] = IF store[k] = Empty THEN Error ELSE OK(TheValue)
          BY <1>5, <5>1 DEF IInv, TypeOK
        <5>4. QED
          BY <1>1, <4>2, <4>4, <5>2, <5>3 DEF Answered
      <4>5. CASE ~access[n].read
        <5>1. k = access[n].key /\ request[n].op = "PUT"
          BY <1>2, <1>3, <4>3, <4>5, MessageKinds DEF Intended
        <5>2. reply'[n] = OK(Empty) /\ store'[k] # Empty
          BY <1>4, <5>1, TheOnlyValue DEF IInv, TypeOK
        <5>3. QED
          BY <1>1, <4>2, <4>5, <5>1, <5>2 DEF Answered
      <4>6. QED
        BY <4>4, <4>5
    <3>2. QED
      BY <1>1, <2>1, <3>1 DEF NodeInv, SocketInv, InStep, Owed
  <2>3. AccessInv(n)'
    BY <1>1, <1>7, KeysOfNode DEF NodeInv, AccessInv, Accessing, KeepsKeys, IInv
  <2>4. CountInv(n)'
    <3>1. executed'[n].PUT + executed'[n].GET = executed[n].PUT + executed[n].GET + 1
      <4>1. CASE request[n].op = "PUT"
        <5>1. executed' = [executed EXCEPT ![n].PUT = @ + 1]
          BY <1>4, <4>1
        <5>2. QED
          BY <5>1 DEF IInv, TypeOK
      <4>2. CASE request[n].op # "PUT"
        <5>1. executed' = [executed EXCEPT ![n].GET = @ + 1]
          BY <1>5, <4>2
        <5>2. QED
          BY <5>1 DEF IInv, TypeOK
      <4>3. QED
        BY <4>1, <4>2
    <3>2. accesses[n] \in Nat /\ executed[n].PUT \in Nat /\ executed[n].GET \in Nat
      BY DEF IInv, TypeOK
    <3>3. executed'[n].PUT \in Nat /\ executed'[n].GET \in Nat
      BY <1>6 DEF TypeOK
    <3>4. Lost(n)' = Lost(n)
      BY <1>1, <2>1, <3>1, <3>2, <3>3 DEF Lost
    <3>5. QED
      BY <1>1, <2>1, <3>4 DEF NodeInv, CountInv, Owed
  <2>5. LoopInv(n)' /\ InitialiseInv(n)'
    BY <1>1, <1>7, KeysOfNode DEF NodeInv, LoopInv, InitialiseInv, Accessing, KeepsKeys, IInv
  <2>6. QED
    BY <2>2, <2>3, <2>4, <2>5 DEF NodeInv
<1>10. QED
  BY <1>6, <1>7, <1>8, <1>9, OneNodeStep

-----------------------------------------------------------------------------
LEMMA StutterStep ==
  ASSUME IInv, UNCHANGED vars
  PROVE  IInv'
<1>1. TypeOK' /\ FilledInv' /\ KeepsKeys
  BY DEF vars, simVars, brokerVars, socketVars, IInv, TypeOK, FilledInv, KeepsKeys
<1>2. \A n \in Nodes : SameNode(n)
  BY DEF vars, simVars, brokerVars, socketVars, SameNode
<1>3. QED
  BY <1>1, <1>2, NodeFrame DEF IInv

\* The invariant that the theorems rest on, kept by every step.
THEOREM InductiveInvariant == Spec => []IInv
<1>1. Init => IInv
  BY InitIInv
<1>2. IInv /\ [Next]_vars => IInv'
  <2>1. ASSUME IInv, NEW n \in Nodes, NodeStep(n) PROVE IInv'
    BY <2>1, ConstructStep, GetNextStep, GetNextOfOneKeyStep, PutInitialStep, SendRequestStep,
       ReceiveAnswerStep, ReturnStep DEF NodeStep
  <2>2. ASSUME IInv, NEW n \in Nodes, CallerStep(n) PROVE IInv'
    BY <2>2, RepeatStep, InitialiseStep, DestroyStep DEF CallerStep
  <2>3. ASSUME IInv, Next PROVE IInv'
    BY <2>1, <2>2, <2>3, ServeStep DEF Next
  <2>4. QED
    BY <2>3, StutterStep
<1>3. QED
  BY <1>1, <1>2, PTL DEF Spec

(***************************************************************************)
(* Once a node has initialised the database, every read of every node      *)
(* finds a value, for all the patterns and any ranges of keys.             *)
(***************************************************************************)
THEOREM ReadsFind == Spec => []InitialisedReadsFind
<1>1. IInv => InitialisedReadsFind
  BY DEF IInv, NodeInv, AccessInv, InitialisedReadsFind
<1>2. QED
  BY <1>1, InductiveInvariant, PTL

(***************************************************************************)
(* However often receives are interrupted, the accesses that the loops     *)
(* counted off and the database has not seen are no more than the          *)
(* interrupts.                                                             *)
(***************************************************************************)
THEOREM LostAccesses == Spec => []LostAccessesAreBounded
<1>1. IInv => LostAccessesAreBounded
  <2>1. SUFFICES ASSUME IInv, NEW n \in Nodes, pc[n] \in {"idle", "gone"}
                 PROVE  accesses[n] - (executed[n].PUT + executed[n].GET) \in 0 .. interrupts[n]
    BY DEF LostAccessesAreBounded
  <2>2. /\ accesses[n] \in Nat /\ executed[n].PUT \in Nat /\ executed[n].GET \in Nat
        /\ interrupts[n] \in Nat
    BY <2>1 DEF IInv, TypeOK
  <2>3. CountInv(n)
    BY <2>1 DEF IInv, NodeInv
  <2>4. QED
    BY <2>1, <2>2, <2>3 DEF CountInv, Lost, Owed
<1>2. QED
  BY <1>1, InductiveInvariant, PTL

(***************************************************************************)
(* Burn in, burn out and initialisation leave no trace in the statistics,  *)
(* in whatever order they are called.                                      *)
(***************************************************************************)
THEOREM Counting == Spec => []OnlySimulateCounts
<1>1. IInv => OnlySimulateCounts
  BY DEF IInv, NodeInv, LoopInv, OnlySimulateCounts, Results
<1>2. QED
  BY <1>1, InductiveInvariant, PTL

-----------------------------------------------------------------------------
(***************************************************************************)
(* Simulator implements AtomicStore.  Calls and Disturbed are what the     *)
(* refinement mapping gives the abstract call and disturbed.               *)
(***************************************************************************)
Calls == [m \in Nodes |-> CallOf(m)]
Disturbed == {m \in Nodes : interrupts[m] > 0}

LEMMA InitStore == Init => DB!StoreInit
<1> SUFFICES ASSUME Init PROVE DB!StoreInit
  OBVIOUS
<1>1. \A m \in Nodes : CallOf(m) = DB!NoCall
  BY DEF Init, BrokerInit, CallOf, DB!NoCall, DB!Call
<1>2. QED
  BY <1>1 DEF Init, BrokerInit, DB!StoreInit

\* What the call of a node is, as long as no receive of it was interrupted.
LEMMA UndisturbedCall ==
  ASSUME IInv, NEW n \in Nodes, interrupts[n] = 0
  PROVE  /\ pc[n] # "receive" => CallOf(n) = DB!NoCall \/ CallOf(n).phase = "returned"
         /\ pc[n] \notin {"receive", "loop"} => CallOf(n) = DB!NoCall
         /\ pc[n] = "receive" /\ request[n] # NoMessage =>
              request[n] = Intended(n) /\ CallOf(n) = DB!Call("invoked", Intended(n), Empty)
         /\ pc[n] = "receive" /\ reply[n] # NoMessage =>
              Answered(n) /\ CallOf(n) = DB!Call("done", Intended(n), reply[n].value)
<1>1. InStep(n) /\ (request[n] = NoMessage \/ reply[n] = NoMessage)
  BY DEF IInv, NodeInv, SocketInv
<1>2. Intended(n) # NoMessage
  BY MessageKinds DEF Intended
<1>3. pc[n] = "receive" => access[n].made /\ UsesBroker(n)
  BY DEF IInv, NodeInv, AccessInv, Accessing
<1>4. ASSUME pc[n] = "receive", request[n] # NoMessage PROVE request[n] = Intended(n)
  BY <1>1, <1>4, MessageKinds DEF InStep, Answered
<1>5. QED
  BY <1>1, <1>2, <1>3, <1>4 DEF InStep, CallOf, DB!NoCall, DB!Call

LEMMA DisturbedCall ==
  ASSUME TypeOK, NEW n \in Nodes, interrupts[n] # 0
  PROVE  CallOf(n) = DB!NoCall /\ n \in Disturbed
BY DEF TypeOK, CallOf, Disturbed, DB!NoCall, DB!Call

\* A step of n changes the call of n only.
LEMMA OneCall ==
  ASSUME NEW n \in Nodes, \A m \in Nodes \ {n} : SameNode(m)
  PROVE  /\ Calls' = [Calls EXCEPT ![n] = CallOf(n)']
         /\ interrupts'[n] = interrupts[n] => Disturbed' = Disturbed
         /\ interrupts'[n] = interrupts[n] + 1 /\ interrupts[n] \in Nat =>
              Disturbed' = Disturbed \cup {n}
<1>1. \A m \in Nodes \ {n} : CallOf(m)' = CallOf(m) /\ interrupts'[m] = interrupts[m]
  BY DEF SameNode, CallOf, Intended, UsesBroker
<1>2. Calls' = [Calls EXCEPT ![n] = CallOf(n)']
  BY <1>1 DEF Calls
<1>3. QED
  BY <1>1, <1>2 DEF Disturbed

\* A step that the abstract store does not see.
LEMMA Unseen ==
  ASSUME NEW n \in Nodes, \A m \in Nodes \ {n} : SameNode(m),
         interrupts'[n] = interrupts[n], store' = store, CallOf(n)' = CallOf(n)
  PROVE  UNCHANGED DB!storeVars
BY OneCall DEF Calls, Disturbed, DB!storeVars

\* A node that leaves its last call behind.
LEMMA Forgotten ==
  ASSUME IInv, NEW n \in Nodes, \A m \in Nodes \ {n} : SameNode(m),
         interrupts'[n] = interrupts[n], store' = store,
         pc[n] # "receive", CallOf(n)' = DB!NoCall
  PROVE  [DB!StoreNext]_DB!storeVars
<1>1. CallOf(n) = DB!NoCall \/ CallOf(n).phase = "returned"
  BY UndisturbedCall, DisturbedCall DEF IInv
<1>2. CASE CallOf(n) = DB!NoCall
  BY <1>2, Unseen
<1>3. CASE CallOf(n).phase = "returned"
  <2>1. Calls[n].phase = "returned" /\ Calls' = [Calls EXCEPT ![n] = DB!NoCall]
        /\ Disturbed' = Disturbed
    BY <1>3, OneCall DEF Calls
  <2>2. DB!Forget(n)
    BY <2>1 DEF DB!Forget, Calls, Disturbed
  <2>3. QED
    BY <2>2 DEF DB!StoreNext
<1>4. QED
  BY <1>1, <1>2, <1>3

LEMMA OtherStepsForget ==
  ASSUME IInv, NEW n \in Nodes,
         \/ Construct(n) \/ GetNext(n) \/ GetNextOfOneKey(n) \/ PutInitial(n) \/ Return(n)
         \/ CallerStep(n)
  PROVE  [DB!StoreNext]_DB!storeVars
<1> USE DEF Goto, brokerVars, socketVars
<1>1. CASE Construct(n) \/ GetNextOfOneKey(n) \/ Destroy(n)
  <2>1. pc[n] # "receive" /\ pc'[n] \in {"idle", "undefined", "gone"}
        /\ interrupts' = interrupts /\ store' = store
    BY <1>1 DEF Construct, GetNextOfOneKey, Destroy, Close, IInv, TypeOK
  <2>2. \A m \in Nodes \ {n} : SameNode(m)
    BY <1>1 DEF Construct, GetNextOfOneKey, Destroy, Close, IInv, TypeOK, SameNode
  <2>3. CallOf(n)' = DB!NoCall
    BY <2>1 DEF CallOf, DB!NoCall, DB!Call
  <2>4. QED
    BY <2>1, <2>2, <2>3, Forgotten
<1>2. CASE Return(n)
  <2>1. pc[n] # "receive" /\ pc'[n] \in {"idle", "undefined"}
        /\ interrupts' = interrupts /\ store' = store
    BY <1>2 DEF Return, EndOfSimulate, EndOfBurnInOut, EndOfInitialise, Ended, IInv, TypeOK
  <2>2. \A m \in Nodes \ {n} : SameNode(m)
    BY <1>2 DEF Return, EndOfSimulate, EndOfBurnInOut, EndOfInitialise, Ended, IInv, TypeOK,
       SameNode
  <2>3. CallOf(n)' = DB!NoCall
    BY <2>1 DEF CallOf, DB!NoCall, DB!Call
  <2>4. QED
    BY <2>1, <2>2, <2>3, Forgotten
<1>3. ASSUME NEW operation, Call(n, operation),
             Simulate(n) \/ BurnInOut(n) \/ Initialise(n)
      PROVE  [DB!StoreNext]_DB!storeVars
  <2>1. pc[n] = "idle" /\ access' = access /\ interrupts' = interrupts /\ store' = store
    BY <1>3 DEF Call
  <2>2. \A m \in Nodes \ {n} : SameNode(m)
    BY <1>3 DEF Simulate, BurnInOut, Initialise, Repeat, Call, IInv, TypeOK, SameNode
  <2>3. ~access[n].made
    BY <2>1 DEF IInv, NodeInv, AccessInv
  <2>4. CallOf(n)' = DB!NoCall
    BY <2>1, <2>3 DEF CallOf, DB!NoCall, DB!Call
  <2>5. QED
    BY <2>1, <2>2, <2>4, Forgotten
<1>4. ASSUME NEW isRead, NEW key, Access(n, isRead, key), GetNext(n) \/ PutInitial(n)
      PROVE  [DB!StoreNext]_DB!storeVars
  <2>1. pc[n] = "loop" /\ config' = config /\ interrupts' = interrupts /\ store' = store
    BY <1>4 DEF GetNext, PutInitial
  <2>2. UsesBroker(n) => pc'[n] = "send"
    BY <1>4 DEF Access, UsesBroker, IInv, TypeOK
  <2>3. \A m \in Nodes \ {n} : SameNode(m)
    <3>1. \A m \in Nodes \ {n} :
            pc'[m] = pc[m] /\ access'[m] = access[m] /\ accesses'[m] = accesses[m]
      BY <1>4 DEF Access, Goto, IInv, TypeOK
    <3>2. CASE GetNext(n)
      BY <3>1, <3>2 DEF GetNext, Counted, brokerVars, socketVars, IInv, TypeOK, SameNode
    <3>3. CASE PutInitial(n)
      BY <3>1, <3>3 DEF PutInitial, brokerVars, socketVars, IInv, TypeOK, SameNode
    <3>4. QED
      BY <1>4, <3>2, <3>3
  <2>4. CallOf(n)' = DB!NoCall
    BY <2>1, <2>2 DEF CallOf, UsesBroker, DB!NoCall, DB!Call
  <2>5. QED
    BY <2>1, <2>3, <2>4, Forgotten
<1>5. QED
  BY <1>1, <1>2, <1>3, <1>4 DEF CallerStep, Simulate, BurnInOut, Initialise, GetNext, PutInitial

LEMMA SendInvokes ==
  ASSUME IInv, NEW n \in Nodes, SendRequest(n)
  PROVE  [DB!StoreNext]_DB!storeVars
<1>1. /\ pc[n] = "send" /\ pc'[n] = "receive" /\ Intended(n)' = Intended(n)
      /\ interrupts' = interrupts /\ store' = store /\ access' = access /\ config' = config
      /\ request' = IF Owed(n) THEN request ELSE [request EXCEPT ![n] = Intended(n)]
  BY DEF SendRequest, Send, Goto, Intended, IInv, TypeOK
<1>2. \A m \in Nodes \ {n} : SameNode(m)
  BY DEF SendRequest, Send, Goto, IInv, TypeOK, SameNode
<1>3. access[n].made /\ UsesBroker(n) /\ UsesBroker(n)' /\ access[n].key \in Keys
  BY <1>1, KeysOfNode DEF IInv, NodeInv, AccessInv, Accessing, UsesBroker
<1>4. CASE interrupts[n] = 0
  <2>1. ~Owed(n)
    BY <1>1, <1>4 DEF IInv, NodeInv, SocketInv, InStep
  <2>2. request'[n] = Intended(n)
    BY <1>1, <2>1 DEF IInv, TypeOK
  <2>3. CallOf(n)' = DB!Call("invoked", Intended(n), Empty)
    BY <1>1, <1>3, <1>4, <2>2 DEF CallOf, DB!Call
  <2>4. Calls[n].phase = "none"
    BY <1>1, <1>4, UndisturbedCall DEF Calls, DB!NoCall, DB!Call
  <2>5. Intended(n) \in Requests
    BY <1>3 DEF Intended, Requests
  <2>6. /\ n \notin Disturbed /\ Disturbed' = Disturbed
        /\ Calls' = [Calls EXCEPT ![n] = CallOf(n)']
    BY <1>1, <1>2, <1>4, OneCall DEF Disturbed
  <2>7. DB!Invoke(n)
    BY <1>1, <2>3, <2>4, <2>5, <2>6 DEF DB!Invoke, Calls, Disturbed, Requests
  <2>8. QED
    BY <2>7 DEF DB!StoreNext
<1>5. CASE interrupts[n] # 0
  <2>1. CallOf(n)' = CallOf(n)
    BY <1>1, <1>5, DisturbedCall DEF CallOf, IInv, TypeOK
  <2>2. QED
    BY <1>1, <1>2, <2>1, Unseen
<1>6. QED
  BY <1>4, <1>5

\* A receive returns from the call, an interrupted one disturbs the node.
LEMMA ReceiveReturns ==
  ASSUME IInv, NEW n \in Nodes, ReceiveAnswer(n)
  PROVE  [DB!StoreNext]_DB!storeVars
<1>1. /\ pc[n] = "receive" /\ pc'[n] = "loop" /\ store' = store /\ config' = config
      /\ access'[n].made = access[n].made /\ access'[n].read = access[n].read
      /\ access'[n].key = access[n].key
      /\ access'[n].value =
           IF access[n].read /\ reply[n].op = "OK" THEN reply[n].value ELSE Empty
  BY DEF ReceiveAnswer, Receive, Interrupt, Goto, socketVars, IInv, TypeOK
<1>2. \A m \in Nodes \ {n} : SameNode(m)
  BY DEF ReceiveAnswer, Receive, Interrupt, Goto, socketVars, IInv, TypeOK, SameNode
<1>3. interrupts[n] \in Nat /\ (Receive(n) \/ Interrupt(n))
  BY DEF ReceiveAnswer, IInv, TypeOK
<1>4. Calls' = [Calls EXCEPT ![n] = CallOf(n)']
  BY <1>2, OneCall
<1>5. CASE Interrupt(n)
  <2>1. interrupts'[n] = interrupts[n] + 1
    BY <1>5 DEF Interrupt, IInv, TypeOK
  <2>2. Disturbed' = Disturbed \cup {n} /\ CallOf(n)' = DB!NoCall
    BY <1>2, <1>3, <2>1, OneCall DEF CallOf, DB!NoCall, DB!Call
  <2>3. CASE interrupts[n] = 0
    <3>1. DB!Disturb(n)
      BY <1>1, <1>4, <2>2, <2>3 DEF DB!Disturb, Disturbed, Calls
    <3>2. QED
      BY <3>1 DEF DB!StoreNext
  <2>4. CASE interrupts[n] # 0
    <3>1. Calls[n] = DB!NoCall /\ n \in Disturbed
      BY <2>4, DisturbedCall DEF Calls, IInv
    <3>2. Calls' = Calls /\ Disturbed' = Disturbed
      BY <1>4, <2>2, <3>1 DEF Calls
    <3>3. QED
      BY <1>1, <3>2 DEF DB!storeVars, Calls, Disturbed
  <2>5. QED
    BY <2>3, <2>4
<1>6. CASE Receive(n) /\ interrupts[n] = 0
  <2>1. interrupts'[n] = interrupts[n] /\ reply[n] # NoMessage
    BY <1>6 DEF Receive
  <2>2. Answered(n) /\ Calls[n] = DB!Call("done", Intended(n), reply[n].value)
    BY <1>1, <1>6, <2>1, UndisturbedCall DEF Calls
  <2>3. Intended(n)' = Intended(n) /\ UsesBroker(n)' /\ access[n].made
    BY <1>1 DEF Intended, UsesBroker, IInv, NodeInv, AccessInv, Accessing
  <2>4. access'[n].value = reply[n].value
    BY <1>1, <2>2, MessageKinds DEF Answered
  <2>5. CallOf(n)' = DB!Call("returned", Intended(n), reply[n].value)
    BY <1>1, <1>6, <2>1, <2>3, <2>4 DEF CallOf, DB!Call
  <2>6. Disturbed' = Disturbed
    BY <1>2, <2>1, OneCall
  <2>7. DB!Return(n)
    <3>1. Calls[n].phase = "done"
      BY <2>2 DEF DB!Call
    <3>2. CallOf(n)' = [Calls[n] EXCEPT !.phase = "returned"]
      BY <2>2, <2>5 DEF DB!Call
    <3>3. Calls' = [Calls EXCEPT ![n].phase = "returned"]
      BY <1>4, <3>2
    <3>4. QED
      BY <1>1, <2>6, <3>1, <3>3 DEF DB!Return, Calls, Disturbed
  <2>8. QED
    BY <2>7 DEF DB!StoreNext
<1>7. CASE Receive(n) /\ interrupts[n] # 0
  <2>1. interrupts'[n] = interrupts[n]
    BY <1>7 DEF Receive
  <2>2. CallOf(n)' = CallOf(n)
    BY <1>3, <1>7, <2>1 DEF CallOf
  <2>3. QED
    BY <1>1, <1>2, <2>1, <2>2, Unseen
<1>8. QED
  BY <1>3, <1>5, <1>6, <1>7

\* The broker executes what an undisturbed node is waiting for; what it
\* executes for another nobody may be waiting for any more.
LEMMA ServeCommits ==
  ASSUME IInv, NEW n \in Nodes, Serve(n), UNCHANGED simVars
  PROVE  [DB!StoreNext]_DB!storeVars
<1>1. request[n] # NoMessage /\ reply[n] = NoMessage /\ request'[n] = NoMessage
      /\ reply'[n] # NoMessage /\ request[n] \in Requests
      /\ interrupts' = interrupts /\ pc' = pc /\ access' = access /\ config' = config
  <2>1. reply'[n] # NoMessage
    BY MessageKinds DEF Serve, IInv, TypeOK
  <2>2. QED
    BY <2>1 DEF Serve, simVars, IInv, TypeOK, NodeInv, SocketInv
<1>2. \A m \in Nodes \ {n} : SameNode(m)
  BY DEF Serve, simVars, IInv, TypeOK, SameNode
<1>3. IF request[n].op = "PUT"
      THEN /\ store' = [store EXCEPT ![request[n].key] = request[n].value]
           /\ reply'[n].value = Empty
      ELSE store' = store /\ reply'[n].value = store[request[n].key]
  BY MessageKinds DEF Serve, IInv, TypeOK
<1>4. Disturbed' = Disturbed /\ Calls' = [Calls EXCEPT ![n] = CallOf(n)']
  BY <1>1, <1>2, OneCall
<1>5. CASE interrupts[n] = 0
  <2>1. pc[n] = "receive" /\ access[n].made /\ UsesBroker(n)
    BY <1>1, <1>5 DEF IInv, NodeInv, SocketInv, InStep, Owed, AccessInv, Accessing
  <2>2. request[n] = Intended(n) /\ Calls[n] = DB!Call("invoked", request[n], Empty)
    BY <1>1, <1>5, <2>1, UndisturbedCall DEF Calls
  <2>3. Intended(n)' = Intended(n) /\ Intended(n) # NoMessage /\ UsesBroker(n)'
    BY <1>1, <2>1, <2>2 DEF Intended, UsesBroker
  <2>4. CallOf(n)' = DB!Call("done", request[n], reply'[n].value)
    BY <1>1, <1>5, <2>1, <2>2, <2>3 DEF CallOf, DB!Call
  <2>5. DB!Commit(n)
    <3>1. Calls[n].phase = "invoked" /\ Calls[n].request = request[n]
      BY <2>2 DEF DB!Call
    <3>2. CASE request[n].op = "PUT"
      BY <1>3, <1>4, <2>4, <3>1, <3>2 DEF DB!Commit, DB!Write, Calls, Disturbed
    <3>3. CASE request[n].op # "PUT"
      <4> DEFINE r == Calls[n].request
      <4>1. r.op # "PUT" /\ store' = store
        BY <1>3, <3>1, <3>3
      <4>2. Calls' = [Calls EXCEPT ![n] = DB!Call("done", r, store[r.key])]
        BY <1>3, <1>4, <2>4, <3>1, <3>3
      <4>3. QED
        BY <1>4, <3>1, <4>1, <4>2 DEF DB!Commit, Calls, Disturbed
    <3>4. QED
      BY <3>2, <3>3
  <2>6. QED
    BY <2>5 DEF DB!StoreNext
<1>6. CASE interrupts[n] # 0
  <2>1. CallOf(n)' = CallOf(n) /\ Calls' = Calls /\ n \in Disturbed
    <3>1. CallOf(n)' = CallOf(n)
      BY <1>1, <1>6 DEF CallOf, IInv, TypeOK
    <3>2. QED
      BY <1>4, <1>6, <3>1, DisturbedCall DEF Calls, IInv
  <2>2. CASE request[n].op = "PUT"
    <3>1. DB!Stray(n)
      BY <1>1, <1>3, <1>4, <2>1, <2>2 DEF DB!Stray, DB!Write, Calls, Disturbed, Requests
    <3>2. QED
      BY <3>1 DEF DB!StoreNext
  <2>3. CASE request[n].op # "PUT"
    BY <1>1, <1>2, <1>3, <2>1, <2>3, Unseen
  <2>4. QED
    BY <2>2, <2>3
<1>7. QED
  BY <1>5, <1>6

(***************************************************************************)
(* getValue() and putValue() of RiakJavaKeyValueDB are atomic, for any     *)
(* number of nodes with any patterns, in bursts and in initialise(): only  *)
(* a node whose own receive was interrupted loses the guarantee.           *)
(***************************************************************************)
THEOREM ImplementsStore == Spec => SimulatorImplementsStore
<1>1. ASSUME IInv, Next PROVE [DB!StoreNext]_DB!storeVars
  <2>1. ASSUME NEW n \in Nodes, NodeStep(n) \/ CallerStep(n)
        PROVE  [DB!StoreNext]_DB!storeVars
    BY <1>1, <2>1, OtherStepsForget, SendInvokes, ReceiveReturns DEF NodeStep
  <2>2. QED
    BY <1>1, <2>1, ServeCommits DEF Next
<1>2. ASSUME UNCHANGED vars PROVE UNCHANGED DB!storeVars
  BY <1>2 DEF vars, simVars, brokerVars, socketVars, DB!storeVars, CallOf, Intended, UsesBroker
<1>3. IInv /\ [Next]_vars => [DB!StoreNext]_DB!storeVars
  BY <1>1, <1>2
<1>4. QED
  BY InitStore, InductiveInvariant, <1>3, PTL DEF Spec, SimulatorImplementsStore, DB!StoreSpec

-----------------------------------------------------------------------------
(***************************************************************************)
(* The clock of Simulator.cc.                                              *)
(***************************************************************************)
\* An integer and what it is congruent to have the same remainder.
LEMMA Remainder ==
  ASSUME NEW a \in Int, NEW k \in Int, NEW M \in Nat \ {0},
         0 <= a - k * M, a - k * M < M
  PROVE  a % M = a - k * M
<1> DEFINE q == a \div M
           r == a % M
<1>1. q \in Int /\ r \in 0 .. M - 1 /\ a = M * q + r
  OBVIOUS
<1>2. CASE q = k
  BY <1>1, <1>2
<1>3. CASE q >= k + 1
  <2>1. M * q >= M * (k + 1)
    BY <1>1, <1>3
  <2> QED
    BY <1>1, <2>1
<1>4. CASE q <= k - 1
  <2>1. M * q <= M * (k - 1)
    BY <1>1, <1>4
  <2> QED
    BY <1>1, <2>1
<1> QED
  BY <1>1, <1>2, <1>3, <1>4

\* Two numbers that wrap have a sum that wraps back.
LEMMA WrappedSum ==
  ASSUME NEW p \in Nat, NEW n \in Int, NEW M \in Nat \ {0},
         -M < n, n < M, 0 <= p + n, p + n < M
  PROVE  ((n % M) + (p % M)) % M = p + n
<1>1. CASE n >= 0
  <2>1. n - 0 * M = n /\ p - 0 * M = p /\ (p + n) - 0 * M = p + n
    OBVIOUS
  <2>2. n % M = n /\ p % M = p /\ (p + n) % M = p + n
    BY <1>1, <2>1, Remainder
  <2> QED
    BY <2>2
<1>2. CASE n < 0 /\ p < M
  <2>1. n - (-1) * M = n + M /\ p - 0 * M = p /\ (p + n + M) - 1 * M = p + n
    OBVIOUS
  <2>2. n % M = n + M /\ p % M = p
    BY <1>2, <2>1, Remainder
  <2>3. (p + n + M) % M = p + n
    BY <2>1, Remainder
  <2> QED
    BY <2>2, <2>3
<1>3. CASE n < 0 /\ p >= M
  <2>1. n - (-1) * M = n + M /\ p - 1 * M = p - M /\ (p + n) - 0 * M = p + n
    OBVIOUS
  <2>2. n % M = n + M /\ p % M = p - M
    BY <1>3, <2>1, Remainder
  <2>3. (p + n) % M = p + n
    BY <2>1, Remainder
  <2> QED
    BY <2>2, <2>3
<1> QED
  BY <1>1, <1>2, <1>3

LEMMA TimespecFields ==
  ASSUME NEW t \in Timespec
  PROVE  t.sec \in Nat /\ t.nsec \in Nat /\ t.nsec < Second
<1>1. t.sec \in Nat /\ t.nsec \in 0 .. Second - 1
  BY SMT DEF Timespec
<1>2. Second \in Nat
  BY SMT DEF Second
<1> QED
  BY SMT, <1>1, <1>2

(***************************************************************************)
(* For readings in the order of time whose difference an unsigned integer  *)
(* can hold, the duration is that difference, whatever wraps on the way:   *)
(* a negative difference of the nanoseconds does, and the sum wraps back.  *)
(***************************************************************************)
THEOREM DurationIsDifference ==
  ASSUME NEW start \in Timespec, NEW stop \in Timespec, NEW Modulus \in Nat,
         Modulus > Second,
         Nanoseconds(start) <= Nanoseconds(stop),
         Nanoseconds(stop) - Nanoseconds(start) < Modulus
  PROVE  Duration(start, stop, Modulus) = Nanoseconds(stop) - Nanoseconds(start)
<1>1. /\ start.sec \in Nat /\ start.nsec \in Nat /\ start.nsec < Second
      /\ stop.sec \in Nat /\ stop.nsec \in Nat /\ stop.nsec < Second
  BY TimespecFields, Zenon
<1>2. PICK a \in Nat, b \in Nat, c \in Nat, d \in Nat :
        /\ a = start.sec /\ b = start.nsec /\ c = stop.sec /\ d = stop.nsec
        /\ b < Second /\ d < Second
  BY <1>1, Zenon
<1> DEFINE s == c - a
           n == d - b
<1>3. /\ Nanoseconds(start) = a * Second + b
      /\ Nanoseconds(stop) = c * Second + d
  BY <1>2, Zenon DEF Nanoseconds
<1>4. s \in Int /\ n \in Int /\ -Second < n /\ n < Second
  BY SMT, <1>2 DEF Second
<1>5. Nanoseconds(stop) - Nanoseconds(start) = s * Second + n
  BY SMT, <1>3 DEF Second
<1>6. 0 <= s * Second + n /\ s * Second + n < Modulus
  BY SMT, <1>3 DEF Second
<1>7. Duration(start, stop, Modulus)
        = ((n % Modulus) + (((s % Modulus) * Second) % Modulus)) % Modulus
  BY <1>2, Zenon DEF Duration
<1> HIDE DEF s, n
<1>8. 0 <= s /\ s < Modulus
  BY SMT, <1>4, <1>6 DEF Second
<1>9. s * Second \in Nat /\ -Modulus < n /\ n < Modulus /\ Modulus \in Nat \ {0}
  BY SMT, <1>4, <1>8 DEF Second
<1>10. s % Modulus = s
  <2>1. s - 0 * Modulus = s
    BY SMT, <1>4
  <2> QED
    BY SMT, <1>4, <1>8, <1>9, <2>1, Remainder
<1>11. ((n % Modulus) + ((s * Second) % Modulus)) % Modulus = s * Second + n
  BY SMT, <1>4, <1>6, <1>9, WrappedSum
<1> QED
  BY <1>5, <1>7, <1>10, <1>11, Zenon
=============================================================================
