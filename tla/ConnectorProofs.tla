-------------------------- MODULE ConnectorProofs ----------------------------
(***************************************************************************)
(* Proofs, for any nodes, files, keys and limit, that IInv is an inductive *)
(* invariant of DBConnector, that its safety properties follow from it,    *)
(* and that it implements AtomicStore.                                     *)
(***************************************************************************)
EXTENDS ConnectorRefinement, TLAPS

-----------------------------------------------------------------------------
(***************************************************************************)
(* The inductive invariant of DBConnector.  What a node waits for, what    *)
(* its socket owes it and how often it was interrupted are one state of    *)
(* affairs: the properties speak about a part of it each.                  *)
(***************************************************************************)

Body == {"put", "putReply", "get", "getReply", "create"}
Waiting == {"putReply", "getReply"}

Requests == {Put(KeyOf[f], f) : f \in Files} \cup {Get(k) : k \in Keys}
Answers == {OK(v) : v \in Files \cup {Empty}} \cup {Error}

TypeOK ==
  /\ request \in [Nodes -> Requests \cup {NoMessage}]
  /\ reply \in [Nodes -> Answers \cup {NoMessage}]
  /\ store \in [Keys -> Files \cup {Empty}]
  /\ executed \in [Nodes -> [PUT : Nat, GET : Nat]]
  /\ interrupts \in [Nodes -> Nat]
  /\ pc \in [Nodes -> Body \cup {"idle", "next", "returned", "deleted", "undefined"}]
  /\ todo \in [Nodes -> SUBSET Files]
  /\ file \in [Nodes -> Files \cup {Empty}]
  /\ value \in [Nodes -> Files \cup {Empty}]
  /\ loaded \in [Nodes -> Nat]
  /\ total \in [Nodes -> Nat]
  /\ calls \in [Nodes -> Nat]

\* What is stored under a key is a file of that name.
StoreInv == \A k \in Keys : store[k] # Empty => KeyOf[store[k]] = k

Stored(n) == store[KeyOf[file[n]]] # Empty

\* The socket of n owes it the answer to a PUT, or to a GET of key k.
PutOwed(n) == request[n].op = "PUT" \/ reply[n] = OK(Empty)
FoundOwed(n, k) ==
  request[n] = Get(k) \/ \E f \in Files : reply[n] = OK(f) /\ KeyOf[f] = k
GetOwed(n, k) == FoundOwed(n, k) \/ reply[n] = Error

\* A node that was never interrupted is owed what it waits for.
InStep(n) ==
  /\ pc[n] \notin Waiting => ~Owed(n)
  /\ pc[n] = "putReply" =>
       \/ request[n] = Put(KeyOf[file[n]], file[n])
       \/ reply[n] = OK(Empty) /\ Stored(n)
  /\ pc[n] = "get" => Stored(n)
  /\ pc[n] = "getReply" => FoundOwed(n, KeyOf[file[n]]) /\ Stored(n)

\* One interrupted receive shifts the answers by at most one.
OneBehind(n) ==
  /\ pc[n] = "get" => ~Owed(n) \/ PutOwed(n)
  /\ pc[n] = "getReply" => PutOwed(n) \/ GetOwed(n, KeyOf[file[n]])

SocketInv(n) ==
  /\ request[n] = NoMessage \/ reply[n] = NoMessage
  /\ pc[n] \in Waiting => Owed(n)
  /\ interrupts[n] = 0 => InStep(n)
  /\ interrupts[n] = 1 => OneBehind(n)

FileInv(n) ==
  /\ pc[n] \in Body => file[n] \in Files
  /\ pc[n] # "create" => value[n] = Empty
  /\ pc[n] = "create" =>
       \/ value[n] # Empty /\ KeyOf[value[n]] = KeyOf[file[n]]
       \/ value[n] = Empty /\ interrupts[n] >= 1
       \/ interrupts[n] >= 2

\* The PUTs that were counted, but refused by the socket.
Lost(n) ==
  loaded[n] - executed[n].PUT
    - (IF request[n].op = "PUT" THEN 1 ELSE 0)
    - (IF pc[n] = "put" THEN 1 ELSE 0)

\* Each interrupted receive leaves one answer behind, and each answer left
\* behind lets one request be refused, which takes it away.
CountInv(n) ==
  /\ Lost(n) >= 0
  /\ Lost(n) + (IF Owed(n) THEN 1 ELSE 0)
       <= interrupts[n] + (IF pc[n] \in Waiting THEN 1 ELSE 0)

\* The total exceeds the limit by at most one file for each of c calls.
WithinCalls(n, c) ==
  total[n] <= BytesLimit \/ \E f \in Files : total[n] <= BytesLimit + c * SizeOf[f]

LimitInv(n) ==
  /\ loaded[n] > 0 => Files # {}
  /\ pc[n] \notin {"idle", "deleted"} => calls[n] > 0
  /\ pc[n] = "returned" => todo[n] = {} \/ OverLimit(n)
  /\ BytesLimit # -1 =>
       /\ WithinCalls(n, calls[n])
       /\ pc[n] = "next" => WithinCalls(n, calls[n] - 1)

NodeInv(n) == SocketInv(n) /\ FileInv(n) /\ CountInv(n) /\ LimitInv(n)

IInv == TypeOK /\ StoreInv /\ \A n \in Nodes : NodeInv(n)

-----------------------------------------------------------------------------
\* Messages of different kinds are different.
LEMMA MessageKinds ==
  /\ \A k, v : Put(k, v) # NoMessage /\ Put(k, v).op = "PUT"
               /\ Put(k, v).key = k /\ Put(k, v).value = v
  /\ \A k : Get(k) # NoMessage /\ Get(k).op = "GET" /\ Get(k).key = k
  /\ \A v : OK(v) # NoMessage /\ OK(v) # Error /\ OK(v).value = v
  /\ Error # NoMessage /\ Error.value = Empty
  /\ NoMessage.op = "none" /\ NoMessage.value = Empty
  /\ \A k, l, v : Put(k, v) # Get(l)
BY DEF Put, Get, OK, Error, NoMessage

LEMMA EmptyIsNoFile == Empty \notin Files /\ Empty \in Nat /\ Empty = 0
BY BrokerAssumption DEF Files, Empty

LEMMA InitIInv == Init => IInv
<1> SUFFICES ASSUME Init PROVE IInv
  OBVIOUS
<1> USE DEF Init, BrokerInit
<1>1. TypeOK
  BY DEF TypeOK, Body
<1>2. StoreInv
  BY DEF StoreInv
<1>3. ASSUME NEW n \in Nodes PROVE NodeInv(n)
  <2>1. SocketInv(n) /\ FileInv(n)
    BY DEF SocketInv, FileInv, InStep, OneBehind, Owed, Waiting, Body
  <2>2. CountInv(n)
    BY MessageKinds DEF CountInv, Lost, Owed, Waiting
  <2>3. LimitInv(n)
    BY ConnectorAssumption DEF LimitInv, WithinCalls
  <2>4. QED
    BY <2>1, <2>2, <2>3 DEF NodeInv
<1>4. QED
  BY <1>1, <1>2, <1>3 DEF IInv

\* A step of n leaves the invariant of the other nodes alone if the database
\* loses no key.
SameNode(m) ==
  /\ request'[m] = request[m] /\ reply'[m] = reply[m] /\ executed'[m] = executed[m]
  /\ interrupts'[m] = interrupts[m] /\ pc'[m] = pc[m] /\ todo'[m] = todo[m]
  /\ file'[m] = file[m] /\ value'[m] = value[m] /\ loaded'[m] = loaded[m]
  /\ total'[m] = total[m] /\ calls'[m] = calls[m]

KeepsKeys == \A k \in Keys : store[k] # Empty => store'[k] # Empty

LEMMA NodeFrame ==
  ASSUME TypeOK, NEW m \in Nodes, NodeInv(m), SameNode(m), KeepsKeys
  PROVE  NodeInv(m)'
<1> USE DEF SameNode
<1>1. file[m] \in Files => KeyOf[file[m]] \in Keys
  BY ConnectorAssumption DEF Files
<1>2. SocketInv(m)'
  BY <1>1 DEF NodeInv, SocketInv, FileInv, InStep, OneBehind, Owed, Stored,
     KeepsKeys, PutOwed, FoundOwed, GetOwed, Body, Waiting
<1>3. FileInv(m)'
  BY DEF NodeInv, FileInv
<1>4. CountInv(m)'
  BY DEF NodeInv, CountInv, Lost, Owed
<1>5. LimitInv(m)'
  BY DEF NodeInv, LimitInv, WithinCalls, OverLimit
<1>6. QED
  BY <1>2, <1>3, <1>4, <1>5 DEF NodeInv

\* What the action of one node leaves to prove.
LEMMA OneNodeStep ==
  ASSUME IInv, TypeOK', StoreInv', NEW n \in Nodes, NodeInv(n)',
         \A m \in Nodes \ {n} : SameNode(m), KeepsKeys
  PROVE  IInv'
BY NodeFrame DEF IInv

-----------------------------------------------------------------------------
LEMMA RunStep ==
  ASSUME IInv, NEW n \in Nodes, Run(n)
  PROVE  IInv'
<1> USE DEF Run, Goto, brokerVars, socketVars
<1>1. TypeOK'
  BY DEF IInv, TypeOK, Body
<1>2. StoreInv' /\ KeepsKeys
  BY DEF IInv, StoreInv, KeepsKeys
<1>3. \A m \in Nodes \ {n} : SameNode(m)
  BY DEF IInv, TypeOK, SameNode
<1>4. NodeInv(n)'
  <2>1. NodeInv(n)
    BY DEF IInv
  <2>2. SocketInv(n)' /\ FileInv(n)'
    BY <2>1
    DEF NodeInv, SocketInv, FileInv, InStep, OneBehind, Owed, Waiting, Body, IInv, TypeOK
  <2>3. CountInv(n)'
    BY <2>1 DEF NodeInv, CountInv, Lost, Owed, Waiting, IInv, TypeOK
  <2>4. LimitInv(n)'
    <3>1. calls'[n] = calls[n] + 1 /\ calls[n] \in Nat
      BY DEF IInv, TypeOK
    <3>2. BytesLimit # -1 => WithinCalls(n, calls[n])
      BY <2>1 DEF NodeInv, LimitInv
    <3>3. ASSUME BytesLimit # -1 PROVE WithinCalls(n, calls[n])' 
      <4>1. CASE total[n] <= BytesLimit
        BY <4>1 DEF WithinCalls
      <4>2. CASE \E f \in Files : total[n] <= BytesLimit + calls[n] * SizeOf[f]
        BY <4>2, <3>1, ConnectorAssumption DEF WithinCalls, IInv, TypeOK
      <4>3. QED
        BY <3>2, <3>3, <4>1, <4>2 DEF WithinCalls
    <3>4. ASSUME BytesLimit # -1 PROVE WithinCalls(n, calls[n] - 1)'
      <4>1. calls'[n] - 1 = calls[n]
        BY <3>1
      <4>2. QED
        BY <3>2, <3>4, <4>1 DEF WithinCalls
    <3>5. /\ loaded'[n] > 0 => Files # {}
          /\ pc'[n] = "next"
      BY <2>1 DEF NodeInv, LimitInv, IInv, TypeOK
    <3>6. QED
      BY <3>1, <3>3, <3>4, <3>5 DEF LimitInv
  <2>5. QED
    BY <2>2, <2>3, <2>4 DEF NodeInv
<1>5. QED
  BY <1>1, <1>2, <1>3, <1>4, OneNodeStep

LEMMA LoadStep ==
  ASSUME IInv, NEW n \in Nodes, Load(n)
  PROVE  IInv'
<1> USE DEF Load, Goto, Count, brokerVars, socketVars
<1>1. PICK f \in todo[n] :
        /\ file' = [file EXCEPT ![n] = f]
        /\ todo' = [todo EXCEPT ![n] = @ \ {f}]
        /\ Count(n, f)
  OBVIOUS
<1>2. f \in Files /\ SizeOf[f] \in Nat
  BY ConnectorAssumption DEF IInv, TypeOK
<1>3. TypeOK'
  BY <1>1, <1>2 DEF IInv, TypeOK, Body
<1>4. StoreInv' /\ KeepsKeys
  BY DEF IInv, StoreInv, KeepsKeys
<1>5. \A m \in Nodes \ {n} : SameNode(m)
  BY <1>1 DEF IInv, TypeOK, SameNode
<1>6. NodeInv(n)'
  <2>1. NodeInv(n)
    BY DEF IInv
  <2>2. SocketInv(n)' /\ FileInv(n)'
    BY <1>1, <1>2, <2>1 DEF NodeInv, SocketInv, FileInv, InStep, OneBehind, Owed, Waiting, Body,
       IInv, TypeOK
  <2>3. CountInv(n)'
    BY <1>1, <2>1 DEF NodeInv, CountInv, Lost, Owed, Waiting, IInv, TypeOK
  <2>4. LimitInv(n)'
    <3>1. /\ calls'[n] = calls[n] /\ calls[n] \in Nat \ {0}
          /\ total'[n] = total[n] + SizeOf[f] /\ total[n] \in Nat
      BY <1>1, <2>1 DEF NodeInv, LimitInv, IInv, TypeOK
    <3>2. ASSUME BytesLimit # -1 PROVE WithinCalls(n, calls[n])'
      <4>1. BytesLimit \in Nat /\ WithinCalls(n, calls[n] - 1)
        BY <2>1, <3>2, ConnectorAssumption DEF NodeInv, LimitInv
      <4>2. CASE total[n] <= BytesLimit
        BY <1>2, <3>1, <4>1, <4>2 DEF WithinCalls
      <4>3. ASSUME NEW g \in Files, total[n] <= BytesLimit + (calls[n] - 1) * SizeOf[g]
            PROVE  WithinCalls(n, calls[n])'
        <5>1. SizeOf[g] \in Nat
          BY ConnectorAssumption
        <5>2. PICK h \in {f, g} : SizeOf[f] <= SizeOf[h] /\ SizeOf[g] <= SizeOf[h]
          BY <1>2, <5>1
        <5>3. SizeOf[h] \in Nat /\ h \in Files
          BY <5>1, <1>2, <5>2
        <5>4. (calls[n] - 1) * SizeOf[g] + SizeOf[f] <= calls[n] * SizeOf[h]
          BY <1>2, <3>1, <5>1, <5>2, <5>3
        <5>5. total'[n] <= BytesLimit + calls'[n] * SizeOf[h]
          BY <1>2, <3>1, <4>1, <4>3, <5>1, <5>3, <5>4
        <5>6. QED
          BY <5>3, <5>5 DEF WithinCalls
      <4>4. QED
        BY <4>1, <4>2, <4>3 DEF WithinCalls
    <3>3. QED
      BY <1>1, <1>2, <2>1, <3>1, <3>2 DEF NodeInv, LimitInv, IInv, TypeOK
  <2>5. QED
    BY <2>2, <2>3, <2>4 DEF NodeInv
<1>7. QED
  BY <1>3, <1>4, <1>5, <1>6, OneNodeStep

LEMMA SendPutStep ==
  ASSUME IInv, NEW n \in Nodes, SendPut(n)
  PROVE  IInv'
<1> USE DEF SendPut, Send, Goto
<1>1. NodeInv(n) /\ file[n] \in Files /\ KeyOf[file[n]] \in Keys
  BY ConnectorAssumption DEF IInv, NodeInv, FileInv, Body
<1>2. TypeOK'
  BY <1>1 DEF IInv, TypeOK, Body, Requests
<1>3. StoreInv' /\ KeepsKeys
  BY DEF IInv, StoreInv, KeepsKeys
<1>4. \A m \in Nodes \ {n} : SameNode(m)
  BY DEF IInv, TypeOK, SameNode
<1>5. NodeInv(n)'
  <2>1. SocketInv(n)'
    BY <1>1, MessageKinds DEF NodeInv, SocketInv, InStep, OneBehind, Owed, Waiting, IInv, TypeOK
  <2>2. FileInv(n)'
    BY <1>1 DEF NodeInv, FileInv, Body, IInv, TypeOK
  <2>3. CountInv(n)'
    <3>1. CASE Owed(n)
      BY <1>1, <3>1 DEF NodeInv, CountInv, Lost, Owed, Waiting, IInv, TypeOK
    <3>2. CASE ~Owed(n)
      BY <1>1, <3>2, MessageKinds DEF NodeInv, CountInv, Lost, Owed, Waiting, IInv, TypeOK
    <3>3. QED
      BY <3>1, <3>2
  <2>4. LimitInv(n)'
    BY <1>1 DEF NodeInv, LimitInv, WithinCalls, IInv, TypeOK
  <2>5. QED
    BY <2>1, <2>2, <2>3, <2>4 DEF NodeInv
<1>6. QED
  BY <1>2, <1>3, <1>4, <1>5, OneNodeStep

LEMMA SendGetStep ==
  ASSUME IInv, NEW n \in Nodes, SendGet(n)
  PROVE  IInv'
<1> USE DEF SendGet, Send, Goto
<1>1. NodeInv(n) /\ file[n] \in Files /\ KeyOf[file[n]] \in Keys
  BY ConnectorAssumption DEF IInv, NodeInv, FileInv, Body
<1>2. TypeOK'
  BY <1>1 DEF IInv, TypeOK, Body, Requests
<1>3. StoreInv' /\ KeepsKeys
  BY DEF IInv, StoreInv, KeepsKeys
<1>4. \A m \in Nodes \ {n} : SameNode(m)
  BY DEF IInv, TypeOK, SameNode
<1>5. NodeInv(n)'
  <2>1. SocketInv(n)'
    BY <1>1, MessageKinds DEF NodeInv, SocketInv, InStep, OneBehind, Owed, Stored, PutOwed,
       FoundOwed, GetOwed, Waiting, IInv, TypeOK
  <2>2. FileInv(n)'
    BY <1>1 DEF NodeInv, FileInv, Body, IInv, TypeOK
  <2>3. CountInv(n)'
    <3>1. CASE Owed(n)
      BY <1>1, <3>1 DEF NodeInv, CountInv, Lost, Owed, Waiting, IInv, TypeOK
    <3>2. CASE ~Owed(n)
      BY <1>1, <3>2, MessageKinds DEF NodeInv, CountInv, Lost, Owed, Waiting, IInv, TypeOK
    <3>3. QED
      BY <3>1, <3>2
  <2>4. LimitInv(n)'
    BY <1>1 DEF NodeInv, LimitInv, WithinCalls, IInv, TypeOK
  <2>5. QED
    BY <2>1, <2>2, <2>3, <2>4 DEF NodeInv
<1>6. QED
  BY <1>2, <1>3, <1>4, <1>5, OneNodeStep

LEMMA ReceivePutStep ==
  ASSUME IInv, NEW n \in Nodes, ReceivePut(n)
  PROVE  IInv'
<1> USE DEF ReceivePut, Goto, socketVars
<1>1. NodeInv(n) /\ file[n] \in Files /\ KeyOf[file[n]] \in Keys
  BY ConnectorAssumption DEF IInv, NodeInv, FileInv, Body
<1>2. \/ Receive(n) /\ interrupts'[n] = interrupts[n] /\ ~Owed(n)'
      \/ Interrupt(n) /\ interrupts'[n] = interrupts[n] + 1 /\ Owed(n)' /\ reply[n] = NoMessage
  BY <1>1 DEF Receive, Interrupt, NodeInv, SocketInv, Owed, Waiting, IInv, TypeOK
<1>3. TypeOK'
  BY DEF Receive, Interrupt, IInv, TypeOK, Body
<1>4. StoreInv' /\ KeepsKeys
  BY DEF Receive, Interrupt, IInv, StoreInv, KeepsKeys
<1>5. \A m \in Nodes \ {n} : SameNode(m)
  BY DEF Receive, Interrupt, IInv, TypeOK, SameNode
<1>6. NodeInv(n)'
  <2>1. SocketInv(n)'
    <3>1. CASE Receive(n)
      BY <1>1, <1>2, <3>1, MessageKinds DEF Receive, NodeInv, SocketInv, InStep, OneBehind,
         Owed, Stored, Waiting, IInv, TypeOK
    <3>2. CASE Interrupt(n)
      <4>1. interrupts'[n] \in Nat \ {0} /\ pc'[n] = "get"
            /\ request'[n] = request[n] /\ reply'[n] = NoMessage
        BY <1>2, <3>2 DEF Interrupt, IInv, TypeOK
      <4>2. reply[n] = NoMessage /\ interrupts'[n] = interrupts[n] + 1 /\ interrupts[n] \in Nat
        BY <3>2 DEF Interrupt, IInv, TypeOK
      <4>3. ASSUME interrupts'[n] = 1 PROVE PutOwed(n)'
        <5>1. interrupts[n] = 0
          BY <4>2, <4>3
        <5>2. request[n] = Put(KeyOf[file[n]], file[n])
          BY <1>1, <4>2, <5>1, MessageKinds DEF NodeInv, SocketInv, InStep
        <5>3. QED
          BY <4>1, <5>2, MessageKinds DEF PutOwed
      <4>4. QED
        BY <4>1, <4>3 DEF SocketInv, OneBehind, Waiting
    <3>3. QED
      BY <1>2, <3>1, <3>2
  <2>2. FileInv(n)'
    BY <1>1 DEF Receive, Interrupt, NodeInv, FileInv, Body, IInv, TypeOK
  <2>3. CountInv(n)'
    BY <1>1, <1>2 DEF Receive, Interrupt, NodeInv, CountInv, Lost, Owed, Waiting,
       IInv, TypeOK, SocketInv
  <2>4. LimitInv(n)'
    BY <1>1 DEF NodeInv, LimitInv, WithinCalls, IInv, TypeOK
  <2>5. QED
    BY <2>1, <2>2, <2>3, <2>4 DEF NodeInv
<1>7. QED
  BY <1>3, <1>4, <1>5, <1>6, OneNodeStep

LEMMA ReceiveGetStep ==
  ASSUME IInv, NEW n \in Nodes, ReceiveGet(n)
  PROVE  IInv'
<1> USE DEF ReceiveGet, Goto, socketVars
<1>1. NodeInv(n) /\ file[n] \in Files /\ KeyOf[file[n]] \in Keys
  BY ConnectorAssumption DEF IInv, NodeInv, FileInv, Body
<1>2. \/ Receive(n) /\ interrupts'[n] = interrupts[n] /\ ~Owed(n)'
      \/ Interrupt(n) /\ interrupts'[n] = interrupts[n] + 1 /\ Owed(n)' /\ reply[n] = NoMessage
  BY <1>1 DEF Receive, Interrupt, NodeInv, SocketInv, Owed, Waiting, IInv, TypeOK
<1>3. reply[n].value \in Files \cup {Empty}
  BY MessageKinds DEF IInv, TypeOK, Answers
<1>4. TypeOK'
  <2>1. value' \in [Nodes -> Files \cup {Empty}]
    BY <1>3 DEF IInv, TypeOK
  <2>2. CASE Receive(n)
    BY <2>1, <2>2 DEF Receive, IInv, TypeOK, Body
  <2>3. CASE Interrupt(n)
    BY <2>1, <2>3 DEF Interrupt, IInv, TypeOK, Body
  <2>4. QED
    BY <2>2, <2>3
<1>5. StoreInv' /\ KeepsKeys
  BY DEF Receive, Interrupt, IInv, StoreInv, KeepsKeys
<1>6. \A m \in Nodes \ {n} : SameNode(m)
  BY DEF Receive, Interrupt, IInv, TypeOK, SameNode
<1>7. NodeInv(n)'
  <2>1. SocketInv(n)'
    BY <1>1, <1>2, MessageKinds DEF Receive, Interrupt, NodeInv, SocketInv, InStep, OneBehind,
       Owed, Waiting, IInv, TypeOK
  <2>2. FileInv(n)'
    <3>1. file'[n] = file[n] /\ value'[n] = reply[n].value /\ pc'[n] = "create"
      BY DEF IInv, TypeOK
    <3>2. CASE interrupts'[n] >= 2
      BY <1>1, <3>1, <3>2 DEF FileInv
    <3>3. CASE interrupts'[n] = 0
      <4>1. Receive(n) /\ interrupts[n] = 0 /\ reply[n] # NoMessage
        BY <1>2, <3>3 DEF Receive, IInv, TypeOK
      <4>2. PICK f \in Files : reply[n] = OK(f) /\ KeyOf[f] = KeyOf[file[n]]
        BY <1>1, <4>1, MessageKinds DEF NodeInv, SocketInv, InStep, Waiting, FoundOwed
      <4>3. QED
        BY <1>1, <3>1, <4>2, MessageKinds, EmptyIsNoFile DEF FileInv
    <3>4. CASE interrupts'[n] = 1 /\ Interrupt(n)
      BY <1>1, <1>2, <3>1, <3>4, MessageKinds DEF FileInv, Interrupt
    <3>5. CASE interrupts'[n] = 1 /\ Receive(n)
      <4>1. interrupts[n] = 1 /\ reply[n] # NoMessage /\ request[n] = NoMessage
        BY <1>1, <3>5 DEF Receive, NodeInv, SocketInv
      <4>2. \/ reply[n].value = Empty
            \/ \E f \in Files : reply[n] = OK(f) /\ KeyOf[f] = KeyOf[file[n]]
        BY <1>1, <4>1, MessageKinds
        DEF NodeInv, SocketInv, OneBehind, PutOwed, GetOwed, FoundOwed
      <4>3. QED
        BY <1>1, <3>1, <3>5, <4>2, MessageKinds, EmptyIsNoFile DEF FileInv
    <3>6. interrupts'[n] \in Nat
      BY <1>4 DEF TypeOK
    <3>7. QED
      BY <1>2, <3>2, <3>3, <3>4, <3>5, <3>6
  <2>3. CountInv(n)'
    BY <1>1, <1>2 DEF Receive, Interrupt, NodeInv, CountInv, Lost, Owed, Waiting,
       IInv, TypeOK, SocketInv
  <2>4. LimitInv(n)'
    BY <1>1 DEF NodeInv, LimitInv, WithinCalls, IInv, TypeOK
  <2>5. QED
    BY <2>1, <2>2, <2>3, <2>4 DEF NodeInv
<1>8. QED
  BY <1>4, <1>5, <1>6, <1>7, OneNodeStep

LEMMA CreateStep ==
  ASSUME IInv, NEW n \in Nodes, Create(n)
  PROVE  IInv'
<1> USE DEF Create, Goto, brokerVars, socketVars
<1>1. NodeInv(n)
  BY DEF IInv
<1>2. pc'[n] \in {"next", "returned", "undefined"} /\ pc[n] = "create"
  BY DEF IInv, TypeOK
<1>3. TypeOK'
  BY DEF IInv, TypeOK, Body
<1>4. StoreInv' /\ KeepsKeys
  BY DEF IInv, StoreInv, KeepsKeys
<1>5. \A m \in Nodes \ {n} : SameNode(m)
  BY DEF IInv, TypeOK, SameNode
<1>6. NodeInv(n)'
  <2>1. SocketInv(n)'
    BY <1>1, <1>2 DEF NodeInv, SocketInv, InStep, OneBehind, Owed, Waiting
  <2>2. FileInv(n)'
    BY <1>1, <1>2 DEF NodeInv, FileInv, Body, IInv, TypeOK
  <2>3. CountInv(n)'
    BY <1>1, <1>2 DEF NodeInv, CountInv, Lost, Owed, Waiting, IInv, TypeOK
  <2>4. LimitInv(n)'
    <3>1. pc'[n] = "returned" => OverLimit(n)'
      BY <1>2 DEF OverLimit, IInv, TypeOK
    <3>2. pc'[n] = "next" /\ BytesLimit # -1 => total[n] <= BytesLimit
      BY <1>2, ConnectorAssumption DEF OverLimit, IInv, TypeOK
    <3>3. QED
      BY <1>1, <1>2, <3>1, <3>2 DEF NodeInv, LimitInv, WithinCalls
  <2>5. QED
    BY <2>1, <2>2, <2>3, <2>4 DEF NodeInv
<1>7. QED
  BY <1>3, <1>4, <1>5, <1>6, OneNodeStep

LEMMA EndOfTreeStep ==
  ASSUME IInv, NEW n \in Nodes, EndOfTree(n)
  PROVE  IInv'
<1> USE DEF EndOfTree, Goto, brokerVars, socketVars
<1>1. NodeInv(n) /\ pc'[n] = "returned"
  BY DEF IInv, TypeOK
<1>2. TypeOK'
  BY DEF IInv, TypeOK, Body
<1>3. StoreInv' /\ KeepsKeys
  BY DEF IInv, StoreInv, KeepsKeys
<1>4. \A m \in Nodes \ {n} : SameNode(m)
  BY DEF IInv, TypeOK, SameNode
<1>5. NodeInv(n)'
  <2>1. SocketInv(n)' /\ FileInv(n)'
    BY <1>1 DEF NodeInv, SocketInv, FileInv, InStep, OneBehind, Owed, Waiting, Body
  <2>2. CountInv(n)'
    BY <1>1 DEF NodeInv, CountInv, Lost, Owed, Waiting
  <2>3. LimitInv(n)'
    BY <1>1 DEF NodeInv, LimitInv, WithinCalls
  <2>4. QED
    BY <2>1, <2>2, <2>3 DEF NodeInv
<1>6. QED
  BY <1>2, <1>3, <1>4, <1>5, OneNodeStep

LEMMA DeleteStep ==
  ASSUME IInv, NEW n \in Nodes, Delete(n)
  PROVE  IInv'
<1> USE DEF Delete, Close, Goto
<1>1. NodeInv(n) /\ pc'[n] = "deleted" /\ reply'[n] = NoMessage
  BY DEF IInv, TypeOK
<1>2. TypeOK'
  BY DEF IInv, TypeOK, Body
<1>3. StoreInv' /\ KeepsKeys
  BY DEF IInv, StoreInv, KeepsKeys
<1>4. \A m \in Nodes \ {n} : SameNode(m)
  BY DEF IInv, TypeOK, SameNode
<1>5. NodeInv(n)'
  <2>1. SocketInv(n)' /\ FileInv(n)'
    BY <1>1 DEF NodeInv, SocketInv, FileInv, InStep, OneBehind, Owed, Waiting, Body
  <2>2. CountInv(n)'
    BY <1>1 DEF NodeInv, CountInv, Lost, Owed, Waiting, IInv, TypeOK
  <2>3. LimitInv(n)'
    BY <1>1 DEF NodeInv, LimitInv, WithinCalls
  <2>4. QED
    BY <2>1, <2>2, <2>3 DEF NodeInv
<1>6. QED
  BY <1>2, <1>3, <1>4, <1>5, OneNodeStep

\* The broker writes files under their names, and answers a GET with what is
\* stored.
LEMMA ServeStep ==
  ASSUME IInv, NEW n \in Nodes, Serve(n), UNCHANGED nodeVars
  PROVE  IInv'
<1> USE DEF Serve, nodeVars
<1>1. NodeInv(n) /\ request[n] # NoMessage /\ reply[n] = NoMessage
      /\ request'[n] = NoMessage /\ interrupts' = interrupts
  BY DEF IInv, TypeOK, NodeInv, SocketInv
<1>2. CASE request[n].op = "PUT"
  <2>1. PICK f \in Files : request[n] = Put(KeyOf[f], f)
    BY <1>1, <1>2, MessageKinds DEF IInv, TypeOK, Requests
  <2>2. KeyOf[f] \in Keys /\ f # Empty
    BY ConnectorAssumption, EmptyIsNoFile
  <2>3. /\ store' = [store EXCEPT ![KeyOf[f]] = f]
        /\ reply' = [reply EXCEPT ![n] = OK(Empty)]
        /\ executed' = [executed EXCEPT ![n].PUT = @ + 1]
    <3>1. request[n].op = "PUT" /\ request[n].key = KeyOf[f] /\ request[n].value = f
      BY <2>1, MessageKinds
    <3>2. QED
      BY <3>1
  <2>4. TypeOK'
    BY <2>2, <2>3 DEF IInv, TypeOK, Answers
  <2>5. StoreInv' /\ KeepsKeys
    BY <2>2, <2>3 DEF IInv, TypeOK, StoreInv, KeepsKeys
  <2>6. \A m \in Nodes \ {n} : SameNode(m)
    BY <2>3 DEF IInv, TypeOK, SameNode
  <2>7. reply'[n] = OK(Empty) /\ executed'[n].PUT = executed[n].PUT + 1
    BY <2>3 DEF IInv, TypeOK
  <2>8. SocketInv(n)'
    <3>1. pc[n] \in Waiting => file[n] \in Files /\ KeyOf[file[n]] \in Keys
      BY <1>1, ConnectorAssumption DEF NodeInv, FileInv, Body, Waiting
    <3>2. InStep(n) => InStep(n)'
      <4>1. SUFFICES ASSUME InStep(n) PROVE InStep(n)'
        OBVIOUS
      <4>2. pc[n] = "putReply" /\ request[n] = Put(KeyOf[file[n]], file[n])
        BY <1>1, <2>1, <4>1, MessageKinds DEF InStep, Owed, Waiting, FoundOwed
      <4>3. KeyOf[file[n]] = KeyOf[f]
        <5>1. Put(KeyOf[f], f).key = Put(KeyOf[file[n]], file[n]).key
          BY <2>1, <4>2
        <5>2. QED
          BY <5>1 DEF Put
      <4>4. Stored(n)'
        BY <2>2, <2>3, <4>3 DEF Stored, IInv, TypeOK
      <4>5. QED
        BY <2>7, <4>2, <4>4 DEF InStep, Waiting
    <3>3. OneBehind(n)'
      BY <2>7 DEF OneBehind, PutOwed
    <3>4. QED
      BY <1>1, <2>7, <3>2, <3>3, MessageKinds DEF NodeInv, SocketInv, Owed
  <2>9. FileInv(n)' /\ LimitInv(n)'
    BY <1>1 DEF NodeInv, FileInv, LimitInv, WithinCalls, OverLimit
  <2>10. CountInv(n)'
    BY <1>1, <1>2, <2>7, MessageKinds DEF NodeInv, CountInv, Lost, Owed, IInv, TypeOK
  <2>11. QED
    BY <2>4, <2>5, <2>6, <2>8, <2>9, <2>10, OneNodeStep DEF NodeInv
<1>3. CASE request[n].op # "PUT"
  <2>1. PICK k \in Keys : request[n] = Get(k)
    BY <1>1, <1>3, MessageKinds DEF IInv, TypeOK, Requests
  <2>2. /\ store' = store
        /\ reply' = [reply EXCEPT ![n] = IF store[k] = Empty THEN Error ELSE OK(store[k])]
        /\ executed' = [executed EXCEPT ![n].GET = @ + 1]
    <3>1. request[n].op = "GET" /\ request[n].key = k
      BY <2>1, MessageKinds
    <3>2. QED
      BY <1>3, <3>1
  <2>3. store[k] \in Files \cup {Empty}
    BY DEF IInv, TypeOK
  <2>4. TypeOK'
    BY <2>2, <2>3 DEF IInv, TypeOK, Answers
  <2>5. StoreInv' /\ KeepsKeys
    BY <2>2 DEF IInv, StoreInv, KeepsKeys
  <2>6. \A m \in Nodes \ {n} : SameNode(m)
    BY <2>2 DEF IInv, TypeOK, SameNode
  <2>7. /\ executed'[n].PUT = executed[n].PUT
        /\ store[k] = Empty => reply'[n] = Error
        /\ store[k] # Empty =>
             reply'[n] = OK(store[k]) /\ store[k] \in Files /\ KeyOf[store[k]] = k
        /\ reply'[n] # NoMessage
    BY <2>2, <2>3, MessageKinds DEF IInv, TypeOK, StoreInv
  <2>8. SocketInv(n)'
    <3>1. InStep(n) => InStep(n)'
      <4>1. SUFFICES ASSUME InStep(n) PROVE InStep(n)'
        OBVIOUS
      <4>2. pc[n] = "getReply" /\ k = KeyOf[file[n]] /\ Stored(n)
        BY <1>1, <2>1, <4>1, MessageKinds DEF InStep, Owed, Waiting, FoundOwed
      <4>3. QED
        BY <2>2, <2>7, <4>2 DEF InStep, Stored, FoundOwed, Waiting
    <3>2. OneBehind(n) => OneBehind(n)'
      BY <1>1, <2>1, <2>7, MessageKinds DEF OneBehind, PutOwed, GetOwed, FoundOwed, Owed
    <3>3. QED
      BY <1>1, <2>7, <3>1, <3>2 DEF NodeInv, SocketInv, Owed
  <2>9. FileInv(n)' /\ LimitInv(n)'
    BY <1>1 DEF NodeInv, FileInv, LimitInv, WithinCalls, OverLimit
  <2>10. CountInv(n)'
    BY <1>1, <1>3, <2>7, MessageKinds DEF NodeInv, CountInv, Lost, Owed, IInv, TypeOK
  <2>11. QED
    BY <2>4, <2>5, <2>6, <2>8, <2>9, <2>10, OneNodeStep DEF NodeInv
<1>4. QED
  BY <1>2, <1>3

-----------------------------------------------------------------------------
LEMMA StutterStep ==
  ASSUME IInv, UNCHANGED vars
  PROVE  IInv'
<1>1. TypeOK' /\ StoreInv' /\ KeepsKeys
  BY DEF vars, nodeVars, brokerVars, socketVars, IInv, TypeOK, StoreInv, KeepsKeys
<1>2. \A n \in Nodes : SameNode(n)
  BY DEF vars, nodeVars, brokerVars, socketVars, SameNode
<1>3. QED
  BY <1>1, <1>2, NodeFrame DEF IInv

\* The invariant that the theorems rest on, kept by every step.
THEOREM InductiveInvariant == Spec => []IInv
<1>1. Init => IInv
  BY InitIInv
<1>2. IInv /\ [Next]_vars => IInv'
  <2>1. ASSUME IInv, NEW n \in Nodes, NodeStep(n) PROVE IInv'
    BY <2>1, LoadStep, SendPutStep, ReceivePutStep, SendGetStep, ReceiveGetStep, CreateStep,
       EndOfTreeStep DEF NodeStep
  <2>2. ASSUME IInv, Next PROVE IInv'
    BY <2>1, <2>2, RunStep, DeleteStep, ServeStep DEF Next
  <2>3. QED
    BY <2>2, StutterStep
<1>3. QED
  BY <1>1, <1>2, PTL DEF Spec

(***************************************************************************)
(* What create() rebuilds was stored under the key of the file just sent,  *)
(* for any nodes that share any keys, in any number of runs; one           *)
(* interrupted receive can make it nothing, and only two another file.     *)
(***************************************************************************)
THEOREM ReadsBack == Spec => []ReadsBackItsKey
<1>1. IInv => ReadsBackItsKey
  BY DEF IInv, NodeInv, FileInv, ReadsBackItsKey
<1>2. QED
  BY <1>1, InductiveInvariant, PTL

LEMMA LossesAreBounded == IInv => LostPutsAreBounded
<1>1. SUFFICES ASSUME IInv, NEW n \in Nodes, pc[n] \in {"next", "returned", "deleted"}
               PROVE  loaded[n] - executed[n].PUT \in 0 .. interrupts[n]
  BY DEF LostPutsAreBounded
<1>2. request[n].op = "PUT" => Owed(n)
  BY MessageKinds DEF Owed
<1>3. loaded[n] \in Nat /\ executed[n].PUT \in Nat /\ interrupts[n] \in Nat
  BY <1>1 DEF IInv, TypeOK
<1>4. CountInv(n)
  BY <1>1 DEF IInv, NodeInv
<1>5. QED
  BY <1>1, <1>2, <1>3, <1>4 DEF CountInv, Lost, Waiting

(***************************************************************************)
(* However often receives are interrupted, the objects a node has counted  *)
(* and the database has not seen are no more than the interrupts.          *)
(***************************************************************************)
THEOREM LostPuts == Spec => []LostPutsAreBounded
BY LossesAreBounded, InductiveInvariant, PTL

(***************************************************************************)
(* A call of run() ends with the tree or with the first file over the      *)
(* limit, for every limit and any sizes of files.                          *)
(***************************************************************************)
THEOREM LimitHolds == Spec => []LimitEndsRun
<1>1. IInv => LimitEndsRun
  <2>1. SUFFICES ASSUME IInv, NEW n \in Nodes, BytesLimit # -1, loaded[n] > 0
                 PROVE  \E f \in Files : total[n] <= BytesLimit + calls[n] * SizeOf[f]
    BY DEF LimitEndsRun, IInv, NodeInv, LimitInv, OverLimit
  <2>2. WithinCalls(n, calls[n]) /\ Files # {}
    BY <2>1 DEF IInv, NodeInv, LimitInv
  <2>3. CASE total[n] <= BytesLimit
    <3>1. PICK f \in Files : TRUE
      BY <2>2
    <3>2. SizeOf[f] \in Nat /\ calls[n] \in Nat /\ total[n] \in Nat /\ BytesLimit \in Nat
      BY <2>1, ConnectorAssumption DEF IInv, TypeOK
    <3>3. calls[n] * SizeOf[f] \in Nat
      BY <3>2
    <3>4. QED
      BY <2>3, <3>2, <3>3
  <2>4. QED
    BY <2>2, <2>3 DEF WithinCalls
<1>2. QED
  BY <1>1, InductiveInvariant, PTL
-----------------------------------------------------------------------------
(***************************************************************************)
(* Connector implements AtomicStore.  Calls and Disturbed are what the     *)
(* refinement mapping gives the abstract call and disturbed.               *)
(***************************************************************************)
Calls == [m \in Nodes |-> CallOf(m)]
Disturbed == {m \in Nodes : interrupts[m] > 0}

LEMMA InitStore == Init => DB!StoreInit
<1> SUFFICES ASSUME Init PROVE DB!StoreInit
  OBVIOUS
<1>1. \A m \in Nodes : CallOf(m) = DB!NoCall
  BY DEF Init, BrokerInit, CallOf, DB!NoCall, DB!Call
<1>2. QED
  BY <1>1 DEF Init, BrokerInit, DB!StoreInit

\* What the call of a node is, as long as no receive of it was interrupted.
LEMMA UndisturbedCall ==
  ASSUME IInv, NEW n \in Nodes, interrupts[n] = 0
  PROVE  /\ pc[n] \notin {"putReply", "get", "getReply", "create"} => CallOf(n) = DB!NoCall
         /\ pc[n] \in {"get", "create"} =>
              CallOf(n) = DB!Call("returned", Intended(n), value[n])
         /\ pc[n] \in Waiting /\ request[n] # NoMessage =>
              request[n] = Intended(n) /\ CallOf(n) = DB!Call("invoked", Intended(n), Empty)
         /\ pc[n] \in Waiting /\ reply[n] # NoMessage =>
              CallOf(n) = DB!Call("done", Intended(n), reply[n].value)
<1>1. InStep(n) /\ (request[n] = NoMessage \/ reply[n] = NoMessage)
  BY DEF IInv, NodeInv, SocketInv
<1>2. Intended(n) # NoMessage
  BY MessageKinds DEF Intended
<1>3. ASSUME pc[n] \in Waiting, request[n] # NoMessage PROVE request[n] = Intended(n)
  BY <1>1, <1>3, MessageKinds DEF InStep, Intended, FoundOwed, Waiting
<1>4. QED
  BY <1>1, <1>2, <1>3 DEF CallOf, DB!NoCall, DB!Call, Waiting

LEMMA DisturbedCall ==
  ASSUME TypeOK, NEW n \in Nodes, interrupts[n] # 0
  PROVE  CallOf(n) = DB!NoCall /\ n \in Disturbed
BY DEF TypeOK, CallOf, Disturbed, DB!NoCall, DB!Call

\* A step of n changes the call of n only.
LEMMA OneCall ==
  ASSUME NEW n \in Nodes, \A m \in Nodes \ {n} : SameNode(m)
  PROVE  /\ Calls' = [Calls EXCEPT ![n] = CallOf(n)']
         /\ interrupts'[n] = interrupts[n] => Disturbed' = Disturbed
         /\ interrupts'[n] = interrupts[n] + 1 /\ interrupts[n] \in Nat =>
              Disturbed' = Disturbed \cup {n}
<1>1. \A m \in Nodes \ {n} : CallOf(m)' = CallOf(m) /\ interrupts'[m] = interrupts[m]
  BY DEF SameNode, CallOf, Intended
<1>2. Calls' = [Calls EXCEPT ![n] = CallOf(n)']
  BY <1>1 DEF Calls
<1>3. QED
  BY <1>1, <1>2 DEF Disturbed

\* A step that the abstract store does not see.
LEMMA Unseen ==
  ASSUME NEW n \in Nodes, \A m \in Nodes \ {n} : SameNode(m),
         interrupts'[n] = interrupts[n], store' = store, CallOf(n)' = CallOf(n)
  PROVE  UNCHANGED DB!storeVars
BY OneCall DEF Calls, Disturbed, DB!storeVars

LEMMA SilentSteps ==
  ASSUME IInv, NEW n \in Nodes, Run(n) \/ Load(n) \/ EndOfTree(n) \/ Delete(n)
  PROVE  UNCHANGED DB!storeVars
<1>1. /\ pc[n] \notin {"putReply", "get", "getReply", "create"}
      /\ pc'[n] \notin {"putReply", "get", "getReply", "create"}
      /\ interrupts' = interrupts /\ store' = store
  BY DEF Run, Load, EndOfTree, Delete, Close, Goto, brokerVars, socketVars, IInv, TypeOK
<1>2. \A m \in Nodes \ {n} : SameNode(m)
  BY DEF Run, Load, Count, EndOfTree, Delete, Close, Goto, brokerVars, socketVars, IInv, TypeOK,
     SameNode
<1>3. CallOf(n)' = CallOf(n)
  BY <1>1 DEF CallOf
<1>4. QED
  BY <1>1, <1>2, <1>3, Unseen

LEMMA SendsInvoke ==
  ASSUME IInv, NEW n \in Nodes, SendPut(n) \/ SendGet(n)
  PROVE  [DB!StoreNext]_DB!storeVars
<1>1. /\ pc[n] \in {"put", "get"} /\ pc'[n] = (IF pc[n] = "put" THEN "putReply" ELSE "getReply")
      /\ interrupts' = interrupts /\ store' = store /\ file' = file
      /\ request' = IF Owed(n) THEN request ELSE [request EXCEPT ![n] = Intended(n)']
  BY DEF SendPut, SendGet, Send, Goto, Intended, IInv, TypeOK
<1>2. \A m \in Nodes \ {n} : SameNode(m)
  BY DEF SendPut, SendGet, Send, Goto, IInv, TypeOK, SameNode
<1>3. IInv'
  BY SendPutStep, SendGetStep
<1>4. CASE interrupts[n] = 0
  <2>1. ~Owed(n)
    BY <1>1, <1>4 DEF IInv, NodeInv, SocketInv, InStep, Waiting
  <2>2. request'[n] = Intended(n)'
    BY <1>1, <2>1 DEF IInv, TypeOK
  <2>3. CallOf(n)' = DB!Call("invoked", Intended(n)', Empty)
    BY <1>1, <1>4, <2>2 DEF CallOf, DB!Call
  <2>4. Calls[n].phase \in {"none", "returned"}
    BY <1>1, <1>4, UndisturbedCall DEF Calls, DB!NoCall, DB!Call
  <2>5. Intended(n)' \in Requests
    BY <1>1, ConnectorAssumption DEF Intended, Requests, IInv, NodeInv, FileInv, Body
  <2>6. /\ n \notin Disturbed /\ Disturbed' = Disturbed
        /\ Calls' = [Calls EXCEPT ![n] = CallOf(n)']
    BY <1>1, <1>2, <1>4, OneCall DEF Disturbed
  <2>7. DB!Invoke(n)
    BY <1>1, <2>3, <2>4, <2>5, <2>6 DEF DB!Invoke, Calls, Disturbed, Requests
  <2>8. QED
    BY <2>7 DEF DB!StoreNext
<1>5. CASE interrupts[n] # 0
  <2>1. CallOf(n)' = CallOf(n)
    BY <1>1, <1>3, <1>5, DisturbedCall DEF CallOf, IInv, TypeOK
  <2>2. QED
    BY <1>1, <1>2, <2>1, Unseen
<1>6. QED
  BY <1>4, <1>5

\* A receive returns from the call, an interrupted one disturbs the node.
LEMMA ReceivesReturn ==
  ASSUME IInv, NEW n \in Nodes, ReceivePut(n) \/ ReceiveGet(n)
  PROVE  [DB!StoreNext]_DB!storeVars
<1>1. /\ pc[n] \in Waiting /\ pc'[n] = (IF pc[n] = "putReply" THEN "get" ELSE "create")
      /\ store' = store /\ file' = file
      /\ value'[n] = IF pc[n] = "putReply" THEN value[n] ELSE reply[n].value
      /\ \/ Receive(n) /\ interrupts'[n] = interrupts[n]
         \/ Interrupt(n) /\ interrupts'[n] = interrupts[n] + 1
  BY DEF ReceivePut, ReceiveGet, Receive, Interrupt, Goto, socketVars, IInv, TypeOK, Waiting
<1>2. \A m \in Nodes \ {n} : SameNode(m)
  BY DEF ReceivePut, ReceiveGet, Receive, Interrupt, Goto, socketVars, IInv, TypeOK, SameNode
<1>3. interrupts[n] \in Nat
  BY DEF IInv, TypeOK
<1>4. Calls' = [Calls EXCEPT ![n] = CallOf(n)']
  BY <1>2, OneCall
<1>5. CASE Interrupt(n)
  <2>1. interrupts'[n] = interrupts[n] + 1
    BY <1>5 DEF Interrupt, IInv, TypeOK
  <2>2. Disturbed' = Disturbed \cup {n} /\ CallOf(n)' = DB!NoCall
    BY <1>2, <1>3, <2>1, OneCall DEF CallOf, DB!NoCall, DB!Call
  <2>3. CASE interrupts[n] = 0
    <3>1. DB!Disturb(n)
      BY <1>1, <1>4, <2>2, <2>3 DEF DB!Disturb, Disturbed, Calls
    <3>2. QED
      BY <3>1 DEF DB!StoreNext
  <2>4. CASE interrupts[n] # 0
    <3>1. Calls[n] = DB!NoCall /\ n \in Disturbed
      BY <2>4, DisturbedCall DEF Calls, IInv
    <3>2. Calls' = Calls /\ Disturbed' = Disturbed
      BY <1>4, <2>2, <3>1 DEF Calls
    <3>3. QED
      BY <1>1, <3>2 DEF DB!storeVars, Calls, Disturbed
  <2>5. QED
    BY <2>3, <2>4
<1>6. CASE Receive(n) /\ interrupts[n] = 0
  <2>1. interrupts'[n] = interrupts[n] /\ reply[n] # NoMessage
    BY <1>6 DEF Receive
  <2>2. Calls[n] = DB!Call("done", Intended(n), reply[n].value)
    BY <1>1, <1>6, <2>1, UndisturbedCall DEF Calls
  <2>3. Intended(n)' = Intended(n)
    BY <1>1 DEF Intended, Waiting
  <2>4. value'[n] = reply[n].value
    BY <1>1, <1>6, <2>1, MessageKinds
       DEF IInv, NodeInv, SocketInv, FileInv, InStep, Waiting
  <2>5. CallOf(n)' = DB!Call("returned", Intended(n), reply[n].value)
    BY <1>1, <1>6, <2>1, <2>3, <2>4 DEF CallOf, DB!Call
  <2>6. Disturbed' = Disturbed
    BY <1>2, <2>1, OneCall
  <2>7. DB!Return(n)
    <3>1. Calls[n].phase = "done"
      BY <2>2 DEF DB!Call
    <3>2. CallOf(n)' = [Calls[n] EXCEPT !.phase = "returned"]
      BY <2>2, <2>5 DEF DB!Call
    <3>3. Calls' = [Calls EXCEPT ![n].phase = "returned"]
      BY <1>4, <3>2
    <3>4. QED
      BY <1>1, <2>6, <3>1, <3>3 DEF DB!Return, Calls, Disturbed
  <2>8. QED
    BY <2>7 DEF DB!StoreNext
<1>7. CASE Receive(n) /\ interrupts[n] # 0
  <2>1. interrupts'[n] = interrupts[n]
    BY <1>7 DEF Receive
  <2>2. CallOf(n)' = CallOf(n)
    BY <1>3, <1>7, <2>1 DEF CallOf
  <2>3. QED
    BY <1>1, <1>2, <2>1, <2>2, Unseen
<1>8. QED
  BY <1>1, <1>5, <1>6, <1>7

LEMMA CreateForgets ==
  ASSUME IInv, NEW n \in Nodes, Create(n)
  PROVE  [DB!StoreNext]_DB!storeVars
<1>1. /\ pc[n] = "create" /\ pc'[n] \notin {"putReply", "get", "getReply", "create"}
      /\ interrupts' = interrupts /\ store' = store
  BY DEF Create, Goto, brokerVars, socketVars, IInv, TypeOK
<1>2. \A m \in Nodes \ {n} : SameNode(m)
  BY DEF Create, Goto, brokerVars, socketVars, IInv, TypeOK, SameNode
<1>3. CallOf(n)' = DB!NoCall
  BY <1>1 DEF CallOf, DB!NoCall, DB!Call
<1>4. CASE interrupts[n] = 0
  <2>1. Calls[n].phase = "returned"
    BY <1>1, <1>4, UndisturbedCall DEF Calls, DB!Call
  <2>2. Calls' = [Calls EXCEPT ![n] = DB!NoCall] /\ Disturbed' = Disturbed
    BY <1>1, <1>2, <1>3, OneCall
  <2>3. DB!Forget(n)
    BY <1>1, <2>1, <2>2 DEF DB!Forget, Calls, Disturbed
  <2>4. QED
    BY <2>3 DEF DB!StoreNext
<1>5. CASE interrupts[n] # 0
  <2>1. CallOf(n)' = CallOf(n)
    BY <1>3, <1>5, DisturbedCall DEF IInv
  <2>2. QED
    BY <1>1, <1>2, <2>1, Unseen
<1>6. QED
  BY <1>4, <1>5

\* The broker executes what an undisturbed node is waiting for; what it
\* executes for another nobody may be waiting for any more.
LEMMA ServeCommits ==
  ASSUME IInv, NEW n \in Nodes, Serve(n), UNCHANGED nodeVars
  PROVE  [DB!StoreNext]_DB!storeVars
<1>1. request[n] # NoMessage /\ reply[n] = NoMessage /\ request'[n] = NoMessage
      /\ reply'[n] # NoMessage /\ request[n] \in Requests
      /\ interrupts' = interrupts /\ pc' = pc /\ file' = file
  <2>1. reply'[n] # NoMessage
    BY MessageKinds DEF Serve, IInv, TypeOK
  <2>2. QED
    BY <2>1 DEF Serve, nodeVars, IInv, TypeOK, NodeInv, SocketInv
<1>2. \A m \in Nodes \ {n} : SameNode(m)
  BY DEF Serve, nodeVars, IInv, TypeOK, SameNode
<1>3. IF request[n].op = "PUT"
      THEN /\ store' = [store EXCEPT ![request[n].key] = request[n].value]
           /\ reply'[n].value = Empty
      ELSE store' = store /\ reply'[n].value = store[request[n].key]
  BY MessageKinds DEF Serve, IInv, TypeOK
<1>4. Disturbed' = Disturbed /\ Calls' = [Calls EXCEPT ![n] = CallOf(n)']
  BY <1>1, <1>2, OneCall
<1>5. CASE interrupts[n] = 0
  <2>1. pc[n] \in Waiting
    BY <1>1, <1>5 DEF IInv, NodeInv, SocketInv, InStep, Owed
  <2>2. request[n] = Intended(n) /\ Calls[n] = DB!Call("invoked", request[n], Empty)
    BY <1>1, <1>5, <2>1, UndisturbedCall DEF Calls
  <2>3. Intended(n)' = Intended(n) /\ Intended(n) # NoMessage
    BY <1>1, <2>2 DEF Intended
  <2>4. CallOf(n)' = DB!Call("done", request[n], reply'[n].value)
    BY <1>1, <1>5, <2>1, <2>2, <2>3 DEF CallOf, DB!Call, Waiting
  <2>5. DB!Commit(n)
    <3>1. Calls[n].phase = "invoked" /\ Calls[n].request = request[n]
      BY <2>2 DEF DB!Call
    <3>2. CASE request[n].op = "PUT"
      BY <1>3, <1>4, <2>4, <3>1, <3>2 DEF DB!Commit, DB!Write, Calls, Disturbed
    <3>3. CASE request[n].op # "PUT"
      <4> DEFINE r == Calls[n].request
      <4>1. r.op # "PUT" /\ store' = store
        BY <1>3, <3>1, <3>3
      <4>2. Calls' = [Calls EXCEPT ![n] = DB!Call("done", r, store[r.key])]
        BY <1>3, <1>4, <2>4, <3>1, <3>3
      <4>3. QED
        BY <1>4, <3>1, <4>1, <4>2 DEF DB!Commit, Calls, Disturbed
    <3>4. QED
      BY <3>2, <3>3
  <2>6. QED
    BY <2>5 DEF DB!StoreNext
<1>6. CASE interrupts[n] # 0
  <2>1. CallOf(n)' = CallOf(n) /\ Calls' = Calls /\ n \in Disturbed
    <3>1. CallOf(n)' = CallOf(n)
      BY <1>1, <1>6 DEF CallOf, IInv, TypeOK
    <3>2. QED
      BY <1>4, <1>6, <3>1, DisturbedCall DEF Calls, IInv
  <2>2. CASE request[n].op = "PUT"
    <3>1. DB!Stray(n)
      BY <1>1, <1>3, <1>4, <2>1, <2>2 DEF DB!Stray, DB!Write, Calls, Disturbed, Requests
    <3>2. QED
      BY <3>1 DEF DB!StoreNext
  <2>3. CASE request[n].op # "PUT"
    BY <1>1, <1>2, <1>3, <2>1, <2>3, Unseen
  <2>4. QED
    BY <2>2, <2>3
<1>7. QED
  BY <1>5, <1>6

(***************************************************************************)
(* A putValue() has taken effect when it returns, and a getValue() returns *)
(* what the database held at one moment of the call, for any number of     *)
(* nodes, whatever their receives meet: only the guarantees of a node      *)
(* whose own receive was interrupted are lost.                             *)
(***************************************************************************)
THEOREM ImplementsStore == Spec => ConnectorImplementsStore
<1>1. ASSUME IInv, Next PROVE [DB!StoreNext]_DB!storeVars
  <2>1. ASSUME NEW n \in Nodes, NodeStep(n) PROVE [DB!StoreNext]_DB!storeVars
    BY <1>1, <2>1, SilentSteps, SendsInvoke, ReceivesReturn, CreateForgets DEF NodeStep
  <2>2. QED
    BY <1>1, <2>1, SilentSteps, ServeCommits DEF Next
<1>2. ASSUME UNCHANGED vars PROVE UNCHANGED DB!storeVars
  BY <1>2 DEF vars, nodeVars, brokerVars, socketVars, DB!storeVars, CallOf, Intended
<1>3. IInv /\ [Next]_vars => [DB!StoreNext]_DB!storeVars
  BY <1>1, <1>2
<1>4. QED
  BY InitStore, InductiveInvariant, <1>3, PTL DEF Spec, ConnectorImplementsStore, DB!StoreSpec
=============================================================================
