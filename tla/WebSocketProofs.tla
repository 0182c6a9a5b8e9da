--------------------------- MODULE WebSocketProofs ---------------------------
(***************************************************************************)
(* Proofs about WebSocket: for every set of tasks, every size of the two   *)
(* channels and of the socket's buffers, types, the place of a close       *)
(* message and the order of what the client is sent.                       *)
(***************************************************************************)
EXTENDS WebSocket, SelectionProofs

-----------------------------------------------------------------------------
(* Queues.                                                                 *)

NoRepetition(q) == \A i, j \in 1 .. Len(q) : q[i] = q[j] => i = j

\* One element more at the end.
LEMMA AppendFacts ==
    ASSUME NEW S, NEW s \in Seq(S), NEW e \in S
    PROVE  /\ Append(s, e) \in Seq(S)
           /\ Len(s) \in Nat
           /\ Len(Append(s, e)) = Len(s) + 1
           /\ \A i \in 1 .. Len(s) : Append(s, e)[i] = s[i]
           /\ Append(s, e)[Len(s) + 1] = e
  OBVIOUS

\* The head of a queue is taken out.
LEMMA TailFacts ==
    ASSUME NEW S, NEW s \in Seq(S), s # <<>>
    PROVE  /\ Tail(s) \in Seq(S)
           /\ Head(s) = s[1] /\ Head(s) \in S
           /\ Len(s) \in Nat /\ 1 \in 1 .. Len(s)
           /\ Len(Tail(s)) = Len(s) - 1
           /\ \A i \in 1 .. Len(s) - 1 : Tail(s)[i] = s[i + 1]
<1>1. Len(s) \in Nat /\ Len(s) # 0
      OBVIOUS
<1>2. Head(s) = s[1]
      OBVIOUS
<1> QED BY <1>1, <1>2, HeadTailProperties

\* An element is taken out of the middle of a queue.
LEMMA RemoveAtFacts ==
    ASSUME NEW S, NEW s \in Seq(S), NEW k \in 1 .. Len(s)
    PROVE  /\ RemoveAt(s, k) \in Seq(S)
           /\ Len(RemoveAt(s, k)) = Len(s) - 1
           /\ \A i \in 1 .. Len(s) - 1 : RemoveAt(s, k)[i] = IF i < k THEN s[i] ELSE s[i + 1]
<1> DEFINE before == SubSeq(s, 1, k - 1)
           after == SubSeq(s, k + 1, Len(s))
<1>1. Len(s) \in Nat /\ k \in Int /\ \A i \in 1 .. Len(s) : s[i] \in S
      OBVIOUS
<1>2. /\ before \in Seq(S) /\ Len(before) = k - 1
      /\ \A i \in 1 .. k - 1 : before[i] = s[i]
  <2>1. \A i \in 1 .. k - 1 : s[i] \in S
        BY <1>1
  <2> QED BY <1>1, <2>1, SubSeqProperties
<1>3. /\ after \in Seq(S) /\ Len(after) = Len(s) - k
      /\ \A i \in 1 .. Len(s) - k : after[i] = s[k + i]
  <2>1. \A i \in k + 1 .. Len(s) : s[i] \in S
        BY <1>1
  <2> QED BY <1>1, <2>1, SubSeqProperties
<1> HIDE DEF before, after
<1>4. /\ before \o after \in Seq(S)
      /\ Len(before \o after) = Len(before) + Len(after)
      /\ \A i \in 1 .. Len(before) + Len(after) :
            (before \o after)[i] = IF i <= Len(before) THEN before[i] ELSE after[i - Len(before)]
      BY <1>2, <1>3, ConcatProperties
<1>5. RemoveAt(s, k) = before \o after
      BY DEF RemoveAt, before, after
<1>6. ASSUME NEW i \in 1 .. Len(s) - 1
      PROVE  RemoveAt(s, k)[i] = IF i < k THEN s[i] ELSE s[i + 1]
  <2>1. CASE i < k
        BY <1>1, <1>2, <1>3, <1>4, <1>5, <2>1
  <2>2. CASE ~(i < k)
    <3>1. i - (k - 1) \in 1 .. Len(s) - k /\ k + (i - (k - 1)) = i + 1
          BY <1>1, <2>2
    <3>2. (before \o after)[i] = after[i - (k - 1)]
          BY <1>1, <1>2, <1>3, <1>4, <2>2
    <3> QED BY <1>3, <1>5, <2>2, <3>1, <3>2
  <2> QED BY <2>1, <2>2
<1>7. Len(before) + Len(after) = Len(s) - 1
      BY <1>1, <1>2, <1>3
<1>8. RemoveAt(s, k) \in Seq(S) /\ Len(RemoveAt(s, k)) = Len(s) - 1
      BY <1>4, <1>5, <1>7
<1> QED BY <1>6, <1>8

\* A task joins a queue it does not wait in.
LEMMA Enqueue ==
    ASSUME NEW q \in Seq(Tasks), NoRepetition(q), NEW t \in Tasks, t \notin ToSet(q)
    PROVE  /\ Append(q, t) \in Seq(Tasks)
           /\ NoRepetition(Append(q, t))
           /\ ToSet(Append(q, t)) = ToSet(q) \union {t}
<1>1. /\ Append(q, t) \in Seq(Tasks) /\ Len(q) \in Nat /\ Len(Append(q, t)) = Len(q) + 1
      /\ \A i \in 1 .. Len(q) : Append(q, t)[i] = q[i]
      /\ Append(q, t)[Len(q) + 1] = t
      BY AppendFacts
<1>2. \A i \in 1 .. Len(q) : q[i] # t
      BY DEF ToSet
<1>3. \A i \in 1 .. Len(q) + 1 : i \in 1 .. Len(q) \/ i = Len(q) + 1
      BY <1>1
<1>4. NoRepetition(Append(q, t))
      BY <1>1, <1>2, <1>3 DEF NoRepetition
<1>5. ASSUME NEW x PROVE x \in ToSet(Append(q, t)) <=> x \in ToSet(q) \union {t}
  <2>1. x \in ToSet(q) <=> \E i \in 1 .. Len(q) : q[i] = x
        BY DEF ToSet
  <2>2. x \in ToSet(Append(q, t)) <=> \E i \in 1 .. Len(q) + 1 : Append(q, t)[i] = x
        BY <1>1 DEF ToSet
  <2>3. Len(q) + 1 \in 1 .. Len(q) + 1 /\ \A i \in 1 .. Len(q) : i \in 1 .. Len(q) + 1
        BY <1>1
  <2> QED BY <1>1, <1>3, <2>1, <2>2, <2>3
<1> QED BY <1>1, <1>4, <1>5

\* A task leaves a queue, from whatever place.
LEMMA Dequeue ==
    ASSUME NEW q \in Seq(Tasks), NoRepetition(q), NEW k \in 1 .. Len(q)
    PROVE  /\ RemoveAt(q, k) \in Seq(Tasks)
           /\ NoRepetition(RemoveAt(q, k))
           /\ ToSet(RemoveAt(q, k)) = ToSet(q) \ {q[k]}
<1> DEFINE r == RemoveAt(q, k)
           from(i) == IF i < k THEN i ELSE i + 1
<1>1. /\ r \in Seq(Tasks) /\ Len(q) \in Nat /\ Len(r) = Len(q) - 1
      /\ \A i \in 1 .. Len(r) : r[i] = q[from(i)] /\ from(i) \in 1 .. Len(q) /\ from(i) # k
  <2>1. /\ r \in Seq(Tasks) /\ Len(q) \in Nat /\ Len(r) = Len(q) - 1
        /\ \A i \in 1 .. Len(q) - 1 : r[i] = IF i < k THEN q[i] ELSE q[i + 1]
        BY RemoveAtFacts
  <2> HIDE DEF r
  <2> QED BY <2>1
<1> HIDE DEF r
<1>2. \A i, j \in 1 .. Len(r) : from(i) = from(j) => i = j
      BY <1>1
<1>3. \A j \in 1 .. Len(q) : j # k => \E i \in 1 .. Len(r) : from(i) = j
  <2> SUFFICES ASSUME NEW j \in 1 .. Len(q), j # k
               PROVE  \E i \in 1 .. Len(r) : from(i) = j
      OBVIOUS
  <2>1. CASE j < k
    <3>1. j \in 1 .. Len(r) /\ from(j) = j
          BY <1>1, <2>1
    <3> QED BY <3>1
  <2>2. CASE ~(j < k)
    <3>1. j - 1 \in 1 .. Len(r) /\ from(j - 1) = j
          BY <1>1, <2>2
    <3> QED BY <3>1
  <2> QED BY <2>1, <2>2
<1> HIDE DEF from
<1>4. NoRepetition(r)
      BY <1>1, <1>2 DEF NoRepetition
<1>5. ASSUME NEW x PROVE x \in ToSet(r) <=> x \in ToSet(q) \ {q[k]}
  <2>1. x \in ToSet(q) <=> \E i \in 1 .. Len(q) : q[i] = x
        BY DEF ToSet
  <2>2. x \in ToSet(r) <=> \E i \in 1 .. Len(r) : r[i] = x
        BY <1>1 DEF ToSet
  <2>3. ASSUME NEW i \in 1 .. Len(r), r[i] = x PROVE x \in ToSet(q) /\ x # q[k]
        BY <1>1, <2>1, <2>3 DEF NoRepetition
  <2>4. ASSUME NEW j \in 1 .. Len(q), q[j] = x, x # q[k] PROVE \E i \in 1 .. Len(r) : r[i] = x
        BY <1>1, <1>3, <2>4
  <2> QED BY <2>1, <2>2, <2>3, <2>4
<1> QED BY <1>1, <1>4, <1>5 DEF r

\* The first task of a queue leaves it.
LEMMA DequeueHead ==
    ASSUME NEW q \in Seq(Tasks), NoRepetition(q), q # <<>>
    PROVE  /\ Tail(q) \in Seq(Tasks)
           /\ NoRepetition(Tail(q))
           /\ ToSet(Tail(q)) = ToSet(q) \ {Head(q)}
           /\ Head(q) \in ToSet(q)
<1>1. /\ Tail(q) \in Seq(Tasks) /\ Head(q) = q[1] /\ 1 \in 1 .. Len(q) /\ Len(q) \in Nat
      /\ Len(Tail(q)) = Len(q) - 1
      /\ \A i \in 1 .. Len(q) - 1 : Tail(q)[i] = q[i + 1]
      BY TailFacts
<1>2. NoRepetition(Tail(q))
      BY <1>1 DEF NoRepetition
<1>2a. \A i \in DOMAIN Tail(q) : i \in 1 .. Len(q) - 1
      BY <1>1
<1>2b. \A i \in 1 .. Len(q) - 1 : i \in DOMAIN Tail(q)
      BY <1>1
<1>3. ASSUME NEW x PROVE x \in ToSet(Tail(q)) <=> x \in ToSet(q) \ {q[1]}
  <2>1. x \in ToSet(q) <=> \E i \in 1 .. Len(q) : q[i] = x
        BY DEF ToSet
  <2>2. x \in ToSet(Tail(q)) <=> \E i \in 1 .. Len(q) - 1 : Tail(q)[i] = x
        BY <1>2a, <1>2b, Zenon DEF ToSet
  <2>3. ASSUME NEW i \in 1 .. Len(q) - 1, Tail(q)[i] = x PROVE x \in ToSet(q) /\ x # q[1]
    <3>1. i + 1 \in 1 .. Len(q) /\ i + 1 # 1 /\ q[i + 1] = x
          BY <1>1, <2>3
    <3> QED BY <1>1, <2>1, <3>1 DEF NoRepetition
  <2>4. ASSUME NEW j \in 1 .. Len(q), q[j] = x, x # q[1]
        PROVE  \E i \in 1 .. Len(q) - 1 : Tail(q)[i] = x
    <3>1. j - 1 \in 1 .. Len(q) - 1 /\ Tail(q)[j - 1] = q[j]
          BY <1>1, <2>4
    <3> QED BY <3>1, <2>4
  <2> QED BY <2>1, <2>2, <2>3, <2>4
<1>4. q[1] \in ToSet(q)
      BY <1>1 DEF ToSet
<1> QED BY <1>1, <1>2, <1>3, <1>4
-----------------------------------------------------------------------------
(* Types.                                                                  *)

Call == {Idle, [op |-> "receive"]} \union [op : {"send"}, msg : Message]

\* No task waits twice: every send and every receive that is waiting has one
\* place in the queue it waits in.
QueueInv == TypeOK /\ NoRepetition(sendQueue) /\ NoRepetition(recvQueue)

\* What kind of call a task awaits.
LEMMA CallFacts ==
    ASSUME NEW c \in Call
    PROVE  /\ c.op \in {"idle", "send", "receive"}
           /\ c.op = "send" => c.msg \in Message
           /\ c # Idle => c.op # "idle"
  BY DEF Call, Idle

\* The number of sends and closes the application has begun.
LEMMA StartedType == TypeOK => Started \in Nat
<1> SUFFICES ASSUME TypeOK PROVE Started \in Nat
    OBVIOUS
<1>1. Cardinality({t \in Tasks : call[t].op = "send"}) \in Nat
  <2> DEFINE senders == {t \in Tasks : call[t].op = "send"}
  <2>1. senders \in SUBSET Tasks
        OBVIOUS
  <2> HIDE DEF senders
  <2>2. IsFiniteSet(senders)
        BY <2>1, WebSocketAssumption, FS_Subset
  <2>3. Cardinality(senders) \in Nat
        BY <2>2, FS_CardinalityType
  <2> QED BY <2>3 DEF senders
<1>2. Len(accepted) \in Nat
      BY DEF TypeOK
<1> QED BY <1>1, <1>2 DEF Started

\* The initial state has these types.
LEMMA InitTypes == Init => QueueInv
<1> SUFFICES ASSUME Init PROVE QueueInv
    OBVIOUS
<1>1. ToSet(<<>>) = {}
      BY DEF ToSet
<1>2. \A t \in Tasks : call[t].op = "idle"
      BY DEF Init, Idle
<1>3. /\ ToSet(sendQueue) = {t \in Tasks : call[t].op = "send"}
      /\ ToSet(recvQueue) = {t \in Tasks : call[t].op = "receive"}
      BY <1>1, <1>2 DEF Init
<1>4. NoRepetition(sendQueue) /\ NoRepetition(recvQueue)
      BY DEF Init, NoRepetition
<1>5. /\ <<>> \in Seq(Message) /\ <<>> \in Seq(Tasks) /\ Len(<<>>) = 0
      /\ 0 <= Capacity /\ 0 <= WireCapacity /\ 0 \in 0 .. WireCapacity /\ 0 \in 0 .. MaxFrames
      BY WebSocketAssumption
<1>6. call \in [Tasks -> {Idle, [op |-> "receive"]} \union [op : {"send"}, msg : Message]]
      BY DEF Init
<1> QED BY <1>3, <1>4, <1>5, <1>6 DEF Init, QueueInv, TypeOK

\* The client and the pump keep the types: they do not touch the calls.
LEMMA WireTypes == QueueInv /\ (Client \/ Pump) => QueueInv'
<1> SUFFICES ASSUME QueueInv, Client \/ Pump PROVE QueueInv'
    OBVIOUS
<1> USE WebSocketAssumption DEF wireVars, connVars
<1>0. /\ toPython \in Seq(Message) /\ Len(toPython) <= Capacity
      /\ toRust \in Seq(Message) /\ Len(toRust) <= Capacity
      /\ pump \in {Select, Done} \union [at : {"push", "write"}, msg : Message]
      /\ wireIn \in Seq(Message) /\ Len(wireIn) <= WireCapacity
      /\ unread \in 0 .. WireCapacity
      /\ peer \in {"open", "closing", "gone"}
      /\ frames \in 0 .. MaxFrames
      /\ delivered \in Seq(Message)
      BY DEF QueueInv, TypeOK
<1>1. /\ call' = call /\ sendQueue' = sendQueue /\ recvQueue' = recvQueue
      /\ accepted' = accepted /\ taken' = taken
      /\ conn' = conn /\ isConnected' = isConnected /\ handlerDone' = handlerDone
  <2>1. taskVars' = taskVars /\ connVars' = connVars
        BY DEF Client, Pump, ClientReads, ClientVanishes, ClientSends, PumpReads, PumpFails,
               PumpPushes, PumpTakes, PumpWrites
  <2> QED BY <2>1 DEF taskVars
<1>2. SUFFICES /\ toPython' \in Seq(Message) /\ Len(toPython') <= Capacity
               /\ toRust' \in Seq(Message) /\ Len(toRust') <= Capacity
               /\ pump' \in {Select, Done} \union [at : {"push", "write"}, msg : Message]
               /\ wireIn' \in Seq(Message) /\ Len(wireIn') <= WireCapacity
               /\ unread' \in 0 .. WireCapacity
               /\ peer' \in {"open", "closing", "gone"}
               /\ frames' \in 0 .. MaxFrames
               /\ delivered' \in Seq(Message)
      BY <1>1 DEF QueueInv, TypeOK
<1>3. \A m \in Message, where \in {"push", "write"} :
         Holding(where, m) \in [at : {"push", "write"}, msg : Message]
      BY DEF Holding
<1>4. pump.at \in {"push", "write"} => pump \in [at : {"push", "write"}, msg : Message]
      BY <1>0 DEF Select, Done
<1>5. CASE ClientReads
      BY <1>0, <1>5 DEF ClientReads, pumpVars
<1>6. CASE ClientVanishes
      BY <1>0, <1>6 DEF ClientVanishes, pumpVars
<1>7. ASSUME NEW k \in ClientKinds, ClientSends(k)
      PROVE  <1>2!1
  <2>1. [kind |-> k, id |-> frames + 1] \in Message
        BY <1>0, <1>7 DEF ClientSends, Message
  <2>2. wireIn' \in Seq(Message) /\ Len(wireIn') <= WireCapacity
        BY <1>0, <1>7, <2>1, AppendFacts DEF ClientSends
  <2> QED BY <1>0, <1>7, <2>2 DEF ClientSends, pumpVars
<1>8. CASE PumpReads
  <2>1. Tail(wireIn) \in Seq(Message) /\ Len(Tail(wireIn)) <= WireCapacity /\ Head(wireIn) \in Message
        BY <1>0, <1>8, TailFacts DEF PumpReads
  <2> QED BY <1>0, <1>3, <1>8, <2>1 DEF PumpReads
<1>9. CASE PumpFails
      BY <1>0, <1>9 DEF PumpFails
<1>10. CASE PumpPushes
  <2>1. pump.msg \in Message
        BY <1>4, <1>10 DEF PumpPushes
  <2>2. toPython' \in Seq(Message) /\ Len(toPython') <= Capacity
        BY <1>0, <1>10, <2>1, AppendFacts DEF PumpPushes
  <2> QED BY <1>0, <1>10, <2>2 DEF PumpPushes
<1>11. CASE PumpTakes
  <2>1. Tail(toRust) \in Seq(Message) /\ Len(Tail(toRust)) <= Capacity /\ Head(toRust) \in Message
        BY <1>0, <1>11, TailFacts DEF PumpTakes
  <2> QED BY <1>0, <1>3, <1>11, <2>1 DEF PumpTakes
<1>12. CASE PumpWrites
  <2>1. pump.msg \in Message
        BY <1>4, <1>12 DEF PumpWrites
  <2>2. delivered' \in Seq(Message)
        BY <1>0, <1>12, <2>1, AppendFacts DEF PumpWrites
  <2> QED BY <1>0, <1>12, <2>2 DEF PumpWrites
<1> QED BY <1>5, <1>6, <1>7, <1>8, <1>9, <1>10, <1>11, <1>12 DEF Client, Pump

\* The end of the connection keeps the types, and so does a handler that returns.
LEMMA EndTypes == QueueInv /\ (Connection \/ HandlerFinishes) => QueueInv'
  BY DEF QueueInv, TypeOK, Connection, HandlerFinishes, SelectEnds, MarkDisconnected,
         ConnectionReturns, pumpVars, taskVars, wireVars

\* The calls of the application keep the types: a call that begins joins one
\* queue, and a call that completes leaves the only queue it is in.
LEMMA CallTypes ==
    ASSUME QueueInv, NEW t \in Tasks,
           \/ Completes(t) \/ StartReceive(t)
           \/ \E op \in Calls[t] : StartSend(t, op)
    PROVE  QueueInv'
<1> USE WebSocketAssumption DEF wireVars, connVars, pumpVars
<1>0. /\ toPython \in Seq(Message) /\ Len(toPython) <= Capacity
      /\ toRust \in Seq(Message) /\ Len(toRust) <= Capacity
      /\ call \in [Tasks -> Call]
      /\ sendQueue \in Seq(Tasks) /\ recvQueue \in Seq(Tasks)
      /\ ToSet(sendQueue) = {u \in Tasks : call[u].op = "send"}
      /\ ToSet(recvQueue) = {u \in Tasks : call[u].op = "receive"}
      /\ accepted \in Seq(Message) /\ taken \in Seq(Message)
      /\ NoRepetition(sendQueue) /\ NoRepetition(recvQueue)
      BY DEF QueueInv, TypeOK, Call
<1>1. /\ pump' = pump /\ delivered' = delivered /\ wireIn' = wireIn /\ unread' = unread
      /\ peer' = peer /\ frames' = frames /\ connVars' = connVars
      BY DEF Completes, SendSucceeds, SendFails, ReceiveTakes, ReceiveFails, StartReceive, StartSend
<1> DEFINE Goal ==
              /\ toPython' \in Seq(Message) /\ Len(toPython') <= Capacity
              /\ toRust' \in Seq(Message) /\ Len(toRust') <= Capacity
              /\ call' \in [Tasks -> Call]
              /\ sendQueue' \in Seq(Tasks) /\ recvQueue' \in Seq(Tasks)
              /\ ToSet(sendQueue') = {u \in Tasks : call'[u].op = "send"}
              /\ ToSet(recvQueue') = {u \in Tasks : call'[u].op = "receive"}
              /\ accepted' \in Seq(Message) /\ taken' \in Seq(Message)
              /\ NoRepetition(sendQueue') /\ NoRepetition(recvQueue')
<1>2. SUFFICES Goal
      BY <1>1 DEF QueueInv, TypeOK, Call
<1>3. Idle \in Call /\ [op |-> "receive"] \in Call /\ Idle.op = "idle"
      BY DEF Call, Idle
<1>4. CASE SendSucceeds(t)
  <2>1. t \in ToSet(sendQueue) /\ call[t].op = "send" /\ call[t].msg \in Message
        BY <1>0, <1>4, DequeueHead, CallFacts DEF SendSucceeds
  <2>2. call' \in [Tasks -> Call] /\ call'[t].op = "idle" /\ \A u \in Tasks \ {t} : call'[u] = call[u]
        BY <1>0, <1>3, <1>4 DEF SendSucceeds
  <2>3. /\ sendQueue' \in Seq(Tasks) /\ NoRepetition(sendQueue')
        /\ ToSet(sendQueue') = ToSet(sendQueue) \ {t}
        BY <1>0, <1>4, DequeueHead DEF SendSucceeds
  <2>4. /\ toRust' \in Seq(Message) /\ Len(toRust') <= Capacity /\ accepted' \in Seq(Message)
        BY <1>0, <1>4, <2>1, AppendFacts DEF SendSucceeds
  <2>5. toPython' = toPython /\ recvQueue' = recvQueue /\ taken' = taken
        BY <1>4 DEF SendSucceeds
  <2> QED BY <1>0, <2>1, <2>2, <2>3, <2>4, <2>5
<1>5. CASE SendFails(t)
  <2>1. PICK k \in 1 .. Len(sendQueue) : sendQueue[k] = t /\ sendQueue' = RemoveAt(sendQueue, k)
        BY <1>0, <1>5 DEF SendFails
  <2>2. call' \in [Tasks -> Call] /\ call'[t].op = "idle" /\ \A u \in Tasks \ {t} : call'[u] = call[u]
        BY <1>0, <1>3, <1>5 DEF SendFails
  <2>3. /\ sendQueue' \in Seq(Tasks) /\ NoRepetition(sendQueue')
        /\ ToSet(sendQueue') = ToSet(sendQueue) \ {t}
        BY <1>0, <2>1, Dequeue
  <2>4. /\ toPython' = toPython /\ recvQueue' = recvQueue /\ taken' = taken
        /\ toRust' = toRust /\ accepted' = accepted /\ call[t].op = "send"
        BY <1>5 DEF SendFails
  <2> QED BY <1>0, <2>2, <2>3, <2>4
<1>6. CASE ReceiveTakes(t)
  <2>1. t \in ToSet(recvQueue) /\ call[t].op = "receive"
        BY <1>0, <1>6, DequeueHead DEF ReceiveTakes
  <2>2. call' \in [Tasks -> Call] /\ call'[t].op = "idle" /\ \A u \in Tasks \ {t} : call'[u] = call[u]
        BY <1>0, <1>3, <1>6 DEF ReceiveTakes
  <2>3. /\ recvQueue' \in Seq(Tasks) /\ NoRepetition(recvQueue')
        /\ ToSet(recvQueue') = ToSet(recvQueue) \ {t}
        BY <1>0, <1>6, DequeueHead DEF ReceiveTakes
  <2>4. /\ toPython' \in Seq(Message) /\ Len(toPython') <= Capacity /\ taken' \in Seq(Message)
        BY <1>0, <1>6, TailFacts, AppendFacts DEF ReceiveTakes
  <2>5. toRust' = toRust /\ sendQueue' = sendQueue /\ accepted' = accepted
        BY <1>6 DEF ReceiveTakes
  <2> QED BY <1>0, <2>1, <2>2, <2>3, <2>4, <2>5
<1>7. CASE ReceiveFails(t)
  <2>1. t \in ToSet(recvQueue) /\ call[t].op = "receive"
        BY <1>0, <1>7, DequeueHead DEF ReceiveFails
  <2>2. call' \in [Tasks -> Call] /\ call'[t].op = "idle" /\ \A u \in Tasks \ {t} : call'[u] = call[u]
        BY <1>0, <1>3, <1>7 DEF ReceiveFails
  <2>3. /\ recvQueue' \in Seq(Tasks) /\ NoRepetition(recvQueue')
        /\ ToSet(recvQueue') = ToSet(recvQueue) \ {t}
        BY <1>0, <1>7, DequeueHead DEF ReceiveFails
  <2>4. /\ toPython' = toPython /\ toRust' = toRust /\ sendQueue' = sendQueue
        /\ accepted' = accepted /\ taken' = taken
        BY <1>7 DEF ReceiveFails
  <2> QED BY <1>0, <2>1, <2>2, <2>3, <2>4
<1>8. CASE StartReceive(t)
  <2>1. call[t].op = "idle"
        BY <1>3, <1>8 DEF StartReceive, MayCall
  <2>2. call' \in [Tasks -> Call] /\ call'[t].op = "receive" /\ \A u \in Tasks \ {t} : call'[u] = call[u]
        BY <1>0, <1>3, <1>8 DEF StartReceive
  <2>3. /\ recvQueue' \in Seq(Tasks) /\ NoRepetition(recvQueue')
        /\ ToSet(recvQueue') = ToSet(recvQueue) \union {t}
        BY <1>0, <1>8, <2>1, Enqueue DEF StartReceive
  <2>4. /\ toPython' = toPython /\ toRust' = toRust /\ sendQueue' = sendQueue
        /\ accepted' = accepted /\ taken' = taken
        BY <1>8 DEF StartReceive
  <2>5. \A u \in Tasks : /\ call'[u].op = "send" <=> call[u].op = "send"
                         /\ call'[u].op = "receive" <=> call[u].op = "receive" \/ u = t
        BY <2>1, <2>2
  <2>6. ToSet(sendQueue') = {u \in Tasks : call'[u].op = "send"}
        BY <1>0, <2>4, <2>5
  <2>7. ToSet(recvQueue') = {u \in Tasks : call'[u].op = "receive"}
        BY <1>0, <2>3, <2>5
  <2> QED BY <1>0, <2>2, <2>3, <2>4, <2>6, <2>7
<1>9. ASSUME NEW op \in Calls[t], StartSend(t, op) PROVE Goal
  <2> DEFINE m == [kind |-> IF op = "close" THEN "close" ELSE "data", id |-> Started + 1]
  <2>1. call[t].op = "idle"
        BY <1>3, <1>9 DEF StartSend, MayCall
  <2>2. m \in Message
    <3>1. Started \in Nat /\ Started < MaxSends
          BY <1>9, StartedType DEF StartSend, QueueInv
    <3> QED BY <3>1 DEF Message
  <2>3. [op |-> "send", msg |-> m] \in Call
        BY <2>2 DEF Call
  <2>4. call' = [call EXCEPT ![t] = [op |-> "send", msg |-> m]]
        BY <1>9 DEF StartSend
  <2> HIDE DEF m
  <2>5. call' \in [Tasks -> Call] /\ call'[t].op = "send" /\ \A u \in Tasks \ {t} : call'[u] = call[u]
        BY <1>0, <2>3, <2>4
  <2>6. /\ sendQueue' \in Seq(Tasks) /\ NoRepetition(sendQueue')
        /\ ToSet(sendQueue') = ToSet(sendQueue) \union {t}
        BY <1>0, <1>9, <2>1, Enqueue DEF StartSend
  <2>7. /\ toPython' = toPython /\ toRust' = toRust /\ recvQueue' = recvQueue
        /\ accepted' = accepted /\ taken' = taken
        BY <1>9 DEF StartSend
  <2>8. \A u \in Tasks : /\ call'[u].op = "receive" <=> call[u].op = "receive"
                         /\ call'[u].op = "send" <=> call[u].op = "send" \/ u = t
        BY <2>1, <2>5
  <2>9. ToSet(sendQueue') = {u \in Tasks : call'[u].op = "send"}
        BY <1>0, <2>6, <2>8
  <2>10. ToSet(recvQueue') = {u \in Tasks : call'[u].op = "receive"}
        BY <1>0, <2>7, <2>8
  <2> QED BY <1>0, <2>5, <2>6, <2>7, <2>9, <2>10
<1> QED BY <1>4, <1>5, <1>6, <1>7, <1>8, <1>9 DEF Completes

\* Every step keeps the types.
LEMMA NextTypes == QueueInv /\ [Next]_vars => QueueInv'
<1> SUFFICES ASSUME QueueInv, [Next]_vars PROVE QueueInv'
    OBVIOUS
<1>1. CASE Client \/ Pump
      BY <1>1, WireTypes
<1>2. CASE Connection \/ HandlerFinishes
      BY <1>2, EndTypes
<1>3. ASSUME NEW t \in Tasks,
             \/ Completes(t) \/ StartReceive(t)
             \/ \E op \in Calls[t] : StartSend(t, op)
      PROVE  QueueInv'
      BY <1>3, CallTypes
<1>4. CASE UNCHANGED vars
      BY <1>4 DEF QueueInv, TypeOK, vars, pumpVars, taskVars, wireVars, connVars
<1> QED BY <1>1, <1>2, <1>3, <1>4 DEF Next, Application

\* Every variable has its type in every state: the two channels never hold more
\* than their capacity, and a task that waits for room or for the lock has its
\* place in the queue, and nobody else has.
THEOREM TypeInvariance == Spec => []TypeOK
<1>1. Spec => []QueueInv
      BY InitTypes, NextTypes, PTL DEF Spec
<1>2. QueueInv => TypeOK
      BY DEF QueueInv
<1> QED BY <1>1, <1>2, PTL

-----------------------------------------------------------------------------
(* A close message is the last one.                                        *)

IsClose(m) == m.kind = "close"

\* Nothing follows a close frame of the client in the socket, nor while the pump
\* pushes it, nor in the channel to the application, nor in what is received;
\* and nothing follows a close message the pump has written.
WireEnds == \A i \in 1 .. Len(wireIn) : IsClose(wireIn[i]) => i = Len(wireIn) /\ peer # "open"
PushEnds == pump.at = "push" /\ IsClose(pump.msg) => wireIn = <<>> /\ peer # "open"
InboundEnds == \A i \in 1 .. Len(toPython) :
                  IsClose(toPython[i]) => i = Len(toPython) /\ pump = Done
TakenEnds == \A i \in 1 .. Len(taken) :
                IsClose(taken[i]) => i = Len(taken) /\ toPython = <<>> /\ pump = Done
DeliveredEnds == \A i \in 1 .. Len(delivered) :
                    IsClose(delivered[i]) => i = Len(delivered) /\ pump = Done

CloseInv == WireEnds /\ PushEnds /\ InboundEnds /\ TakenEnds /\ DeliveredEnds

\* A sequence without elements is the empty one.
LEMMA NoneLeft == \A s \in Seq(Message) : Len(s) = 0 => s = <<>>
  OBVIOUS

\* The pump has finished, or holds something, or waits: one of them.
LEMMA PumpFacts ==
    /\ Done.at = "done" /\ Select.at = "select" /\ Select # Done
    /\ \A m, where : /\ Holding(where, m).at = where /\ Holding(where, m).msg = m
                     /\ where # "done" => Holding(where, m) # Done
<1>1. Done.at = "done" /\ Select.at = "select"
      BY DEF Done, Select
<1>2. ASSUME NEW m, NEW where
      PROVE  Holding(where, m).at = where /\ Holding(where, m).msg = m
      BY DEF Holding
<1> QED BY <1>1, <1>2

\* Every step keeps a close message last.
LEMMA NextClose == QueueInv /\ CloseInv /\ [Next]_vars => CloseInv'
<1> SUFFICES ASSUME QueueInv, CloseInv, [Next]_vars PROVE CloseInv'
    OBVIOUS
<1>0. /\ wireIn \in Seq(Message) /\ toPython \in Seq(Message)
      /\ taken \in Seq(Message) /\ delivered \in Seq(Message)
      BY DEF QueueInv, TypeOK
<1>1. /\ WireEnds /\ PushEnds /\ InboundEnds /\ TakenEnds /\ DeliveredEnds
      BY DEF CloseInv
<1>2. ASSUME UNCHANGED <<pump, toPython, taken, delivered, wireIn, peer>> PROVE CloseInv'
      BY <1>1, <1>2 DEF CloseInv, WireEnds, PushEnds, InboundEnds, TakenEnds, DeliveredEnds
<1>3. ASSUME NEW k \in ClientKinds, ClientSends(k) PROVE CloseInv'
  <2> DEFINE m == [kind |-> k, id |-> frames + 1]
  <2>1. /\ peer = "open" /\ wireIn' = Append(wireIn, m)
        /\ peer' = IF IsClose(m) THEN "closing" ELSE peer
        /\ UNCHANGED <<pump, toPython, taken, delivered>>
        BY <1>3 DEF ClientSends, IsClose, pumpVars, taskVars
  <2>2. m \in Message
    <3>1. frames + 1 \in 1 .. MaxFrames + MaxSends
          BY <1>3, WebSocketAssumption DEF ClientSends, QueueInv, TypeOK
    <3> QED BY <3>1, WebSocketAssumption DEF Message
  <2> HIDE DEF m
  <2>3. /\ Len(wireIn) \in Nat /\ Len(wireIn') = Len(wireIn) + 1
        /\ \A i \in 1 .. Len(wireIn) : wireIn'[i] = wireIn[i]
        /\ wireIn'[Len(wireIn) + 1] = m
        BY <1>0, <2>1, <2>2, AppendFacts
  <2>4. \A i \in 1 .. Len(wireIn) : ~IsClose(wireIn[i])
        BY <1>1, <2>1 DEF WireEnds
  <2>5. WireEnds'
        BY <2>1, <2>3, <2>4 DEF WireEnds, IsClose
  <2>6. PushEnds'
        BY <1>1, <2>1 DEF PushEnds
  <2>7. InboundEnds' /\ TakenEnds' /\ DeliveredEnds'
        BY <1>1, <2>1 DEF InboundEnds, TakenEnds, DeliveredEnds
  <2> QED BY <2>5, <2>6, <2>7 DEF CloseInv
<1>4. CASE ClientVanishes
  <2>1. peer' = "gone" /\ UNCHANGED <<pump, toPython, taken, delivered, wireIn>>
        BY <1>4 DEF ClientVanishes, pumpVars, taskVars
  <2> QED BY <1>1, <2>1 DEF CloseInv, WireEnds, PushEnds, InboundEnds, TakenEnds, DeliveredEnds
<1>5. CASE PumpReads
  <2>1. /\ pump = Select /\ wireIn # <<>> /\ wireIn' = Tail(wireIn)
        /\ pump' = IF Head(wireIn).kind = "ping" THEN Holding("write", Head(wireIn))
                   ELSE Holding("push", Head(wireIn))
        /\ UNCHANGED <<toPython, taken, delivered, peer>>
        BY <1>5 DEF PumpReads, taskVars
  <2>2. /\ Head(wireIn) = wireIn[1] /\ 1 \in 1 .. Len(wireIn) /\ Len(wireIn) \in Nat
        /\ wireIn' \in Seq(Message) /\ Len(wireIn') = Len(wireIn) - 1
        /\ \A i \in 1 .. Len(wireIn) - 1 : wireIn'[i] = wireIn[i + 1]
        BY <1>0, <2>1, TailFacts
  <2>3. WireEnds'
    <3> SUFFICES ASSUME NEW i \in 1 .. Len(wireIn'), IsClose(wireIn'[i])
                 PROVE  i = Len(wireIn') /\ peer' # "open"
        BY DEF WireEnds
    <3>1. i + 1 \in 1 .. Len(wireIn) /\ IsClose(wireIn[i + 1])
          BY <2>2
    <3>2. i + 1 = Len(wireIn) /\ peer # "open"
          BY <1>1, <3>1 DEF WireEnds
    <3>3. i = Len(wireIn')
          BY <2>2, <3>2
    <3>4. peer' # "open"
          BY <2>1, <3>2
    <3> QED BY <3>3, <3>4
  <2>4. PushEnds'
    <3> SUFFICES ASSUME pump'.at = "push", IsClose(pump'.msg)
                 PROVE  wireIn' = <<>> /\ peer' # "open"
        BY DEF PushEnds
    <3>1. IsClose(wireIn[1])
          BY <2>1, <2>2, PumpFacts
    <3>2. Len(wireIn) = 1 /\ peer # "open"
          BY <1>1, <2>2, <3>1 DEF WireEnds
    <3>3. wireIn' = <<>>
          BY <2>2, <3>2, NoneLeft
    <3> QED BY <2>1, <3>2, <3>3
  <2>5. pump # Done
        BY <2>1, PumpFacts
  <2>6. InboundEnds' /\ TakenEnds' /\ DeliveredEnds'
        BY <1>1, <2>1, <2>5 DEF InboundEnds, TakenEnds, DeliveredEnds
  <2> QED BY <2>3, <2>4, <2>6 DEF CloseInv
<1>6. CASE PumpFails
  <2>1. pump' = Done /\ UNCHANGED <<toPython, taken, delivered, wireIn, peer>>
        BY <1>6 DEF PumpFails, taskVars, wireVars
  <2>2. PushEnds'
        BY <2>1, PumpFacts DEF PushEnds
  <2>3. WireEnds' /\ InboundEnds' /\ TakenEnds' /\ DeliveredEnds'
        BY <1>1, <2>1 DEF WireEnds, InboundEnds, TakenEnds, DeliveredEnds
  <2> QED BY <2>2, <2>3 DEF CloseInv
<1>7. CASE PumpPushes
  <2>1. /\ pump # Done /\ pump.at = "push" /\ toPython' = Append(toPython, pump.msg)
        /\ pump' = IF IsClose(pump.msg) THEN Done ELSE Select
        /\ UNCHANGED <<taken, delivered, wireIn, peer>>
        BY <1>7 DEF PumpPushes, Pumping, IsClose, taskVars, wireVars
  <2>2. pump.msg \in Message
        BY <2>1, PumpFacts DEF QueueInv, TypeOK
  <2>3. /\ Len(toPython) \in Nat /\ Len(toPython') = Len(toPython) + 1
        /\ \A i \in 1 .. Len(toPython) : toPython'[i] = toPython[i]
        /\ toPython'[Len(toPython) + 1] = pump.msg
        BY <1>0, <2>1, <2>2, AppendFacts
  <2>4. /\ \A i \in 1 .. Len(toPython) : ~IsClose(toPython[i])
        /\ \A i \in 1 .. Len(taken) : ~IsClose(taken[i])
        /\ \A i \in 1 .. Len(delivered) : ~IsClose(delivered[i])
        BY <1>1, <2>1 DEF InboundEnds, TakenEnds, DeliveredEnds
  <2>5. InboundEnds'
        BY <2>1, <2>3, <2>4 DEF InboundEnds
  <2>6. PushEnds'
        BY <2>1, PumpFacts DEF PushEnds
  <2>7. WireEnds' /\ TakenEnds' /\ DeliveredEnds'
        BY <1>1, <2>1, <2>4 DEF WireEnds, TakenEnds, DeliveredEnds
  <2> QED BY <2>5, <2>6, <2>7 DEF CloseInv
<1>8. CASE PumpTakes
  <2>1. /\ pump = Select /\ pump' = Holding("write", Head(toRust))
        /\ UNCHANGED <<toPython, taken, delivered, wireIn, peer>>
        BY <1>8 DEF PumpTakes, taskVars, wireVars
  <2>2. pump # Done /\ pump'.at = "write"
        BY <2>1, PumpFacts
  <2>3. PushEnds'
        BY <2>2 DEF PushEnds
  <2>4. WireEnds' /\ InboundEnds' /\ TakenEnds' /\ DeliveredEnds'
        BY <1>1, <2>1, <2>2 DEF WireEnds, InboundEnds, TakenEnds, DeliveredEnds
  <2> QED BY <2>3, <2>4 DEF CloseInv
<1>9. CASE PumpWrites
  <2>1. /\ pump # Done /\ pump.at = "write"
        /\ pump' = IF IsClose(pump.msg) THEN Done ELSE Select
        /\ delivered' = IF pump.msg.kind = "ping" THEN delivered
                        ELSE Append(delivered, pump.msg)
        /\ UNCHANGED <<toPython, taken, wireIn, peer>>
        BY <1>9 DEF PumpWrites, Pumping, IsClose, taskVars
  <2>2. pump.msg \in Message
        BY <2>1, PumpFacts DEF QueueInv, TypeOK
  <2>3. /\ \A i \in 1 .. Len(toPython) : ~IsClose(toPython[i])
        /\ \A i \in 1 .. Len(taken) : ~IsClose(taken[i])
        /\ \A i \in 1 .. Len(delivered) : ~IsClose(delivered[i])
        BY <1>1, <2>1 DEF InboundEnds, TakenEnds, DeliveredEnds
  <2>4. DeliveredEnds'
    <3>1. CASE pump.msg.kind = "ping"
          BY <2>1, <2>3, <3>1 DEF DeliveredEnds
    <3>2. CASE pump.msg.kind # "ping"
      <4>1. /\ Len(delivered) \in Nat /\ Len(delivered') = Len(delivered) + 1
            /\ \A i \in 1 .. Len(delivered) : delivered'[i] = delivered[i]
            /\ delivered'[Len(delivered) + 1] = pump.msg
            BY <1>0, <2>1, <2>2, <3>2, AppendFacts
      <4> QED BY <2>1, <2>3, <4>1 DEF DeliveredEnds
    <3> QED BY <3>1, <3>2
  <2>5. PushEnds'
        BY <2>1, PumpFacts DEF PushEnds
  <2>6. WireEnds' /\ InboundEnds' /\ TakenEnds'
        BY <1>1, <2>1, <2>3 DEF WireEnds, InboundEnds, TakenEnds
  <2> QED BY <2>4, <2>5, <2>6 DEF CloseInv
<1>10. ASSUME NEW t \in Tasks, ReceiveTakes(t) PROVE CloseInv'
  <2>1. /\ toPython # <<>> /\ toPython' = Tail(toPython)
        /\ taken' = Append(taken, Head(toPython))
        /\ UNCHANGED <<pump, delivered, wireIn, peer>>
        BY <1>10 DEF ReceiveTakes, wireVars
  <2>2. /\ Head(toPython) = toPython[1] /\ 1 \in 1 .. Len(toPython) /\ Len(toPython) \in Nat
        /\ Head(toPython) \in Message
        /\ toPython' \in Seq(Message) /\ Len(toPython') = Len(toPython) - 1
        /\ \A i \in 1 .. Len(toPython) - 1 : toPython'[i] = toPython[i + 1]
        BY <1>0, <2>1, TailFacts
  <2>3. /\ Len(taken) \in Nat /\ Len(taken') = Len(taken) + 1
        /\ \A i \in 1 .. Len(taken) : taken'[i] = taken[i]
        /\ taken'[Len(taken) + 1] = toPython[1]
        BY <1>0, <2>1, <2>2, AppendFacts
  <2>4. \A i \in 1 .. Len(taken) : ~IsClose(taken[i])
        BY <1>1, <2>1 DEF TakenEnds
  <2>5. InboundEnds'
    <3> SUFFICES ASSUME NEW i \in 1 .. Len(toPython'), IsClose(toPython'[i])
                 PROVE  i = Len(toPython') /\ pump' = Done
        BY DEF InboundEnds
    <3>1. i + 1 \in 1 .. Len(toPython) /\ IsClose(toPython[i + 1])
          BY <2>2
    <3>2. i + 1 = Len(toPython) /\ pump = Done
          BY <1>1, <3>1 DEF InboundEnds
    <3>3. i = Len(toPython')
          BY <2>2, <3>2
    <3>4. pump' = Done
          BY <2>1, <3>2
    <3> QED BY <3>3, <3>4
  <2>6. TakenEnds'
    <3> SUFFICES ASSUME NEW i \in 1 .. Len(taken'), IsClose(taken'[i])
                 PROVE  i = Len(taken') /\ toPython' = <<>> /\ pump' = Done
        BY DEF TakenEnds
    <3>1. i = Len(taken) + 1 /\ IsClose(toPython[1])
          BY <2>3, <2>4
    <3>2. Len(toPython) = 1 /\ pump = Done
          BY <1>1, <2>2, <3>1 DEF InboundEnds
    <3>3. toPython' = <<>>
          BY <2>2, <3>2, NoneLeft
    <3> QED BY <2>1, <2>3, <3>1, <3>2, <3>3
  <2>7. WireEnds' /\ PushEnds' /\ DeliveredEnds'
        BY <1>1, <2>1 DEF WireEnds, PushEnds, DeliveredEnds
  <2> QED BY <2>5, <2>6, <2>7 DEF CloseInv
<1>11. CASE ClientReads \/ Connection \/ HandlerFinishes \/ UNCHANGED vars
  <2>1. UNCHANGED <<pump, toPython, taken, delivered, wireIn, peer>>
        BY <1>11 DEF ClientReads, Connection, HandlerFinishes, SelectEnds, MarkDisconnected,
           ConnectionReturns, vars, pumpVars, taskVars, wireVars
  <2> QED BY <1>2, <2>1
<1>12. ASSUME NEW t \in Tasks,
              \/ SendSucceeds(t) \/ SendFails(t) \/ ReceiveFails(t) \/ StartReceive(t)
              \/ \E op \in Calls[t] : StartSend(t, op)
       PROVE  CloseInv'
  <2>1. UNCHANGED <<pump, toPython, taken, delivered, wireIn, peer>>
        BY <1>12 DEF SendSucceeds, SendFails, ReceiveFails, StartReceive, StartSend,
           pumpVars, wireVars
  <2> QED BY <1>2, <2>1
<1> QED BY <1>3, <1>4, <1>5, <1>6, <1>7, <1>8, <1>9, <1>10, <1>11, <1>12
        DEF Next, Client, Pump, Application, Completes

\* No message, no close message.
LEMMA InitClose == Init => CloseInv
<1>1. Select.at # "push"
      BY PumpFacts
<1> QED BY <1>1 DEF Init, CloseInv, WireEnds, PushEnds, InboundEnds, TakenEnds, DeliveredEnds

\* However many tasks go on sending, and whatever the client had sent, nothing
\* comes after a close message: not to the client, and not to the application.
THEOREM CloseInvariance == Spec => []CloseIsLast
<1>1. Spec => [](QueueInv /\ CloseInv)
  <2>1. Init => QueueInv /\ CloseInv
        BY InitClose, InitTypes
  <2>2. QueueInv /\ CloseInv /\ [Next]_vars => (QueueInv /\ CloseInv)'
        BY NextTypes, NextClose
  <2> QED BY <2>1, <2>2, PTL DEF Spec
<1>2. QueueInv /\ CloseInv => CloseIsLast
  <2> SUFFICES ASSUME QueueInv, CloseInv, NEW s \in {taken, delivered}, NEW i \in DOMAIN s,
                      s[i].kind = "close"
               PROVE  i = Len(s)
      BY DEF CloseIsLast
  <2>1. taken \in Seq(Message) /\ delivered \in Seq(Message)
        BY DEF QueueInv, TypeOK
  <2>2. i \in 1 .. Len(s)
        BY <2>1
  <2> QED BY <2>2 DEF CloseInv, TakenEnds, DeliveredEnds, IsClose
<1> QED BY <1>1, <1>2, PTL

-----------------------------------------------------------------------------
(* What the client is sent.                                                *)

\* The message of the application that the pump is writing, if it is writing one.
InHand == IF pump.at = "write" /\ pump.msg.kind # "ping" THEN 1 ELSE 0

\* The application sends no pings: what is not one is a message of its own.
NoPings ==
    /\ \A i \in 1 .. Len(toRust) : toRust[i].kind # "ping"
    /\ \A t \in Tasks : call[t].op = "send" => call[t].msg.kind # "ping"

\* While the pump runs, what was accepted is what was delivered, then what the
\* pump has in hand, then what the channel holds.
Accounted ==
    Pumping =>
        /\ Len(accepted) = Len(delivered) + InHand + Len(toRust)
        /\ InHand = 1 => accepted[Len(delivered) + 1] = pump.msg
        /\ \A i \in 1 .. Len(toRust) : accepted[Len(delivered) + InHand + i] = toRust[i]

OrderInv == NoPings /\ Accounted /\ DeliveredIsAcceptedPrefix

\* Every step keeps the stream to the client in order.
LEMMA NextOrder == QueueInv /\ OrderInv /\ [Next]_vars => OrderInv'
<1> SUFFICES ASSUME QueueInv, OrderInv, [Next]_vars PROVE OrderInv'
    OBVIOUS
<1>0. /\ toRust \in Seq(Message) /\ accepted \in Seq(Message) /\ delivered \in Seq(Message)
      /\ call \in [Tasks -> Call]
      /\ Len(toRust) \in Nat /\ Len(accepted) \in Nat /\ Len(delivered) \in Nat
      /\ InHand \in {0, 1}
      BY DEF QueueInv, TypeOK, Call, InHand
<1>1. NoPings /\ Accounted /\ DeliveredIsAcceptedPrefix
      BY DEF OrderInv
<1>2. Len(delivered) <= Len(accepted) /\ \A i \in 1 .. Len(delivered) : delivered[i] = accepted[i]
      BY <1>1 DEF DeliveredIsAcceptedPrefix
<1>3. ASSUME UNCHANGED <<toRust, accepted, delivered, call>>,
             UNCHANGED <<pump, conn>> \/ ~Pumping'
      PROVE  OrderInv'
  <2>1. NoPings' /\ DeliveredIsAcceptedPrefix'
        BY <1>1, <1>3 DEF NoPings, DeliveredIsAcceptedPrefix
  <2>2. Accounted'
        BY <1>1, <1>3 DEF Accounted, InHand, Pumping
  <2> QED BY <2>1, <2>2 DEF OrderInv
<1>4. ASSUME UNCHANGED <<toRust, accepted, delivered, pump, conn>>,
             \A t \in Tasks : call'[t].op = "send" => call'[t].msg.kind # "ping"
      PROVE  OrderInv'
  <2>1. NoPings' /\ DeliveredIsAcceptedPrefix'
        BY <1>1, <1>4 DEF NoPings, DeliveredIsAcceptedPrefix
  <2>2. Accounted'
        BY <1>1, <1>4 DEF Accounted, InHand, Pumping
  <2> QED BY <2>1, <2>2 DEF OrderInv
<1>5. ASSUME UNCHANGED <<toRust, accepted, delivered, call, conn>>, InHand' = InHand,
             InHand = 0, Pumping
      PROVE  OrderInv'
  <2>1. NoPings' /\ DeliveredIsAcceptedPrefix'
        BY <1>1, <1>5 DEF NoPings, DeliveredIsAcceptedPrefix
  <2>2. Accounted'
        BY <1>1, <1>5 DEF Accounted
  <2> QED BY <2>1, <2>2 DEF OrderInv
<1>6. CASE PumpReads
  <2>1. /\ Pumping /\ pump = Select
        /\ UNCHANGED <<toRust, accepted, delivered, call, conn>>
        /\ pump' = IF Head(wireIn).kind = "ping" THEN Holding("write", Head(wireIn))
                   ELSE Holding("push", Head(wireIn))
        BY <1>6 DEF PumpReads, taskVars, connVars
  <2>2. InHand = 0 /\ InHand' = 0
        BY <2>1, PumpFacts DEF InHand
  <2> QED BY <1>5, <2>1, <2>2
<1>7. CASE PumpFails
  <2>1. UNCHANGED <<toRust, accepted, delivered, call>> /\ pump' = Done
        BY <1>7 DEF PumpFails, taskVars
  <2> QED BY <1>3, <2>1 DEF Pumping
<1>8. CASE PumpPushes
  <2>1. /\ Pumping /\ pump.at = "push"
        /\ UNCHANGED <<toRust, accepted, delivered, call, conn>>
        /\ pump' = IF pump.msg.kind = "close" THEN Done ELSE Select
        BY <1>8 DEF PumpPushes, taskVars, connVars
  <2>2. InHand = 0 /\ InHand' = 0
        BY <2>1, PumpFacts DEF InHand
  <2> QED BY <1>5, <2>1, <2>2
<1>9. CASE PumpTakes
  <2>1. /\ Pumping /\ pump = Select /\ toRust # <<>> /\ toRust' = Tail(toRust)
        /\ pump' = Holding("write", Head(toRust))
        /\ UNCHANGED <<accepted, delivered, call, conn>>
        BY <1>9 DEF PumpTakes, taskVars, connVars
  <2>2. /\ Head(toRust) = toRust[1] /\ 1 \in 1 .. Len(toRust)
        /\ Len(toRust') = Len(toRust) - 1
        /\ \A i \in 1 .. Len(toRust) - 1 : toRust'[i] = toRust[i + 1]
        BY <1>0, <2>1, TailFacts
  <2>3. InHand = 0 /\ InHand' = 1 /\ pump'.msg = toRust[1]
        BY <1>1, <2>1, <2>2, PumpFacts DEF InHand, NoPings
  <2>4. /\ Len(accepted) = Len(delivered) + Len(toRust)
        /\ \A i \in 1 .. Len(toRust) : accepted[Len(delivered) + i] = toRust[i]
        BY <1>0, <1>1, <2>1, <2>3 DEF Accounted
  <2>5. Accounted'
    <3>1. Len(accepted') = Len(delivered') + InHand' + Len(toRust')
          BY <1>0, <2>1, <2>2, <2>3, <2>4
    <3>2. accepted'[Len(delivered') + 1] = pump'.msg
          BY <2>1, <2>2, <2>3, <2>4
    <3>3. ASSUME NEW i \in 1 .. Len(toRust')
          PROVE  accepted'[Len(delivered') + InHand' + i] = toRust'[i]
      <4>1. i + 1 \in 1 .. Len(toRust) /\ toRust'[i] = toRust[i + 1]
            BY <1>0, <2>2
      <4>2. Len(delivered') + InHand' + i = Len(delivered) + (i + 1)
            BY <1>0, <2>1, <2>2, <2>3
      <4> QED BY <2>1, <2>4, <4>1, <4>2
    <3> QED BY <3>1, <3>2, <3>3 DEF Accounted
  <2>6. \A i \in 1 .. Len(toRust') : toRust'[i].kind # "ping"
    <3> TAKE i \in 1 .. Len(toRust')
    <3>1. i + 1 \in 1 .. Len(toRust) /\ toRust'[i] = toRust[i + 1]
          BY <1>0, <2>2
    <3> QED BY <1>1, <3>1 DEF NoPings
  <2>7. NoPings' /\ DeliveredIsAcceptedPrefix'
        BY <1>1, <2>1, <2>6 DEF NoPings, DeliveredIsAcceptedPrefix
  <2> QED BY <2>5, <2>7 DEF OrderInv
<1>10. CASE PumpWrites
  <2>1. /\ Pumping /\ pump.at = "write"
        /\ pump' = IF pump.msg.kind = "close" THEN Done ELSE Select
        /\ delivered' = IF pump.msg.kind = "ping" THEN delivered
                        ELSE Append(delivered, pump.msg)
        /\ UNCHANGED <<toRust, accepted, call, conn>>
        BY <1>10 DEF PumpWrites, taskVars, connVars
  <2>2. InHand' = 0
        BY <2>1, PumpFacts DEF InHand
  <2>3. CASE pump.msg.kind = "ping"
    <3>1. InHand = 0 /\ UNCHANGED <<toRust, accepted, delivered, call, conn>>
          BY <2>1, <2>3 DEF InHand
    <3> QED BY <1>5, <2>1, <2>2, <3>1
  <2>4. CASE pump.msg.kind # "ping"
    <3>1. InHand = 1 /\ pump.msg \in Message
          BY <2>1, <2>4, PumpFacts DEF InHand, QueueInv, TypeOK
    <3>2. /\ Len(delivered') = Len(delivered) + 1
          /\ \A i \in 1 .. Len(delivered) : delivered'[i] = delivered[i]
          /\ delivered'[Len(delivered) + 1] = pump.msg
          BY <1>0, <2>1, <2>4, <3>1, AppendFacts
    <3>3. /\ Len(accepted) = Len(delivered) + 1 + Len(toRust)
          /\ accepted[Len(delivered) + 1] = pump.msg
          /\ \A i \in 1 .. Len(toRust) : accepted[Len(delivered) + 1 + i] = toRust[i]
          BY <1>1, <2>1, <3>1 DEF Accounted
    <3>4. Accounted'
      <4>1. Len(accepted') = Len(delivered') + InHand' + Len(toRust')
            BY <1>0, <2>1, <2>2, <3>2, <3>3
      <4>2. ASSUME NEW i \in 1 .. Len(toRust')
            PROVE  accepted'[Len(delivered') + InHand' + i] = toRust'[i]
        <5>1. Len(delivered') + InHand' + i = Len(delivered) + 1 + i
              BY <1>0, <2>2, <3>2
        <5> QED BY <2>1, <3>3, <5>1
      <4> QED BY <2>2, <4>1, <4>2 DEF Accounted
    <3>5. DeliveredIsAcceptedPrefix'
      <4>1. Len(delivered') <= Len(accepted)
            BY <1>0, <3>2, <3>3
      <4>2. ASSUME NEW i \in 1 .. Len(delivered') PROVE delivered'[i] = accepted[i]
        <5>1. i \in 1 .. Len(delivered) \/ i = Len(delivered) + 1
              BY <1>0, <3>2
        <5> QED BY <1>2, <3>2, <3>3, <5>1
      <4> QED BY <2>1, <4>1, <4>2 DEF DeliveredIsAcceptedPrefix
    <3>6. NoPings'
          BY <1>1, <2>1 DEF NoPings
    <3> QED BY <3>4, <3>5, <3>6 DEF OrderInv
  <2> QED BY <2>3, <2>4
<1>11. ASSUME NEW t \in Tasks, SendSucceeds(t) PROVE OrderInv'
  <2> DEFINE m == call[t].msg
  <2>1. /\ toRust' = Append(toRust, m) /\ accepted' = Append(accepted, m)
        /\ call' = [call EXCEPT ![t] = Idle]
        /\ sendQueue # <<>> /\ Head(sendQueue) = t
        /\ UNCHANGED <<pump, delivered, conn>>
        BY <1>11 DEF SendSucceeds, connVars
  <2>2. call[t].op = "send"
    <3>1. t \in ToSet(sendQueue)
          BY <2>1, DequeueHead DEF QueueInv, TypeOK
    <3> QED BY <3>1 DEF QueueInv, TypeOK
  <2>3. m \in Message /\ m.kind # "ping"
        BY <1>0, <1>1, <2>2, CallFacts DEF NoPings
  <2> HIDE DEF m
  <2>4. /\ Len(toRust') = Len(toRust) + 1 /\ toRust'[Len(toRust) + 1] = m
        /\ \A i \in 1 .. Len(toRust) : toRust'[i] = toRust[i]
        BY <1>0, <2>1, <2>3, AppendFacts
  <2>5. /\ Len(accepted') = Len(accepted) + 1 /\ accepted'[Len(accepted) + 1] = m
        /\ \A i \in 1 .. Len(accepted) : accepted'[i] = accepted[i]
        BY <1>0, <2>1, <2>3, AppendFacts
  <2>6. InHand' = InHand /\ (Pumping' <=> Pumping)
        BY <2>1 DEF InHand, Pumping
  <2>7. Accounted'
    <3> SUFFICES ASSUME Pumping
                 PROVE  /\ Len(accepted') = Len(delivered) + InHand + Len(toRust')
                        /\ InHand = 1 => accepted'[Len(delivered) + 1] = pump.msg
                        /\ \A i \in 1 .. Len(toRust') :
                              accepted'[Len(delivered) + InHand + i] = toRust'[i]
        BY <2>1, <2>6 DEF Accounted
    <3>1. /\ Len(accepted) = Len(delivered) + InHand + Len(toRust)
          /\ InHand = 1 => accepted[Len(delivered) + 1] = pump.msg
          /\ \A i \in 1 .. Len(toRust) : accepted[Len(delivered) + InHand + i] = toRust[i]
          BY <1>1 DEF Accounted
    <3>2. Len(accepted') = Len(delivered) + InHand + Len(toRust')
          BY <1>0, <2>4, <2>5, <3>1
    <3>3. ASSUME InHand = 1 PROVE accepted'[Len(delivered) + 1] = pump.msg
      <4>1. Len(delivered) + 1 \in 1 .. Len(accepted)
            BY <1>0, <3>1, <3>3
      <4> QED BY <2>5, <3>1, <3>3, <4>1
    <3>4. ASSUME NEW i \in 1 .. Len(toRust')
          PROVE  accepted'[Len(delivered) + InHand + i] = toRust'[i]
      <4>1. CASE i \in 1 .. Len(toRust)
        <5>1. Len(delivered) + InHand + i \in 1 .. Len(accepted)
              BY <1>0, <3>1, <4>1
        <5> QED BY <2>4, <2>5, <3>1, <4>1, <5>1
      <4>2. CASE i = Len(toRust) + 1
        <5>1. Len(delivered) + InHand + i = Len(accepted) + 1
              BY <1>0, <3>1, <4>2
        <5> QED BY <2>4, <2>5, <4>2, <5>1
      <4>3. i \in 1 .. Len(toRust) \/ i = Len(toRust) + 1
            BY <1>0, <2>4
      <4> QED BY <4>1, <4>2, <4>3
    <3> QED BY <3>2, <3>3, <3>4
  <2>8. DeliveredIsAcceptedPrefix'
    <3>1. Len(delivered) <= Len(accepted')
          BY <1>0, <1>2, <2>5
    <3>2. ASSUME NEW i \in 1 .. Len(delivered) PROVE delivered[i] = accepted'[i]
      <4>1. i \in 1 .. Len(accepted)
            BY <1>0, <1>2
      <4> QED BY <1>2, <2>5, <4>1
    <3> QED BY <2>1, <3>1, <3>2 DEF DeliveredIsAcceptedPrefix
  <2>9. NoPings'
    <3>1. ASSUME NEW i \in 1 .. Len(toRust') PROVE toRust'[i].kind # "ping"
      <4>1. i \in 1 .. Len(toRust) \/ i = Len(toRust) + 1
            BY <1>0, <2>4
      <4> QED BY <1>1, <2>3, <2>4, <4>1 DEF NoPings
    <3>2. ASSUME NEW u \in Tasks, call'[u].op = "send" PROVE call'[u].msg.kind # "ping"
      <4>1. u # t /\ call'[u] = call[u]
            BY <1>0, <2>1, <3>2 DEF Idle
      <4> QED BY <1>1, <3>2, <4>1 DEF NoPings
    <3> QED BY <3>1, <3>2 DEF NoPings
  <2> QED BY <2>7, <2>8, <2>9 DEF OrderInv
<1>12. ASSUME NEW t \in Tasks,
              SendFails(t) \/ ReceiveTakes(t) \/ ReceiveFails(t) \/ StartReceive(t)
       PROVE  OrderInv'
  <2>1. /\ UNCHANGED <<toRust, accepted, delivered, pump, conn>>
        /\ \/ call' = [call EXCEPT ![t] = Idle]
           \/ call' = [call EXCEPT ![t] = [op |-> "receive"]]
        BY <1>12 DEF SendFails, ReceiveTakes, ReceiveFails, StartReceive, pumpVars, connVars
  <2>2. ASSUME NEW u \in Tasks, call'[u].op = "send" PROVE call'[u].msg.kind # "ping"
    <3>1. u # t /\ call'[u] = call[u]
          BY <1>0, <2>1, <2>2 DEF Idle
    <3> QED BY <1>1, <2>2, <3>1 DEF NoPings
  <2> QED BY <1>4, <2>1, <2>2
<1>13. ASSUME NEW t \in Tasks, NEW op \in Calls[t], StartSend(t, op) PROVE OrderInv'
  <2> DEFINE m == [kind |-> IF op = "close" THEN "close" ELSE "data", id |-> Started + 1]
  <2>1. /\ UNCHANGED <<toRust, accepted, delivered, pump, conn>>
        /\ call' = [call EXCEPT ![t] = [op |-> "send", msg |-> m]]
        BY <1>13 DEF StartSend, pumpVars, connVars
  <2>2. m.kind # "ping"
        OBVIOUS
  <2> HIDE DEF m
  <2>3. ASSUME NEW u \in Tasks, call'[u].op = "send" PROVE call'[u].msg.kind # "ping"
    <3>1. CASE u = t
          BY <1>0, <2>1, <2>2, <3>1
    <3>2. CASE u # t
          BY <1>0, <1>1, <2>1, <2>3, <3>2 DEF NoPings
    <3> QED BY <3>1, <3>2
  <2> QED BY <1>4, <2>1, <2>3
<1>14. CASE Client \/ HandlerFinishes \/ UNCHANGED vars
  <2>1. UNCHANGED <<toRust, accepted, delivered, call, pump, conn>>
        BY <1>14 DEF Client, ClientReads, ClientVanishes, ClientSends, HandlerFinishes,
           vars, pumpVars, taskVars, connVars
  <2> QED BY <1>3, <2>1
<1>15. CASE Connection
  <2>1. /\ UNCHANGED <<toRust, accepted, delivered, call, pump>>
        /\ conn' = conn \/ conn' # "select"
        BY <1>15 DEF Connection, SelectEnds, MarkDisconnected, ConnectionReturns,
           pumpVars, taskVars
  <2> QED BY <1>3, <2>1 DEF Pumping
<1> QED BY <1>6, <1>7, <1>8, <1>9, <1>10, <1>11, <1>12, <1>13, <1>14, <1>15
        DEF Next, Pump, Application, Completes

\* Nothing accepted, nothing delivered.
LEMMA InitOrder == Init => OrderInv
<1> SUFFICES ASSUME Init PROVE OrderInv
    OBVIOUS
<1>1. Len(accepted) = 0 /\ Len(delivered) = 0 /\ Len(toRust) = 0
      BY DEF Init
<1>2. InHand = 0
      BY PumpFacts DEF Init, InHand
<1>3. NoPings
      BY <1>1 DEF Init, NoPings, Idle
<1>4. Accounted /\ DeliveredIsAcceptedPrefix
      BY <1>1, <1>2 DEF Accounted, DeliveredIsAcceptedPrefix
<1> QED BY <1>3, <1>4 DEF OrderInv

\* Through both queues, the message in the pump's hand and every way the
\* connection ends, the client is sent the messages that send and close accepted,
\* in the order they accepted them and from the first on, and nothing else.
THEOREM DeliveryInOrder == Spec => []DeliveredIsAcceptedPrefix
<1>1. Spec => [](QueueInv /\ OrderInv)
  <2>1. Init => QueueInv /\ OrderInv
        BY InitOrder, InitTypes
  <2>2. QueueInv /\ OrderInv /\ [Next]_vars => (QueueInv /\ OrderInv)'
        BY NextTypes, NextOrder
  <2> QED BY <2>1, <2>2, PTL DEF Spec
<1>2. QueueInv /\ OrderInv => DeliveredIsAcceptedPrefix
      BY DEF OrderInv
<1> QED BY <1>1, <1>2, PTL
-----------------------------------------------------------------------------
(* The two directions as FIFO channels: the steps of Duplex.               *)

\* What is not a ping of the client.
Messages == {m \in Message : m.kind # "ping"}

\* The pump pushes no ping to the application.
PushesNoPing == pump.at = "push" => pump.msg.kind # "ping"

ChannelInv == QueueInv /\ CloseInv /\ OrderInv /\ PushesNoPing

\* Concatenations are bracketed to the right.
LEMMA Brackets ==
    ASSUME NEW S, NEW p \in Seq(S), NEW q \in Seq(S), NEW e \in S
    PROVE  /\ <<>> \o p = p /\ p \o <<>> = p /\ p \o q \in Seq(S)
           /\ <<e>> \in Seq(S)
           /\ Append(p, e) = p \o <<e>>
           /\ p \o Append(q, e) = Append(p \o q, e)
           /\ Head(<<e>> \o q) = e /\ Tail(<<e>> \o q) = q /\ <<e>> \o q # <<>>
<1>1. <<>> \o p = p /\ p \o <<>> = p
      BY ConcatEmptySeq
<1>2. p \o q \in Seq(S)
      BY ConcatProperties
<1>3. Append(p, e) = p \o <<e>>
      BY AppendIsConcat
<1>4. p \o Append(q, e) = Append(p \o q, e)
      BY GluedAppend DEF Glued
<1>5. Head(<<e>> \o q) = e /\ Tail(<<e>> \o q) = q /\ <<e>> \o q # <<>>
  <2> DEFINE r == <<e>> \o q
  <2>1. <<e>> \in Seq(S) /\ Len(<<e>>) = 1 /\ <<e>>[1] = e
        OBVIOUS
  <2>2. /\ r \in Seq(S) /\ Len(r) = 1 + Len(q) /\ Len(q) \in Nat
        /\ \A i \in 1 .. 1 + Len(q) : r[i] = IF i <= 1 THEN <<e>>[i] ELSE q[i - 1]
        BY <2>1, ConcatProperties
  <2> HIDE DEF r
  <2>3. r[1] = e
        BY <2>1, <2>2
  <2>4. r # <<>>
        BY <2>2
  <2>5. Head(r) = e
        BY <2>2, <2>3, <2>4
  <2>6. /\ Tail(r) \in Seq(S) /\ Len(Tail(r)) = Len(r) - 1
        /\ \A i \in 1 .. Len(Tail(r)) : Tail(r)[i] = r[i + 1]
        BY <2>2, <2>4, HeadTailProperties
  <2>7. \A i \in 1 .. Len(Tail(r)) : Tail(r)[i] = q[i]
        BY <2>2, <2>6
  <2>8. Tail(r) = q
        BY <2>2, <2>6, <2>7, SeqEqual
  <2> QED BY <2>4, <2>5, <2>8 DEF r
<1> QED BY <1>1, <1>2, <1>3, <1>4, <1>5

\* A message between two sequences goes with either.
LEMMA Regroup ==
    ASSUME NEW p \in Seq(Message), NEW m \in Message, NEW r \in Seq(Message)
    PROVE  (p \o <<m>>) \o r = p \o (<<m>> \o r)
<1> DEFINE one == <<m>>
<1>1. one \in Seq(Message)
      OBVIOUS
<1> HIDE DEF one
<1>2. (p \o one) \o r = p \o (one \o r)
      BY <1>1, ConcatAssociative
<1> QED BY <1>2 DEF one

\* The first message stays first.
LEMMA RegroupFirst ==
    ASSUME NEW m \in Message, NEW q \in Seq(Message), NEW r \in Seq(Message)
    PROVE  (<<m>> \o q) \o r = <<m>> \o (q \o r)
<1> DEFINE one == <<m>>
<1>1. one \in Seq(Message)
      OBVIOUS
<1> HIDE DEF one
<1>2. (one \o q) \o r = one \o (q \o r)
      BY <1>1, ConcatAssociative
<1> QED BY <1>2 DEF one

\* What is taken out of the front of a sequence and put back.
LEMMA Split == ASSUME NEW S, NEW s \in Seq(S), s # <<>> PROVE s = <<Head(s)>> \o Tail(s)
<1>1. /\ Tail(s) \in Seq(S) /\ Len(Tail(s)) = Len(s) - 1 /\ Len(s) \in Nat
      /\ Head(s) = s[1] /\ Head(s) \in S
      /\ \A i \in 1 .. Len(s) - 1 : Tail(s)[i] = s[i + 1]
      BY TailFacts
<1> DEFINE r == <<Head(s)>> \o Tail(s)
<1>2. <<Head(s)>> \in Seq(S) /\ Len(<<Head(s)>>) = 1 /\ <<Head(s)>>[1] = Head(s)
      BY <1>1
<1>3. /\ r \in Seq(S) /\ Len(r) = 1 + Len(Tail(s))
      /\ \A i \in 1 .. 1 + Len(Tail(s)) :
            r[i] = IF i <= 1 THEN <<Head(s)>>[i] ELSE Tail(s)[i - 1]
      BY <1>1, <1>2, ConcatProperties
<1> HIDE DEF r
<1>4. ASSUME NEW i \in 1 .. Len(s) PROVE s[i] = r[i]
  <2>1. CASE i = 1
        BY <1>1, <1>2, <1>3, <2>1
  <2>2. CASE i # 1
    <3>1. i - 1 \in 1 .. Len(s) - 1 /\ (i - 1) + 1 = i
          BY <1>1, <2>2
    <3> QED BY <1>1, <1>3, <3>1
  <2> QED BY <2>1, <2>2
<1>5. Len(s) = Len(r)
      BY <1>1, <1>3
<1>6. s = r
      BY <1>3, <1>4, <1>5, SeqEqual
<1> QED BY <1>6 DEF r

\* What comes first is a prefix.
LEMMA PrefixFacts ==
    ASSUME NEW S, NEW p \in Seq(S), NEW q \in Seq(S)
    PROVE  p \in Prefixes(p \o q) /\ p \in Prefixes(p)
<1>1. ASSUME NEW r \in Seq(S), Len(p) <= Len(r), \A i \in 1 .. Len(p) : p[i] = r[i]
      PROVE  p \in Prefixes(r)
  <2>1. Len(p) \in 0 .. Len(r) /\ \A i \in 1 .. Len(p) : r[i] \in S
        BY <1>1
  <2>2. /\ SubSeq(r, 1, Len(p)) \in Seq(S) /\ Len(SubSeq(r, 1, Len(p))) = Len(p)
        /\ \A i \in 1 .. Len(p) : SubSeq(r, 1, Len(p))[i] = r[i]
        BY <2>1, SubSeqProperties
  <2>3. p = SubSeq(r, 1, Len(p))
        BY <1>1, <2>2, SeqEqual
  <2> QED BY <2>1, <2>3 DEF Prefixes
<1>2. /\ p \o q \in Seq(S) /\ Len(p \o q) = Len(p) + Len(q) /\ Len(p) \in Nat /\ Len(q) \in Nat
      /\ \A i \in 1 .. Len(p) + Len(q) : (p \o q)[i] = IF i <= Len(p) THEN p[i] ELSE q[i - Len(p)]
      BY ConcatProperties
<1>3. \A i \in 1 .. Len(p) : (p \o q)[i] = p[i]
      BY <1>2
<1>4. Len(p) <= Len(p \o q) /\ p \o q \in Seq(S)
      BY <1>2
<1>5. p \in Prefixes(p \o q)
      BY <1>1, <1>3, <1>4
<1>6. p \in Prefixes(p)
      BY <1>1, <1>2
<1> QED BY <1>5, <1>6

\* Data of what has one message more at either end.
LEMMA DataFacts ==
    /\ Data(<<>>) = <<>>
    /\ \A s \in Seq(Message) : Data(s) \in Seq(Message)
    /\ \A m \in Message : Data(<<m>>) = IF m.kind = "ping" THEN <<>> ELSE <<m>>
    /\ \A s \in Seq(Message) : \A m \in Message :
          Data(Append(s, m)) = IF m.kind = "ping" THEN Data(s) ELSE Append(Data(s), m)
    /\ \A s \in Seq(Message) : s # <<>> =>
          Data(s) = IF Head(s).kind = "ping" THEN Data(Tail(s)) ELSE <<Head(s)>> \o Data(Tail(s))
<1>1. Data(<<>>) = <<>>
      BY OnlyEmpty DEF Data
<1>2. \A s \in Seq(Message) : Data(s) \in Seq(Message)
      BY OnlyType DEF Data
<1>3. \A s \in Seq(Message) : \A m \in Message :
         Data(Append(s, m)) = IF m.kind = "ping" THEN Data(s) ELSE Append(Data(s), m)
  <2> TAKE s \in Seq(Message)
  <2> TAKE m \in Message
  <2>1. Only(Append(s, m), Messages) = IF m \in Messages THEN Append(Only(s, Messages), m)
                                       ELSE Only(s, Messages)
        BY OnlyAppend
  <2>2. m \in Messages <=> m.kind # "ping"
        BY DEF Messages
  <2> QED BY <2>1, <2>2 DEF Data, Messages
<1>4. ASSUME NEW m \in Message PROVE Data(<<m>>) = IF m.kind = "ping" THEN <<>> ELSE <<m>>
  <2>1. <<>> \in Seq(Message) /\ Append(<<>>, m) = <<m>>
        OBVIOUS
  <2>2. Data(Append(<<>>, m)) = IF m.kind = "ping" THEN <<>> ELSE Append(<<>>, m)
        BY <1>1, <1>3, <2>1
  <2> QED BY <2>1, <2>2
<1>5. \A s \in Seq(Message) : s # <<>> =>
         Data(s) = IF Head(s).kind = "ping" THEN Data(Tail(s)) ELSE <<Head(s)>> \o Data(Tail(s))
  <2> SUFFICES ASSUME NEW s \in Seq(Message), s # <<>>
               PROVE  Data(s) = IF Head(s).kind = "ping" THEN Data(Tail(s))
                                ELSE <<Head(s)>> \o Data(Tail(s))
      OBVIOUS
  <2>1. Only(s, Messages) = IF Head(s) \in Messages THEN <<Head(s)>> \o Only(Tail(s), Messages)
                            ELSE Only(Tail(s), Messages)
        BY OnlyTail
  <2>2. Head(s) \in Messages <=> Head(s).kind # "ping"
        BY TailFacts DEF Messages
  <2> QED BY <2>1, <2>2 DEF Data, Messages
<1> QED BY <1>1, <1>2, <1>3, <1>4, <1>5

\* What is in flight while the pump runs, and after it.
LEMMA Flight ==
    ASSUME QueueInv
    PROVE  /\ Pumping => /\ Inbound = (toPython \o Held("push")) \o Data(wireIn)
                         /\ Outbound = Held("write") \o toRust
           /\ ~Pumping => Inbound = toPython /\ Outbound = <<>>
           /\ \A where : pump.at # where => Held(where) = <<>>
           /\ \A where \in {"push", "write"} : pump.at = where =>
                 /\ pump.msg \in Message
                 /\ Held(where) = IF pump.msg.kind = "ping" THEN <<>> ELSE <<pump.msg>>
           /\ \A where \in {"push", "write"} : Held(where) \in Seq(Message)
           /\ Data(wireIn) \in Seq(Message)
           /\ Inbound \in Seq(Message)
<1>1. \A where \in {"push", "write"} : pump.at = where =>
         /\ pump.msg \in Message
         /\ Held(where) = IF pump.msg.kind = "ping" THEN <<>> ELSE <<pump.msg>>
  <2> SUFFICES ASSUME NEW where \in {"push", "write"}, pump.at = where
               PROVE  /\ pump.msg \in Message
                      /\ Held(where) = IF pump.msg.kind = "ping" THEN <<>> ELSE <<pump.msg>>
      OBVIOUS
  <2>1. pump.msg \in Message
        BY PumpFacts DEF QueueInv, TypeOK
  <2>2. Data(<<pump.msg>>) = IF pump.msg.kind = "ping" THEN <<>> ELSE <<pump.msg>>
        BY <2>1, DataFacts
  <2> QED BY <2>1, <2>2 DEF Held
<1>2. \A where : pump.at # where => Held(where) = <<>>
      BY DEF Held
<1>3. \A where \in {"push", "write"} : Held(where) \in Seq(Message)
  <2> SUFFICES ASSUME NEW where \in {"push", "write"} PROVE Held(where) \in Seq(Message)
      OBVIOUS
  <2>1. CASE pump.at = where
    <3>1. pump.msg \in Message /\ Held(where) = IF pump.msg.kind = "ping" THEN <<>> ELSE <<pump.msg>>
          BY <1>1, <2>1
    <3>2. <<pump.msg>> \in Seq(Message)
          BY <3>1
    <3> QED BY <3>1, <3>2
  <2>2. CASE pump.at # where
    <3>1. Held(where) = <<>>
          BY <1>2, <2>2
    <3>2. <<>> \in Seq(Message)
          OBVIOUS
    <3> QED BY <3>1, <3>2
  <2> QED BY <2>1, <2>2
<1>4. Data(wireIn) \in Seq(Message)
      BY DataFacts DEF QueueInv, TypeOK
<1>5. toPython \in Seq(Message)
      BY DEF QueueInv, TypeOK
<1>6. Inbound \in Seq(Message)
  <2>1. Held("push") \in Seq(Message)
        BY <1>3
  <2>2. (toPython \o Held("push")) \o Data(wireIn) \in Seq(Message)
        BY <1>4, <1>5, <2>1, ConcatProperties
  <2> QED BY <1>5, <2>2 DEF Inbound
<1> QED BY <1>1, <1>2, <1>3, <1>4, <1>6 DEF Inbound, Outbound

\* What a step within the channel leaves alone.
Same == UNCHANGED <<Inbound, Outbound, taken, delivered, Pumping>>

LEMMA SameFlight ==
    ASSUME UNCHANGED <<toPython, toRust, pump, conn, wireIn>>
    PROVE  Inbound' = Inbound /\ Outbound' = Outbound /\ Pumping' = Pumping
  BY DEF Inbound, Outbound, Pumping, Held

\* The client puts a message into the channel; a ping is none, and what it sends
\* to a pump that has ended is never read.
LEMMA SendsChannel ==
    ASSUME QueueInv, QueueInv', NEW k \in ClientKinds, ClientSends(k)
    PROVE  Same \/ \E m \in Message : Abstract!PutUp(m)
<1> DEFINE m == [kind |-> k, id |-> frames + 1]
<1>1. /\ wireIn' = Append(wireIn, m)
      /\ UNCHANGED <<toPython, toRust, pump, conn, delivered, taken>>
      BY DEF ClientSends, pumpVars, taskVars, connVars
<1>2. m \in Message /\ wireIn \in Seq(Message) /\ toPython \in Seq(Message)
  <2>1. frames + 1 \in 1 .. MaxFrames + MaxSends
        BY WebSocketAssumption DEF ClientSends, QueueInv, TypeOK
  <2> QED BY <2>1, WebSocketAssumption DEF Message, QueueInv, TypeOK
<1> HIDE DEF m
<1>3. Held("push")' = Held("push") /\ Held("write")' = Held("write") /\ Pumping' = Pumping
      BY <1>1 DEF Held, Pumping
<1>4. Outbound' = Outbound
      BY <1>1, <1>3 DEF Outbound
<1>5. CASE ~Pumping
      BY <1>1, <1>3, <1>4, <1>5 DEF Inbound, Same
<1>6. CASE Pumping
  <2>1. Data(wireIn') = IF m.kind = "ping" THEN Data(wireIn) ELSE Append(Data(wireIn), m)
        BY <1>1, <1>2, DataFacts
  <2>2. /\ Inbound = (toPython \o Held("push")) \o Data(wireIn)
        /\ Held("push") \in Seq(Message) /\ Data(wireIn) \in Seq(Message)
        BY <1>6, Flight
  <2>3. Inbound' = (toPython \o Held("push")) \o Data(wireIn')
        BY <1>1, <1>3, <1>6 DEF Inbound
  <2>4. CASE m.kind = "ping"
        BY <1>1, <1>3, <1>4, <2>1, <2>2, <2>3, <2>4 DEF Same
  <2>5. CASE m.kind # "ping"
    <3>1. toPython \o Held("push") \in Seq(Message)
          BY <1>2, <2>2, ConcatProperties
    <3>2. (toPython \o Held("push")) \o Append(Data(wireIn), m)
             = Append((toPython \o Held("push")) \o Data(wireIn), m)
          BY <1>2, <2>2, <3>1, Brackets
    <3>3. Inbound' = Append(Inbound, m)
          BY <2>1, <2>2, <2>3, <2>5, <3>2
    <3>4. Abstract!PutUp(m)
          BY <1>1, <1>3, <1>4, <1>6, <3>3 DEF Abstract!PutUp
    <3> QED BY <1>2, <3>4
  <2> QED BY <2>4, <2>5
<1> QED BY <1>5, <1>6

\* Within the pump a message moves on inside the channel.
LEMMA ReadsChannel == ASSUME QueueInv, PumpReads PROVE Same
<1> DEFINE m == Head(wireIn)
<1>1. /\ Pumping /\ pump = Select /\ wireIn # <<>> /\ wireIn' = Tail(wireIn)
      /\ pump' = IF m.kind = "ping" THEN Holding("write", m) ELSE Holding("push", m)
      /\ UNCHANGED <<toPython, toRust, conn, delivered, taken>>
      BY DEF PumpReads, taskVars, connVars
<1>2. /\ toPython \in Seq(Message) /\ wireIn \in Seq(Message) /\ toRust \in Seq(Message)
      /\ m \in Message /\ wireIn' \in Seq(Message)
  <2>1. toPython \in Seq(Message) /\ wireIn \in Seq(Message) /\ toRust \in Seq(Message)
        BY DEF QueueInv, TypeOK
  <2> QED BY <1>1, <2>1, TailFacts
<1> HIDE DEF m
<1>3. Pumping'
  <2>1. pump' # Done
        BY <1>1, PumpFacts
  <2> QED BY <1>1, <2>1 DEF Pumping
<1>4. /\ Inbound = (toPython \o <<>>) \o Data(wireIn) /\ Outbound = <<>> \o toRust
      /\ Data(wireIn) \in Seq(Message)
  <2>1. Held("push") = <<>> /\ Held("write") = <<>>
        BY <1>1, PumpFacts DEF Held
  <2> QED BY <1>1, <2>1, Flight
<1>5. /\ Inbound' = (toPython \o Held("push")') \o Data(wireIn')
      /\ Outbound' = Held("write")' \o toRust
      BY <1>1, <1>3 DEF Inbound, Outbound
<1>6. Data(wireIn) = IF m.kind = "ping" THEN Data(wireIn') ELSE <<m>> \o Data(wireIn')
      BY <1>1, <1>2, DataFacts DEF m
<1>7. Data(<<m>>) = IF m.kind = "ping" THEN <<>> ELSE <<m>>
      BY <1>2, DataFacts
<1>8. CASE m.kind = "ping"
  <2>1. pump'.at = "write" /\ pump'.msg = m
        BY <1>1, <1>8, PumpFacts
  <2>2. Held("push")' = <<>> /\ Held("write")' = <<>>
        BY <1>7, <1>8, <2>1 DEF Held
  <2> QED BY <1>1, <1>3, <1>4, <1>5, <1>6, <1>8, <2>2 DEF Same
<1>9. CASE m.kind # "ping"
  <2>1. pump'.at = "push" /\ pump'.msg = m
        BY <1>1, <1>9, PumpFacts
  <2>2. Held("push")' = <<m>> /\ Held("write")' = <<>>
        BY <1>7, <1>9, <2>1 DEF Held
  <2>3. <<m>> \in Seq(Message) /\ Data(wireIn') \in Seq(Message) /\ <<>> \in Seq(Message)
        BY <1>2, DataFacts
  <2>4. (toPython \o <<m>>) \o Data(wireIn') = toPython \o (<<m>> \o Data(wireIn'))
        BY <1>2, <2>3, Regroup
  <2>5. toPython \o <<>> = toPython
        BY <1>2, ConcatEmptySeq
  <2>6. Inbound' = Inbound
        BY <1>4, <1>5, <1>6, <1>9, <2>2, <2>4, <2>5
  <2> QED BY <1>1, <1>3, <1>4, <1>5, <2>2, <2>6 DEF Same
<1> QED BY <1>8, <1>9

LEMMA TakesChannel == ASSUME QueueInv, NoPings, PumpTakes PROVE Same
<1> DEFINE m == Head(toRust)
<1>1. /\ Pumping /\ pump = Select /\ toRust # <<>> /\ toRust' = Tail(toRust)
      /\ pump' = Holding("write", m)
      /\ UNCHANGED <<toPython, wireIn, conn, delivered, taken>>
      BY DEF PumpTakes, taskVars, connVars, wireVars
<1>2. toPython \in Seq(Message) /\ toRust \in Seq(Message)
      BY DEF QueueInv, TypeOK
<1>3. m \in Message /\ m.kind # "ping" /\ toRust = <<m>> \o Tail(toRust)
      BY <1>1, <1>2, TailFacts, Split DEF NoPings
<1> HIDE DEF m
<1>4. Pumping' /\ pump'.at = "write" /\ pump'.msg = m
  <2>1. pump'.at = "write" /\ pump'.msg = m /\ pump' # Done
        BY <1>1, PumpFacts
  <2> QED BY <1>1, <2>1 DEF Pumping
<1>5. Held("push") = <<>> /\ Held("write") = <<>>
      BY <1>1, PumpFacts DEF Held
<1>6. Held("push")' = <<>> /\ Held("write")' = <<m>>
      BY <1>3, <1>4, DataFacts DEF Held
<1>7. Inbound' = Inbound
      BY <1>1, <1>4, <1>5, <1>6 DEF Inbound
<1>8. Outbound = <<>> \o toRust /\ Outbound' = <<m>> \o Tail(toRust)
      BY <1>1, <1>4, <1>5, <1>6 DEF Outbound
<1>9. <<>> \o toRust = toRust
      BY <1>2, ConcatEmptySeq
<1> QED BY <1>1, <1>3, <1>4, <1>7, <1>8, <1>9 DEF Same

\* However the pump ends, what it held and what waits in the socket and in the
\* queue to the client is lost, and nothing in front of it.
LEMMA CutsChannel ==
    ASSUME QueueInv, Pumping, ~Pumping', UNCHANGED <<toPython, delivered, taken>>
    PROVE  Abstract!Cut
<1>1. /\ Inbound = (toPython \o Held("push")) \o Data(wireIn)
      /\ Held("push") \in Seq(Message) /\ Data(wireIn) \in Seq(Message)
      BY Flight
<1>2. toPython \in Seq(Message)
      BY DEF QueueInv, TypeOK
<1>3. Held("push") \o Data(wireIn) \in Seq(Message)
      BY <1>1, ConcatProperties
<1>4. Inbound = toPython \o (Held("push") \o Data(wireIn))
      BY <1>1, <1>2, ConcatAssociative
<1>5. Inbound' = toPython /\ Outbound' = <<>>
      BY DEF Inbound, Outbound
<1>6. Inbound' \in Prefixes(Inbound)
      BY <1>2, <1>3, <1>4, <1>5, PrefixFacts
<1>7. Inbound' \in Abstract!Prefixes(Inbound)
      BY <1>6 DEF Prefixes, Abstract!Prefixes
<1>8. Pumping' = FALSE
      BY DEF Pumping
<1> QED BY <1>5, <1>7, <1>8 DEF Abstract!Cut

\* A message reaches the queue of the application: it was in the channel before,
\* and when it is a close message nothing was behind it.
LEMMA PushesChannel ==
    ASSUME QueueInv, CloseInv, PushesNoPing, PumpPushes
    PROVE  Same \/ Abstract!Cut
<1> DEFINE m == pump.msg
<1>1. /\ Pumping /\ pump.at = "push" /\ toPython' = Append(toPython, m)
      /\ pump' = IF m.kind = "close" THEN Done ELSE Select
      /\ UNCHANGED <<toRust, wireIn, conn, delivered, taken>>
      BY DEF PumpPushes, taskVars, connVars, wireVars
<1>2. /\ toPython \in Seq(Message) /\ toRust \in Seq(Message)
      /\ m \in Message /\ Held("push") = <<m>> /\ Held("write") = <<>>
      /\ Data(wireIn) \in Seq(Message)
      /\ Inbound = (toPython \o Held("push")) \o Data(wireIn)
      /\ Outbound = Held("write") \o toRust
  <2>1. m.kind # "ping"
        BY <1>1 DEF PushesNoPing
  <2>2. toPython \in Seq(Message) /\ toRust \in Seq(Message)
        BY DEF QueueInv, TypeOK
  <2>3. Held("write") = <<>>
        BY <1>1 DEF Held
  <2> QED BY <1>1, <2>1, <2>2, <2>3, Flight
<1>3. m.kind = "close" => wireIn = <<>>
      BY <1>1 DEF CloseInv, PushEnds, IsClose
<1> HIDE DEF m
<1>4. toPython' = toPython \o <<m>> /\ toPython' \in Seq(Message)
      BY <1>1, <1>2, AppendFacts, Brackets
<1>5. Inbound = toPython' \o Data(wireIn) /\ Outbound = toRust
      BY <1>2, <1>4, ConcatEmptySeq
<1>6. CASE m.kind = "close"
  <2>1. pump' = Done /\ ~Pumping' /\ Pumping
        BY <1>1, <1>6 DEF Pumping
  <2>2. Inbound' = toPython' /\ Outbound' = <<>>
        BY <2>1 DEF Inbound, Outbound
  <2>3. toPython' \in Prefixes(Inbound)
        BY <1>2, <1>4, <1>5, PrefixFacts
  <2>4. Inbound' \in Abstract!Prefixes(Inbound)
        BY <2>2, <2>3 DEF Prefixes, Abstract!Prefixes
  <2>5. Pumping' = FALSE
        BY <2>1 DEF Pumping
  <2> QED BY <1>1, <2>1, <2>2, <2>4, <2>5 DEF Abstract!Cut
<1>7. CASE m.kind # "close"
  <2>1. pump' = Select
        BY <1>1, <1>7
  <2>2. Pumping' /\ Pumping' = Pumping
        BY <1>1, <2>1, PumpFacts DEF Pumping
  <2>3. Held("push")' = <<>> /\ Held("write")' = <<>>
        BY <2>1, PumpFacts DEF Held
  <2>4. Inbound' = (toPython' \o <<>>) \o Data(wireIn) /\ Outbound' = <<>> \o toRust
        BY <1>1, <2>2, <2>3 DEF Inbound, Outbound
  <2>5. Inbound' = Inbound /\ Outbound' = Outbound
        BY <1>2, <1>4, <1>5, <2>4, ConcatEmptySeq
  <2> QED BY <1>1, <2>2, <2>5 DEF Same
<1> QED BY <1>6, <1>7

\* A message is written to the client: the first in the channel, or a pong.
LEMMA WritesChannel ==
    ASSUME QueueInv, PumpWrites
    PROVE  Same \/ Abstract!GiveDown \/ Abstract!Cut
<1> DEFINE m == pump.msg
<1>1. /\ Pumping /\ pump.at = "write"
      /\ delivered' = IF m.kind = "ping" THEN delivered ELSE Append(delivered, m)
      /\ pump' = IF m.kind = "close" THEN Done ELSE Select
      /\ UNCHANGED <<toPython, toRust, wireIn, conn, taken>>
      BY DEF PumpWrites, taskVars, connVars
<1>2. /\ toPython \in Seq(Message) /\ toRust \in Seq(Message)
      /\ m \in Message /\ Data(wireIn) \in Seq(Message)
      /\ Held("push") = <<>>
      /\ Held("write") = IF m.kind = "ping" THEN <<>> ELSE <<m>>
      /\ Inbound = (toPython \o Held("push")) \o Data(wireIn)
      /\ Outbound = Held("write") \o toRust
  <2>1. toPython \in Seq(Message) /\ toRust \in Seq(Message)
        BY DEF QueueInv, TypeOK
  <2>2. Held("push") = <<>>
        BY <1>1 DEF Held
  <2> QED BY <1>1, <2>1, <2>2, Flight
<1> HIDE DEF m
<1>3. <<>> \o toRust = toRust /\ toPython \o <<>> = toPython
      BY <1>2, ConcatEmptySeq
<1>4. ASSUME pump' = Select
      PROVE  /\ Inbound' = Inbound /\ Outbound' = toRust
             /\ Pumping' = Pumping /\ Pumping'
  <2>1. Pumping' /\ Pumping' = Pumping
        BY <1>1, <1>4, PumpFacts DEF Pumping
  <2>2. Held("push")' = <<>> /\ Held("write")' = <<>>
        BY <1>4, PumpFacts DEF Held
  <2>3. Inbound' = (toPython \o <<>>) \o Data(wireIn) /\ Outbound' = <<>> \o toRust
        BY <1>1, <2>1, <2>2 DEF Inbound, Outbound
  <2> QED BY <1>2, <1>3, <2>1, <2>3
<1>5. CASE m.kind = "ping"
  <2>1. pump' = Select /\ delivered' = delivered
        BY <1>1, <1>5
  <2>2. Outbound = toRust
        BY <1>2, <1>3, <1>5
  <2> QED BY <1>1, <1>4, <2>1, <2>2 DEF Same
<1>6. ASSUME m.kind # "ping"
      PROVE  /\ Outbound # <<>> /\ Head(Outbound) = m /\ Tail(Outbound) = toRust
             /\ 1 \in DOMAIN Outbound /\ Outbound[1] = m
  <2>1. Outbound = <<m>> \o toRust
        BY <1>2, <1>6
  <2>2. /\ Head(<<m>> \o toRust) = m /\ Tail(<<m>> \o toRust) = toRust
        /\ <<m>> \o toRust # <<>> /\ <<m>> \in Seq(Message)
        BY <1>2, Brackets
  <2>3. Outbound \in Seq(Message)
        BY <1>2, <2>1, <2>2, ConcatProperties
  <2>4. Outbound # <<>> /\ Head(Outbound) = m /\ Tail(Outbound) = toRust
        BY <2>1, <2>2
  <2>5. 1 \in 1 .. Len(Outbound) /\ Head(Outbound) = Outbound[1]
        BY <2>3, <2>4, TailFacts
  <2> QED BY <2>3, <2>4, <2>5
<1>7. CASE m.kind = "close"
  <2>1. pump' = Done /\ ~Pumping' /\ delivered' = Append(delivered, m)
        BY <1>1, <1>7 DEF Pumping
  <2>2. Inbound' = toPython /\ Outbound' = <<>>
        BY <1>1, <2>1 DEF Inbound, Outbound
  <2>3. toPython \in Prefixes(toPython \o Data(wireIn))
        BY <1>2, PrefixFacts
  <2>4. Inbound' \in Abstract!Prefixes(Inbound)
        BY <1>2, <1>3, <2>2, <2>3 DEF Prefixes, Abstract!Prefixes
  <2>5. m \in {Outbound[i] : i \in DOMAIN Outbound \intersect {1}}
        BY <1>6, <1>7
  <2>6. Pumping' = FALSE
        BY <2>1 DEF Pumping
  <2> QED BY <1>1, <2>1, <2>2, <2>4, <2>5, <2>6 DEF Abstract!Cut
<1>8. CASE m.kind \notin {"ping", "close"}
  <2>1. pump' = Select /\ delivered' = Append(delivered, m)
        BY <1>1, <1>8
  <2> QED BY <1>1, <1>4, <1>6, <1>8, <2>1 DEF Abstract!GiveDown
<1> QED BY <1>5, <1>7, <1>8

\* send and close put a message into the channel, unless the pump has ended: then
\* what they accept is never written.
LEMMA AcceptsChannel ==
    ASSUME QueueInv, NEW t \in Tasks, SendSucceeds(t)
    PROVE  Same \/ \E m \in Message : Abstract!PutDown(m)
<1> DEFINE m == call[t].msg
<1>1. /\ toRust' = Append(toRust, m) /\ sendQueue # <<>> /\ Head(sendQueue) = t
      /\ UNCHANGED <<toPython, wireIn, pump, conn, delivered, taken>>
      BY DEF SendSucceeds, connVars, wireVars
<1>2. m \in Message /\ toRust \in Seq(Message)
  <2>1. t \in ToSet(sendQueue)
        BY <1>1, DequeueHead DEF QueueInv, TypeOK
  <2>2. call[t].op = "send" /\ call[t] \in Call /\ toRust \in Seq(Message)
        BY <2>1 DEF QueueInv, TypeOK, Call
  <2> QED BY <2>2, CallFacts
<1> HIDE DEF m
<1>3. Held("push")' = Held("push") /\ Held("write")' = Held("write") /\ Pumping' = Pumping
      BY <1>1 DEF Held, Pumping
<1>4. Inbound' = Inbound
      BY <1>1, <1>3 DEF Inbound
<1>5. CASE ~Pumping
      BY <1>1, <1>3, <1>4, <1>5 DEF Outbound, Same
<1>6. CASE Pumping
  <2>1. Outbound = Held("write") \o toRust /\ Held("write") \in Seq(Message)
        BY <1>6, Flight
  <2>2. Outbound' = Held("write") \o Append(toRust, m)
        BY <1>1, <1>3, <1>6 DEF Outbound
  <2>3. Held("write") \o Append(toRust, m) = Append(Held("write") \o toRust, m)
        BY <1>2, <2>1, Brackets
  <2>4. Outbound' = Append(Outbound, m)
        BY <2>1, <2>2, <2>3
  <2>5. Abstract!PutDown(m)
        BY <1>1, <1>3, <1>4, <1>6, <2>4 DEF Abstract!PutDown
  <2> QED BY <1>2, <2>5
<1> QED BY <1>5, <1>6

\* A receive takes the first message of the channel, after a cut as well.
LEMMA ReceivesChannel ==
    ASSUME QueueInv, NEW t \in Tasks, ReceiveTakes(t)
    PROVE  Abstract!TakeUp
<1> DEFINE m == Head(toPython)
           rest == Tail(toPython)
<1>1. /\ toPython # <<>> /\ toPython' = rest /\ taken' = Append(taken, m)
      /\ UNCHANGED <<toRust, wireIn, pump, conn, delivered>>
      BY DEF ReceiveTakes, connVars, wireVars
<1>2. toPython \in Seq(Message)
      BY DEF QueueInv, TypeOK
<1>3. m \in Message /\ rest \in Seq(Message) /\ toPython = <<m>> \o rest
      BY <1>1, <1>2, TailFacts, Split
<1>4. Held("push")' = Held("push") /\ Held("write")' = Held("write") /\ Pumping' = Pumping
      BY <1>1 DEF Held, Pumping
<1>5. Outbound' = Outbound
      BY <1>1, <1>4 DEF Outbound
<1>6. CASE ~Pumping
  <2>1. Inbound = toPython /\ Inbound' = rest
        BY <1>1, <1>4, <1>6 DEF Inbound
  <2> QED BY <1>1, <1>4, <1>5, <2>1 DEF Abstract!TakeUp
<1> HIDE DEF m, rest
<1>7. CASE Pumping
  <2> DEFINE h == Held("push")
             d == Data(wireIn)
             behind == (rest \o h) \o d
  <2>1. h \in Seq(Message) /\ d \in Seq(Message) /\ Inbound = (toPython \o h) \o d
        BY <1>7, Flight
  <2>2. Inbound' = (rest \o h) \o d
        BY <1>1, <1>4, <1>7 DEF Inbound
  <2> HIDE DEF h, d
  <2>3. (<<m>> \o rest) \o h = <<m>> \o (rest \o h) /\ rest \o h \in Seq(Message)
        BY <1>3, <2>1, RegroupFirst, ConcatProperties
  <2>4. (<<m>> \o (rest \o h)) \o d = <<m>> \o behind
        BY <1>3, <2>1, <2>3, RegroupFirst
  <2>5. Inbound = <<m>> \o behind
        BY <1>3, <2>1, <2>3, <2>4
  <2>6. behind \in Seq(Message)
        BY <2>1, <2>3, ConcatProperties
  <2> HIDE DEF behind
  <2>7. Head(Inbound) = m /\ Tail(Inbound) = behind /\ Inbound # <<>>
        BY <1>3, <2>5, <2>6, Brackets
  <2>8. Inbound' = behind
        BY <2>2 DEF behind
  <2> QED BY <1>1, <1>4, <1>5, <2>7, <2>8 DEF Abstract!TakeUp
<1> QED BY <1>6, <1>7

LEMMA NextPushes == PushesNoPing /\ [Next]_vars => PushesNoPing'
<1> SUFFICES ASSUME PushesNoPing, [Next]_vars PROVE PushesNoPing'
    OBVIOUS
<1>1. CASE PumpReads
  <2>1. pump' = IF Head(wireIn).kind = "ping" THEN Holding("write", Head(wireIn))
                ELSE Holding("push", Head(wireIn))
        BY <1>1 DEF PumpReads
  <2> QED BY <2>1, PumpFacts DEF PushesNoPing
<1>2. CASE PumpFails \/ PumpPushes \/ PumpTakes \/ PumpWrites
  <2>1. pump' \in {Done, Select, Holding("write", Head(toRust))}
        BY <1>2 DEF PumpFails, PumpPushes, PumpTakes, PumpWrites
  <2>2. pump'.at # "push"
        BY <2>1, PumpFacts
  <2> QED BY <2>2 DEF PushesNoPing
<1>3. CASE Client \/ Connection \/ Application \/ UNCHANGED vars
  <2>1. pump' = pump
        BY <1>3 DEF Client, ClientReads, ClientVanishes, ClientSends, Connection, SelectEnds,
           MarkDisconnected, ConnectionReturns, Application, HandlerFinishes, Completes,
           SendSucceeds, SendFails, ReceiveTakes, ReceiveFails, StartReceive, StartSend,
           vars, pumpVars
  <2> QED BY <2>1 DEF PushesNoPing
<1> QED BY <1>1, <1>2, <1>3 DEF Next, Pump

\* Every step of the connection is a step of the channel, or none.
LEMMA NextChannel == ChannelInv /\ ChannelInv' /\ [Next]_vars => [Abstract!Next]_(Abstract!vars)
<1> SUFFICES ASSUME ChannelInv, ChannelInv', [Next]_vars
             PROVE  [Abstract!Next]_(Abstract!vars)
    OBVIOUS
<1>0. QueueInv /\ QueueInv' /\ CloseInv /\ NoPings /\ PushesNoPing
      BY DEF ChannelInv, OrderInv
<1>1. ASSUME Same PROVE [Abstract!Next]_(Abstract!vars)
      BY <1>1 DEF Same, Abstract!vars
<1>2. ASSUME \/ \E m \in Message : Abstract!PutUp(m) \/ Abstract!PutDown(m)
             \/ Abstract!TakeUp \/ Abstract!GiveDown \/ Abstract!Cut
      PROVE  [Abstract!Next]_(Abstract!vars)
      BY <1>2 DEF Abstract!Next
<1>3. ASSUME UNCHANGED <<toPython, toRust, pump, conn, wireIn, taken, delivered>> PROVE Same
      BY <1>3, SameFlight DEF Same
<1>4. ASSUME NEW k \in ClientKinds, ClientSends(k) PROVE [Abstract!Next]_(Abstract!vars)
      BY <1>0, <1>1, <1>2, <1>4, SendsChannel
<1>5. CASE PumpReads
      BY <1>0, <1>1, <1>5, ReadsChannel
<1>6. CASE PumpTakes
      BY <1>0, <1>1, <1>6, TakesChannel
<1>7. CASE PumpPushes
      BY <1>0, <1>1, <1>2, <1>7, PushesChannel
<1>8. CASE PumpWrites
      BY <1>0, <1>1, <1>2, <1>8, WritesChannel
<1>9. CASE PumpFails
  <2>1. Pumping /\ ~Pumping' /\ UNCHANGED <<toPython, delivered, taken>>
        BY <1>9 DEF PumpFails, Pumping, taskVars
  <2> QED BY <1>0, <1>2, <2>1, CutsChannel
<1>10. CASE SelectEnds
  <2>1. UNCHANGED <<toPython, toRust, pump, wireIn, taken, delivered>> /\ ~Pumping'
        BY <1>10 DEF SelectEnds, Pumping, pumpVars, taskVars, wireVars
  <2>2. CASE Pumping
        BY <1>0, <1>2, <2>1, <2>2, CutsChannel
  <2>3. CASE ~Pumping
    <3>1. Pumping' = Pumping
          BY <2>1, <2>3 DEF Pumping
    <3>2. Inbound' = Inbound /\ Outbound' = Outbound
          BY <2>1, <2>3 DEF Inbound, Outbound
    <3> QED BY <1>1, <2>1, <3>1, <3>2 DEF Same
  <2> QED BY <2>2, <2>3
<1>11. CASE MarkDisconnected \/ ConnectionReturns
  <2>1. /\ UNCHANGED <<toPython, toRust, pump, wireIn, taken, delivered>>
        /\ conn # "select" /\ conn' # "select"
        BY <1>11 DEF MarkDisconnected, ConnectionReturns, pumpVars, taskVars, wireVars
  <2>2. ~Pumping /\ ~Pumping' /\ Pumping' = Pumping
        BY <2>1 DEF Pumping
  <2>3. Inbound' = Inbound /\ Outbound' = Outbound
        BY <2>1, <2>2 DEF Inbound, Outbound
  <2> QED BY <1>1, <2>1, <2>2, <2>3 DEF Same
<1>12. ASSUME NEW t \in Tasks, SendSucceeds(t) PROVE [Abstract!Next]_(Abstract!vars)
       BY <1>0, <1>1, <1>2, <1>12, AcceptsChannel
<1>13. ASSUME NEW t \in Tasks, ReceiveTakes(t) PROVE [Abstract!Next]_(Abstract!vars)
       BY <1>0, <1>2, <1>13, ReceivesChannel
<1>14. ASSUME NEW t \in Tasks,
              \/ SendFails(t) \/ ReceiveFails(t) \/ StartReceive(t)
              \/ \E op \in Calls[t] : StartSend(t, op)
       PROVE  [Abstract!Next]_(Abstract!vars)
  <2>1. UNCHANGED <<toPython, toRust, pump, conn, wireIn, taken, delivered>>
        BY <1>14 DEF SendFails, ReceiveFails, StartReceive, StartSend, pumpVars, connVars, wireVars
  <2> QED BY <1>1, <1>3, <2>1
<1>15. CASE ClientReads \/ ClientVanishes \/ HandlerFinishes \/ UNCHANGED vars
  <2>1. UNCHANGED <<toPython, toRust, pump, conn, wireIn, taken, delivered>>
        BY <1>15 DEF ClientReads, ClientVanishes, HandlerFinishes, vars, pumpVars, taskVars,
           connVars, wireVars
  <2> QED BY <1>1, <1>3, <2>1
<1> QED BY <1>4, <1>5, <1>6, <1>7, <1>8, <1>9, <1>10, <1>11, <1>12, <1>13, <1>14, <1>15
        DEF Next, Client, Pump, Connection, Application, Completes

\* The connection is two FIFO channels: whatever the sizes of its queues, however
\* many tasks share it and in whatever way it ends, each direction carries its
\* messages once, in order and without a gap, and a cut loses only the messages
\* behind those already handed over.
THEOREM ConnectionIsDuplex == Spec => ImplementsDuplex
<1>1. Init => ChannelInv
  <2> SUFFICES ASSUME Init PROVE ChannelInv
      OBVIOUS
  <2>1. QueueInv
        BY InitTypes
  <2>2. CloseInv
        BY InitClose
  <2>3. OrderInv
        BY InitOrder
  <2>4. PushesNoPing
        BY PumpFacts DEF Init, PushesNoPing
  <2> QED BY <2>1, <2>2, <2>3, <2>4 DEF ChannelInv
<1>2. ChannelInv /\ [Next]_vars => ChannelInv'
      BY NextTypes, NextClose, NextOrder, NextPushes DEF ChannelInv
<1>3. Init => Abstract!Init
  <2> SUFFICES ASSUME Init PROVE Abstract!Init
      OBVIOUS
  <2>1. Pumping /\ Pumping = TRUE
        BY PumpFacts DEF Init, Pumping
  <2>2. Held("push") = <<>> /\ Held("write") = <<>> /\ Data(wireIn) = <<>>
        BY PumpFacts, DataFacts DEF Init, Held
  <2>3. Inbound = (<<>> \o <<>>) \o <<>> /\ Outbound = <<>> \o <<>>
        BY <2>1, <2>2 DEF Init, Inbound, Outbound
  <2>4. <<>> \in Seq(Message) /\ <<>> \o <<>> = <<>>
        BY ConcatEmptySeq
  <2> QED BY <2>1, <2>3, <2>4 DEF Init, Abstract!Init
<1> QED BY <1>1, <1>2, <1>3, NextChannel, PTL DEF Spec, ImplementsDuplex, Abstract!Spec
=============================================================================
