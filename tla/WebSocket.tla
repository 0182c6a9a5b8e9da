------------------------------ MODULE WebSocket ------------------------------
(***************************************************************************)
(* One WebSocket connection of src/http/websocket.rs: the Rust task that   *)
(* runs handle_connection, its socket_pump, the two bounded channels, and  *)
(* the asyncio tasks of the application that share the PyWebSocket object. *)
(*                                                                         *)
(* Text and binary messages are one kind, "data": a receive of the other   *)
(* type consumes the message and raises, which only changes the value the  *)
(* application sees.  The socket is external: two bounded FIFO buffers and *)
(* a peer that may send, read, close, or vanish at any time.               *)
(***************************************************************************)
EXTENDS Naturals, Sequences, FiniteSets, SequencesExt, Selection

CONSTANTS
    Tasks,          \* asyncio tasks of the application that use the WebSocket
    Handler,        \* the task that runs the handler coroutine
    Calls,          \* Calls[t]: the methods task t calls
    ClientKinds,    \* the kinds of frame the client sends
    Capacity,       \* of each channel (1024 in the code)
    WireCapacity,   \* frames the socket buffers in each direction
    MaxFrames,      \* bound: frames the client sends
    MaxSends        \* bound: send and close calls of the application

ASSUME WebSocketAssumption ==
    /\ IsFiniteSet(Tasks)
    /\ Handler \in Tasks
    /\ Calls \in [Tasks -> SUBSET {"send", "close", "receive"}]
    /\ ClientKinds \subseteq {"data", "ping", "close"}
    /\ Capacity \in Nat \ {0}
    /\ WireCapacity \in Nat \ {0}
    /\ MaxFrames \in Nat
    /\ MaxSends \in Nat

VARIABLES
    toPython,     \* the channel tx_to_python -> rx_from_rust
    toRust,       \* the channel tx_to_rust -> rx_from_python
    pump,         \* where socket_pump is, and the message it holds
    conn,         \* handle_connection: in its select!, past it, or returned
    isConnected,  \* PyWebSocket.is_connected
    call,         \* the call each task awaits, or Idle
    sendQueue,    \* tasks waiting for room in toRust, in order
    recvQueue,    \* tasks waiting for the lock of rx, in order
    handlerDone,  \* the handler coroutine has finished
    wireIn,       \* frames the client sent, not yet read by the pump
    unread,       \* number of frames written, not yet read by the client
    peer,         \* "open", "closing" (sent its close frame) or "gone"
    frames,       \* number of frames the client has sent
    accepted,     \* messages whose send or close returned without an error
    delivered,    \* messages of the application written to the socket
    taken         \* messages of the client consumed by a receive

pumpVars == <<toPython, toRust, pump, delivered>>
taskVars == <<call, sendQueue, recvQueue, accepted, taken>>
wireVars == <<wireIn, unread, peer, frames>>
connVars == <<conn, isConnected, handlerDone>>
vars == <<pumpVars, taskVars, wireVars, connVars>>

Message == [kind : {"data", "ping", "close"}, id : 1 .. MaxFrames + MaxSends]
Idle == [op |-> "idle"]

\* The pump either waits in its select!, or is inside one branch of it, holding
\* a message: pushing it to the application or writing it to the socket.
Select == [at |-> "select"]
Done == [at |-> "done"]
Holding(where, m) == [at |-> where, msg |-> m]

\* Mutant: the pump spawned as a task of its own, which select! cannot drop.
DetachedPumping == pump # Done

\* socket_pump still runs, hence its tx_to_python is alive.
Pumping == conn = "select" /\ pump # Done

\* rx_from_python lives until handle_connection returns.
OutboundOpen == conn # "returned"

Started == Len(accepted) + Cardinality({t \in Tasks : call[t].op = "send"})

TypeOK ==
    /\ toPython \in Seq(Message) /\ Len(toPython) <= Capacity
    /\ toRust \in Seq(Message) /\ Len(toRust) <= Capacity
    /\ pump \in {Select, Done}
                  \union [at : {"push", "write"}, msg : Message]
    /\ conn \in {"select", "ending", "returned"}
    /\ isConnected \in BOOLEAN
    /\ handlerDone \in BOOLEAN
    /\ call \in [Tasks -> {Idle, [op |-> "receive"]}
                            \union [op : {"send"}, msg : Message]]
    /\ sendQueue \in Seq(Tasks) /\ recvQueue \in Seq(Tasks)
    /\ ToSet(sendQueue) = {t \in Tasks : call[t].op = "send"}
    /\ ToSet(recvQueue) = {t \in Tasks : call[t].op = "receive"}
    /\ wireIn \in Seq(Message) /\ Len(wireIn) <= WireCapacity
    /\ unread \in 0 .. WireCapacity
    /\ peer \in {"open", "closing", "gone"}
    /\ frames \in 0 .. MaxFrames
    /\ accepted \in Seq(Message)
    /\ delivered \in Seq(Message)
    /\ taken \in Seq(Message)

Init ==
    /\ toPython = <<>>
    /\ toRust = <<>>
    /\ pump = Select
    /\ conn = "select"
    /\ isConnected = TRUE
    /\ call = [t \in Tasks |-> Idle]
    /\ sendQueue = <<>>
    /\ recvQueue = <<>>
    /\ handlerDone = FALSE
    /\ wireIn = <<>>
    /\ unread = 0
    /\ peer = "open"
    /\ frames = 0
    /\ accepted = <<>>
    /\ delivered = <<>>
    /\ taken = <<>>

-----------------------------------------------------------------------------
(* The client and the socket (external).                                   *)

\* After its close frame a client sends no more frames.
ClientSends(kind) ==
    /\ peer = "open"
    /\ Len(wireIn) < WireCapacity
    /\ frames < MaxFrames
    /\ frames' = frames + 1
    /\ wireIn' = Append(wireIn, [kind |-> kind, id |-> frames + 1])
    /\ peer' = IF kind = "close" THEN "closing" ELSE peer
    /\ UNCHANGED <<unread, pumpVars, taskVars, connVars>>

ClientReads ==
    /\ peer # "gone"
    /\ unread > 0
    /\ unread' = unread - 1
    /\ UNCHANGED <<wireIn, peer, frames, pumpVars, taskVars, connVars>>

ClientVanishes ==
    /\ peer # "gone"
    /\ peer' = "gone"
    /\ UNCHANGED <<wireIn, unread, frames, pumpVars, taskVars, connVars>>

-----------------------------------------------------------------------------
(* socket_pump.  While it pushes to the application or writes to the       *)
(* socket it serves no other branch of its select!.                        *)

PumpReads ==
    /\ Pumping
    /\ pump = Select
    /\ wireIn # <<>>
    /\ wireIn' = Tail(wireIn)
    /\ pump' = IF Head(wireIn).kind = "ping"
               THEN Holding("write", Head(wireIn))
               ELSE Holding("push", Head(wireIn))
    /\ UNCHANGED <<toPython, toRust, delivered, unread, peer, frames,
                   taskVars, connVars>>

\* Mutant: a read error is logged and the loop goes on.
PumpIgnoresReadError ==
    /\ Pumping
    /\ peer = "gone"
    /\ pump.at = "write"
    /\ pump' = Done
    /\ UNCHANGED <<toPython, toRust, delivered, taskVars, wireVars, connVars>>

\* Mutant: a failed write is logged and the loop goes on.
PumpSkipsFailedWrite ==
    /\ Pumping
    /\ peer = "gone"
    /\ pump.at \in {"select", "write"}
    /\ pump' = IF pump.at = "write" THEN Select ELSE Done
    /\ UNCHANGED <<toPython, toRust, delivered, taskVars, wireVars, connVars>>

\* read_frame fails, or write_frame does: `?` ends the pump.
PumpFails ==
    /\ Pumping
    /\ peer = "gone"
    /\ pump.at \in {"select", "write"}
    /\ pump' = Done
    /\ UNCHANGED <<toPython, toRust, delivered, taskVars, wireVars, connVars>>

\* Mutants: try_send in place of send().await, and an unbounded channel or one
\* that keeps a permit in reserve.
PumpPushesUnbounded ==
    /\ Pumping
    /\ pump.at = "push"
    /\ toPython' = Append(toPython, pump.msg)
    /\ pump' = IF pump.msg.kind = "close" THEN Done ELSE Select
    /\ UNCHANGED <<toRust, delivered, taskVars, wireVars, connVars>>

PumpTriesToPush ==
    /\ Pumping
    /\ pump.at = "push"
    /\ toPython' = IF Len(toPython) < Capacity THEN Append(toPython, pump.msg) ELSE toPython
    /\ pump' = IF pump.msg.kind = "close" THEN Done ELSE Select
    /\ UNCHANGED <<toRust, delivered, taskVars, wireVars, connVars>>

PumpPushesShort ==
    /\ Len(toPython) + 1 < Capacity
    /\ PumpPushesUnbounded

\* tx_to_python.send().await, which fails only when rx is dropped, and rx is
\* kept by the PyWebSocket that handle_connection holds.
PumpPushes ==
    /\ Pumping
    /\ pump.at = "push"
    /\ Len(toPython) < Capacity
    /\ toPython' = Append(toPython, pump.msg)
    /\ pump' = IF pump.msg.kind = "close" THEN Done ELSE Select
    /\ UNCHANGED <<toRust, delivered, taskVars, wireVars, connVars>>

\* Mutant: messages are flushed in pairs.
PumpTakesBatch ==
    /\ Pumping
    /\ pump = Select
    /\ Len(toRust) > 1
    /\ toRust' = Tail(toRust)
    /\ pump' = Holding("write", Head(toRust))
    /\ UNCHANGED <<toPython, delivered, taskVars, wireVars, connVars>>

PumpTakes ==
    /\ Pumping
    /\ pump = Select
    /\ toRust # <<>>
    /\ toRust' = Tail(toRust)
    /\ pump' = Holding("write", Head(toRust))
    /\ UNCHANGED <<toPython, delivered, taskVars, wireVars, connVars>>

\* Mutant: no `break` after the close frame.
PumpWritesOn ==
    /\ Pumping
    /\ pump.at = "write"
    /\ unread < WireCapacity
    /\ unread' = unread + 1
    /\ delivered' = IF pump.msg.kind = "ping" THEN delivered
                    ELSE Append(delivered, pump.msg)
    /\ pump' = Select
    /\ UNCHANGED <<toPython, toRust, wireIn, peer, frames, taskVars, connVars>>

\* A pong answers a ping and is not a message of the application.
PumpWrites ==
    /\ Pumping
    /\ pump.at = "write"
    /\ unread < WireCapacity
    /\ unread' = unread + 1
    /\ delivered' = IF pump.msg.kind = "ping" THEN delivered
                    ELSE Append(delivered, pump.msg)
    /\ pump' = IF pump.msg.kind = "close" THEN Done ELSE Select
    /\ UNCHANGED <<toPython, toRust, wireIn, peer, frames, taskVars, connVars>>

-----------------------------------------------------------------------------
(* handle_connection.                                                      *)

\* The coroutine returns or raises; the tasks it started go on.
HandlerFinishes ==
    /\ ~handlerDone
    /\ call[Handler] = Idle
    /\ handlerDone' = TRUE
    /\ UNCHANGED <<conn, isConnected, pumpVars, taskVars, wireVars>>

\* select! completes with whichever future it finds ready and drops the other.
SelectEnds ==
    /\ conn = "select"
    /\ handlerDone \/ pump = Done
    /\ conn' = "ending"
    /\ UNCHANGED <<isConnected, handlerDone, pumpVars, taskVars, wireVars>>

MarkDisconnected ==
    /\ conn = "ending"
    /\ isConnected
    /\ isConnected' = FALSE
    /\ UNCHANGED <<conn, handlerDone, pumpVars, taskVars, wireVars>>

\* Returning drops rx_from_python and the socket.
ConnectionReturns ==
    /\ conn = "ending"
    /\ ~isConnected
    /\ conn' = "returned"
    /\ UNCHANGED <<isConnected, handlerDone, pumpVars, taskVars, wireVars>>

-----------------------------------------------------------------------------
(* PyWebSocket: the calls of the application.  None of them looks at       *)
(* is_connected.                                                           *)

MayCall(t, op) ==
    /\ op \in Calls[t]
    /\ call[t] = Idle
    /\ t = Handler => ~handlerDone

\* send_text, send_bytes and send_json send "data", close sends "close".
StartSend(t, op) ==
    /\ op \in {"send", "close"}
    /\ MayCall(t, op)
    /\ Started < MaxSends
    /\ call' = [call EXCEPT ![t] =
                  [op |-> "send",
                   msg |-> [kind |-> IF op = "close" THEN "close" ELSE "data",
                            id |-> Started + 1]]]
    /\ sendQueue' = Append(sendQueue, t)
    /\ UNCHANGED <<recvQueue, accepted, taken, pumpVars, wireVars, connVars>>

SendSucceeds(t) ==
    /\ sendQueue # <<>>
    /\ Head(sendQueue) = t
    /\ OutboundOpen
    /\ Len(toRust) < Capacity
    /\ toRust' = Append(toRust, call[t].msg)
    /\ accepted' = Append(accepted, call[t].msg)
    /\ sendQueue' = Tail(sendQueue)
    /\ call' = [call EXCEPT ![t] = Idle]
    /\ UNCHANGED <<recvQueue, taken, toPython, pump, delivered, wireVars, connVars>>

\* "WebSocket closed": the receiver was dropped.
SendFails(t) ==
    /\ call[t].op = "send"
    /\ ~OutboundOpen
    /\ \E i \in DOMAIN sendQueue :
          sendQueue[i] = t /\ sendQueue' = RemoveAt(sendQueue, i)
    /\ call' = [call EXCEPT ![t] = Idle]
    /\ UNCHANGED <<recvQueue, accepted, taken, pumpVars, wireVars, connVars>>

StartReceive(t) ==
    /\ MayCall(t, "receive")
    /\ call' = [call EXCEPT ![t] = [op |-> "receive"]]
    /\ recvQueue' = Append(recvQueue, t)
    /\ UNCHANGED <<sendQueue, accepted, taken, pumpVars, wireVars, connVars>>

\* The task at the head of recvQueue holds the lock.  A close message and a
\* message of the other type raise, and are consumed as well.
ReceiveTakes(t) ==
    /\ recvQueue # <<>>
    /\ Head(recvQueue) = t
    /\ toPython # <<>>
    /\ toPython' = Tail(toPython)
    /\ taken' = Append(taken, Head(toPython))
    /\ recvQueue' = Tail(recvQueue)
    /\ call' = [call EXCEPT ![t] = Idle]
    /\ UNCHANGED <<sendQueue, accepted, toRust, pump, delivered, wireVars, connVars>>

\* recv() is None: the channel is empty and the pump has dropped its sender.
ReceiveFails(t) ==
    /\ recvQueue # <<>>
    /\ Head(recvQueue) = t
    /\ toPython = <<>>
    /\ ~Pumping
    /\ recvQueue' = Tail(recvQueue)
    /\ call' = [call EXCEPT ![t] = Idle]
    /\ UNCHANGED <<sendQueue, accepted, taken, pumpVars, wireVars, connVars>>

-----------------------------------------------------------------------------
Client == ClientReads \/ ClientVanishes \/ \E k \in ClientKinds : ClientSends(k)
Pump == PumpReads \/ PumpFails \/ PumpPushes \/ PumpTakes \/ PumpWrites
Connection == SelectEnds \/ MarkDisconnected \/ ConnectionReturns
Completes(t) == SendSucceeds(t) \/ SendFails(t) \/ ReceiveTakes(t) \/ ReceiveFails(t)
Application ==
    \/ HandlerFinishes
    \/ \E t \in Tasks :
         Completes(t) \/ StartReceive(t) \/ \E op \in Calls[t] : StartSend(t, op)

Next == Client \/ Pump \/ Connection \/ Application

Spec == Init /\ [][Next]_vars

\* The Rust futures are polled when they are ready; the branches of the pump's
\* select! are tried in random order, so a branch that is ready again and again
\* is taken.  Nothing is assumed of the client and of the application.
Fairness ==
    /\ WF_vars(PumpFails) /\ WF_vars(PumpPushes) /\ WF_vars(PumpWrites)
    /\ SF_vars(PumpReads) /\ SF_vars(PumpTakes)
    /\ WF_vars(Connection)
    /\ \A t \in Tasks : WF_vars(Completes(t))

FairSpec == Spec /\ Fairness

-----------------------------------------------------------------------------
(* Properties.                                                             *)

\* What the liveness of a pump that stops reading the socket while the
\* application is behind rests on: a client that keeps reading, and a task that
\* receives again and again and does nothing else (one that also sends may wait
\* for room in a queue that the pump, itself waiting for that task, never drains).
ClientKeepsReading == WF_vars(ClientReads)
SomeTaskKeepsReceiving ==
    \E t \in Tasks \ {Handler} : Calls[t] = {"receive"} /\ WF_vars(StartReceive(t))

Data(s) == Only(s, {m \in Message : m.kind # "ping"})
Held(where) == IF pump.at = where THEN Data(<<pump.msg>>) ELSE <<>>

\* Messages the pump has read but not pushed are in flight; so are those still
\* in the socket, as long as the pump runs.
Inbound == IF Pumping THEN toPython \o Held("push") \o Data(wireIn) ELSE toPython
Outbound == IF Pumping THEN Held("write") \o toRust ELSE <<>>

Abstract == INSTANCE Duplex WITH
    up <- Inbound,
    down <- Outbound,
    given <- delivered,
    open <- Pumping

\* handle_connection implements the duplex channel: through the two queues, the
\* message held inside a branch of select!, and every way the connection ends,
\* no message is duplicated, skipped or overtaken in either direction.
ImplementsDuplex == Abstract!Spec

\* Nothing follows a close message, neither on the socket after the application
\* closed (it may go on sending: close() only queues a message) nor in what the
\* application receives after the client closed.
CloseIsLast ==
    \A s \in {taken, delivered} :
        \A i \in DOMAIN s : s[i].kind = "close" => i = Len(s)

\* What the client has been sent is, message by message, the beginning of what
\* send and close accepted: whatever is lost when the connection ends, however it
\* ends, is lost from the end of the stream.
DeliveredIsAcceptedPrefix ==
    /\ Len(delivered) <= Len(accepted)
    /\ \A i \in 1 .. Len(delivered) : delivered[i] = accepted[i]

\* No task of the application waits for ever on a connection that has ended:
\* dropping the two channel ends wakes every waiting send and receive, those
\* queued behind one another as well.
CallsEndWithConnection ==
    \A t \in Tasks :
        (call[t] # Idle /\ (handlerDone \/ pump = Done)) ~> (call[t] = Idle)

\* The pump has stopped serving the outbound queue: it waits for the
\* application to receive.
Backlogged == Pumping /\ pump.at = "push" /\ Len(toPython) = Capacity

\* With a client that reads, accepted messages leave the outbound queue unless
\* the connection ends or the application has let its inbound queue fill up.
OutboundWaitsForBacklogOnly ==
    ClientKeepsReading =>
        ((Pumping /\ toRust # <<>>) ~> (toRust = <<>> \/ ~Pumping \/ Backlogged))

\* With a task that keeps receiving the backlog never lasts: every message
\* accepted by send leaves the queue or the connection ends.
OutboundDrains ==
    ClientKeepsReading /\ SomeTaskKeepsReceiving =>
        ((Pumping /\ toRust # <<>>) ~> (toRust = <<>> \/ ~Pumping))

\* With a task that keeps receiving, the connection of a client that vanished
\* is given up, even when the pump is busy pushing what it read before.
VanishedPeerNoticed ==
    SomeTaskKeepsReceiving => ((peer = "gone") ~> (conn = "returned"))

\* A handler whose sends and close all returned, and that then returns, has
\* been heard by a client that neither closed nor vanished.
CleanReturnDelivers ==
    (conn = "returned" /\ handlerDone /\ peer = "open" /\ \A t \in Tasks : call[t] = Idle)
        => delivered = accepted
=============================================================================
