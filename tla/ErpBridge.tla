------------------------------ MODULE ErpBridge ------------------------------
(***************************************************************************)
(* app/services/erp_bridge.py: the outbound WebSocket to the ERP.          *)
(*                                                                         *)
(* Everything runs on one asyncio event loop, so an action is the code     *)
(* between two awaits.  The tasks are the connection loop (_run and        *)
(* _pump), and for every connection c a sender (_send_loop) and a receiver *)
(* (_receive_loop).  stop() cancels the connection loop only: the sender   *)
(* and the receiver of its connection are left behind and may outlive it.  *)
(*                                                                         *)
(* Events are numbered in the order publish() is called; a number stands   *)
(* for the identity of the dict, which is what `is` compares.              *)
(***************************************************************************)
EXTENDS Naturals, Sequences

CONSTANTS QueueMax,   \* settings.ERP_WS_QUEUE_MAX
          DelayMin,   \* settings.ERP_WS_BACKOFF_MIN_SECONDS
          DelayMax,   \* settings.ERP_WS_BACKOFF_MAX_SECONDS
          MaxEvents,  \* bound: events published
          MaxConns    \* bound: connections established; the last never breaks

ASSUME BridgeAssumption ==
    /\ QueueMax \in Nat \ {0}
    /\ DelayMin \in Nat /\ DelayMax \in Nat /\ DelayMin <= DelayMax
    /\ MaxEvents \in Nat
    /\ MaxConns \in Nat \ {0}

Event == 1 .. MaxEvents
Conn == 1 .. MaxConns
NoEvent == 0

\* What the ERP may send, by how _receive_loop tells messages apart.  An
\* "unhashable" message is an object whose command is a list or an object.
Ignored == {"not_json", "not_object", "unknown"}
Allowed == {"ping", "refresh_registry"}
Inbound == Ignored \cup Allowed \cup {"unhashable"}

VARIABLES queue,     \* self._queue
          produced,  \* number of events publish() was called with
          evicted,   \* events the deque dropped; self._dropped is its size
          wakeup,    \* self._wakeup.is_set()
          run,       \* where the connection loop is
          delay,     \* local `delay` of _run
          connected, \* self._connected
          conn,      \* number of the newest connection, 0 before the first
          sock,      \* each connection's socket
          sender,    \* each connection's _send_loop
          receiver,  \* each connection's _receive_loop
          event,     \* local `event` of each _send_loop
          sent,      \* history: what was given to which socket, in order
          acked      \* history: events some socket.send() returned for

queueVars == <<queue, produced, evicted>>
loopVars == <<run, delay, connected, conn>>
histVars == <<sent, acked>>
vars == <<queueVars, wakeup, loopVars, sock, sender, receiver, event, histVars>>

Queued == {queue[i] : i \in 1 .. Len(queue)}

\* A definition named Wrong... is a plausible bug in the definition after it; the
\* properties are tested against it and no action uses it.

WrongNoneAwakened == sender

\* asyncio.Event.set(): every task that waits on it becomes runnable, and stays
\* so even if the event is cleared before the task runs.
Awakened == [c \in Conn |-> IF sender[c] = "waiting" THEN "loop" ELSE sender[c]]

WrongFull == Len(queue) > QueueMax

Full == Len(queue) = QueueMax

WrongEnqueued == IF Full THEN queue ELSE Append(queue, produced + 1)

\* deque(maxlen).append(): a full deque drops its oldest element.
Enqueued == Append(IF Full THEN Tail(queue) ELSE queue, produced + 1)

WrongPopBlindly(c) == IF queue # <<>> THEN Tail(queue) ELSE queue

WrongNeverPop(c) == queue

\* The queue once a send has returned: its event leaves if it is still the head.
\* The head differs when the queue overflowed during the send.
PopIfHead(c) ==
    IF queue # <<>> /\ Head(queue) = event[c] THEN Tail(queue) ELSE queue

WrongSocketKept == sock

\* Leaving the `async with` of a connection closes its socket.
SocketClosed == [sock EXCEPT ![conn] = "closed"]

WrongBothEnded == sender[conn] = "done" /\ receiver[conn] = "done"

\* asyncio.wait(..., FIRST_COMPLETED) over the two tasks of the connection.
TaskEnded == sender[conn] = "done" \/ receiver[conn] = "done"

DelayOnConnect == DelayMin

-----------------------------------------------------------------------------
Init == /\ queue = <<>> /\ produced = 0 /\ evicted = {}
        /\ wakeup = FALSE
        /\ run = "off" /\ delay = DelayMin /\ connected = FALSE /\ conn = 0
        /\ sock = [c \in Conn |-> "unused"]
        /\ sender = [c \in Conn |-> "none"]
        /\ receiver = [c \in Conn |-> "none"]
        /\ event = [c \in Conn |-> NoEvent]
        /\ sent = <<>> /\ acked = {}

\* publish() never blocks: it enqueues, counts what the deque drops, and wakes
\* the sender.
Publish ==
    /\ produced < MaxEvents
    /\ produced' = produced + 1
    /\ queue' = Enqueued
    /\ evicted' = IF Full THEN evicted \cup {Head(queue)} ELSE evicted
    /\ wakeup' = TRUE
    /\ sender' = Awakened
    /\ UNCHANGED <<loopVars, sock, receiver, event, histVars>>

-----------------------------------------------------------------------------
(* The connection loop. *)

\* start(), called again only after stop() has returned.
Start ==
    /\ run = "off"
    /\ conn < MaxConns
    /\ run' = "connecting"
    /\ delay' = DelayMin
    /\ UNCHANGED <<queueVars, wakeup, connected, conn, sock, sender, receiver,
                   event, histVars>>

\* stop() while no connection is held: the cancelled task ends at once.
StopIdle ==
    /\ run \in {"connecting", "sleeping"}
    /\ run' = "off"
    /\ connected' = FALSE
    /\ UNCHANGED <<queueVars, wakeup, delay, conn, sock, sender, receiver,
                   event, histVars>>

\* stop() during _pump: the cancellation interrupts asyncio.wait(), which does
\* not cancel the tasks it waits for; leaving the `async with` closes the socket.
StopPumping ==
    /\ run = "pumping"
    /\ conn < MaxConns
    /\ run' = "closing"
    /\ sock' = SocketClosed
    /\ UNCHANGED <<queueVars, wakeup, delay, connected, conn, sender, receiver,
                   event, histVars>>

StopDone ==
    /\ run = "closing"
    /\ run' = "off"
    /\ connected' = FALSE
    /\ UNCHANGED <<queueVars, wakeup, delay, conn, sock, sender, receiver,
                   event, histVars>>

\* websockets.connect() succeeds; _pump starts the two tasks of the connection.
ConnectOk ==
    /\ run = "connecting"
    /\ conn < MaxConns
    /\ run' = "pumping"
    /\ connected' = TRUE
    /\ delay' = DelayOnConnect
    /\ conn' = conn + 1
    /\ sock' = [sock EXCEPT ![conn + 1] = "open"]
    /\ sender' = [sender EXCEPT ![conn + 1] = "loop"]
    /\ receiver' = [receiver EXCEPT ![conn + 1] = "receiving"]
    /\ UNCHANGED <<queueVars, wakeup, event, histVars>>

\* websockets.connect() raises.
ConnectFail ==
    /\ run = "connecting"
    /\ run' = "sleeping"
    /\ UNCHANGED <<queueVars, wakeup, delay, connected, conn, sock, sender,
                   receiver, event, histVars>>

\* _pump sees a task end: it cancels the other one, closes the socket and,
\* whether that task raised or returned, _run goes to its backoff.
PumpEnd ==
    /\ run = "pumping"
    /\ TaskEnded
    /\ run' = "sleeping"
    /\ connected' = FALSE
    /\ sock' = SocketClosed
    /\ sender' = [sender EXCEPT ![conn] = "done"]
    /\ receiver' = [receiver EXCEPT ![conn] = "done"]
    /\ UNCHANGED <<queueVars, wakeup, delay, conn, event, histVars>>

\* The jittered sleep ends and the delay doubles up to its maximum.
BackoffEnd ==
    /\ run = "sleeping"
    /\ run' = "connecting"
    /\ delay' = IF delay * 2 < DelayMax THEN delay * 2 ELSE DelayMax
    /\ UNCHANGED <<queueVars, wakeup, connected, conn, sock, sender, receiver,
                   event, histVars>>

-----------------------------------------------------------------------------
(* _send_loop of connection c. *)

\* The head is peeked, not popped, and given to the socket.
SendBegin(c) ==
    /\ sender[c] = "loop"
    /\ sock[c] = "open"
    /\ queue # <<>>
    /\ event' = [event EXCEPT ![c] = Head(queue)]
    /\ sent' = Append(sent, [conn |-> c, event |-> Head(queue)])
    /\ sender' = [sender EXCEPT ![c] = "sending"]
    /\ UNCHANGED <<queueVars, wakeup, loopVars, sock, receiver, acked>>

\* send() on a socket that is no longer open raises at once.
SendRefused(c) ==
    /\ sender[c] = "loop"
    /\ sock[c] # "open"
    /\ queue # <<>>
    /\ event' = [event EXCEPT ![c] = Head(queue)]
    /\ sender' = [sender EXCEPT ![c] = "done"]
    /\ UNCHANGED <<queueVars, wakeup, loopVars, sock, receiver, histVars>>

\* send() returns: the event leaves the queue if it is still at the head.  A
\* socket that closes cleanly releases its waiting writers, so the send may
\* also return after the socket has closed.
SendOk(c) ==
    /\ sender[c] = "sending"
    /\ acked' = acked \cup {event[c]}
    /\ queue' = PopIfHead(c)
    /\ sender' = [sender EXCEPT ![c] = "loop"]
    /\ UNCHANGED <<produced, evicted, wakeup, loopVars, sock, receiver, event,
                   sent>>

\* send() raises: the event stays queued and the task dies.
SendFail(c) ==
    /\ sender[c] = "sending"
    /\ sock[c] # "open"
    /\ sender' = [sender EXCEPT ![c] = "done"]
    /\ UNCHANGED <<queueVars, wakeup, loopVars, sock, receiver, event, histVars>>

\* Nothing is queued: clear the event, then wait for the next publish().
SendIdle(c) ==
    /\ sender[c] = "loop"
    /\ queue = <<>>
    /\ wakeup' = FALSE
    /\ sender' = [sender EXCEPT ![c] = "waiting"]
    /\ UNCHANGED <<queueVars, loopVars, sock, receiver, event, histVars>>

-----------------------------------------------------------------------------
(* _receive_loop of connection c. *)

\* A message arrives.  The allow-list test hashes the command: a command that
\* cannot be hashed raises TypeError, which ends the task.
Receive(c, m) ==
    /\ receiver[c] = "receiving"
    /\ sock[c] = "open"
    /\ receiver' = [receiver EXCEPT ![c] =
                      CASE m = "refresh_registry" -> "refreshing"
                        [] m = "unhashable" -> "done"
                        [] OTHER -> "receiving"]
    /\ UNCHANGED <<queueVars, wakeup, loopVars, sock, sender, event, histVars>>

\* FaceIndex.refresh() returns or raises; the exception is logged.
RefreshEnd(c) ==
    /\ receiver[c] = "refreshing"
    /\ receiver' = [receiver EXCEPT ![c] = "receiving"]
    /\ UNCHANGED <<queueVars, wakeup, loopVars, sock, sender, event, histVars>>

\* `async for` ends, normally or by an exception, when the socket is not open.
ReceiverEnd(c) ==
    /\ receiver[c] = "receiving"
    /\ sock[c] # "open"
    /\ receiver' = [receiver EXCEPT ![c] = "done"]
    /\ UNCHANGED <<queueVars, wakeup, loopVars, sock, sender, event, histVars>>

\* The ERP or the network closes the connection.
SocketBreak(c) ==
    /\ sock[c] = "open"
    /\ conn < MaxConns
    /\ sock' = [sock EXCEPT ![c] = "closed"]
    /\ UNCHANGED <<queueVars, wakeup, loopVars, sender, receiver, event, histVars>>

\* What the ERP sends is its own choice, except that the last connection of
\* the bound is not ended by it.
ErpSends(c) == \E m \in Inbound : /\ m = "unhashable" => conn < MaxConns
                                  /\ Receive(c, m)

-----------------------------------------------------------------------------
SenderStep(c) == SendBegin(c) \/ SendRefused(c) \/ SendOk(c) \/ SendFail(c)
                   \/ SendIdle(c)

ReceiverStep(c) == RefreshEnd(c) \/ ReceiverEnd(c)

LoopStep == ConnectOk \/ ConnectFail \/ PumpEnd \/ BackoffEnd \/ StopDone

Next == \/ Publish
        \/ Start \/ StopIdle \/ StopPumping
        \/ LoopStep
        \/ \E c \in Conn : SenderStep(c) \/ ReceiverStep(c) \/ ErpSends(c)
                             \/ SocketBreak(c)

Spec == Init /\ [][Next]_vars

\* The event loop runs every runnable task and no await in the code waits
\* forever for anything but the peer; the ERP accepts a connection infinitely
\* often if it is asked infinitely often (websockets.connect has a timeout, so
\* each attempt ends).  Nothing is assumed of Publish, Start, the two stops,
\* SocketBreak or what the ERP sends.
Fairness == /\ \A c \in Conn : WF_vars(SenderStep(c)) /\ WF_vars(ReceiverStep(c))
            /\ WF_vars(LoopStep)
            /\ SF_vars(ConnectOk)

FairSpec == Spec /\ Fairness

-----------------------------------------------------------------------------
(* Properties. *)

\* Every variable ranges over the values the code gives it; the queue never
\* holds more than QueueMax events.
TypeOK ==
    /\ queue \in Seq(Event) /\ Len(queue) <= QueueMax
    /\ produced \in 0 .. MaxEvents
    /\ evicted \subseteq Event /\ acked \subseteq Event
    /\ wakeup \in BOOLEAN /\ connected \in BOOLEAN
    /\ run \in {"off", "connecting", "pumping", "sleeping", "closing"}
    /\ delay \in DelayMin .. DelayMax
    /\ conn \in 0 .. MaxConns
    /\ sock \in [Conn -> {"unused", "open", "closed"}]
    /\ sender \in [Conn -> {"none", "loop", "sending", "waiting", "done"}]
    /\ receiver \in [Conn -> {"none", "receiving", "refreshing", "done"}]
    /\ event \in [Conn -> Event \cup {NoEvent}]
    /\ sent \in Seq([conn : Conn, event : Event])

\* No event disappears: whatever was published is queued, was accepted by a
\* socket, or was dropped by the full deque.  Breaks, reconnections, stops and
\* overflow during a send lose nothing else (erp_bridge.py:179-182).
NothingVanishes == 1 .. produced \subseteq Queued \cup acked \cup evicted

\* An event a socket has accepted is not in the queue, so no later connection
\* can send it again: only an event whose send never returned is repeated.
NoResendAfterAck == Queued \cap acked = {}

\* One connection never sees an event twice nor out of publishing order, even
\* when the queue overflows while its head is being sent.
OrderedPerConnection ==
    \A i, j \in 1 .. Len(sent) :
        i < j /\ sent[i].conn = sent[j].conn => sent[i].event < sent[j].event

\* A sender asleep in _wakeup.wait() has nothing to send, also when the sender
\* of a stopped connection waits on the same event (erp_bridge.py:183-184).
NoLostWakeup == \A c \in Conn : sender[c] = "waiting" => queue = <<>>

\* At most one socket is open, and it belongs to the running connection loop:
\* a stop or a reconnect never leaves a second live connection to the ERP.
OneLiveSocket == \A c \in Conn : sock[c] = "open" => c = conn /\ run = "pumping"

\* The queue behind this bridge is the outbox of Outbox.tla: whichever connection
\* sends, it sends the oldest event that waits, and events leave in order, by
\* acceptance or, only when the queue is full, by eviction.
Promise == INSTANCE Outbox WITH Capacity <- QueueMax,
                                first <- produced - Len(queue) + 1,
                                last <- produced,
                                sends <- [i \in 1 .. Len(sent) |-> sent[i].event],
                                handed <- acked
ImplementsOutbox == Promise!OutboxSpec

\* A published event is eventually accepted by a socket or dropped by the full
\* deque, provided stop() is not called for ever: no sequence of failures,
\* overflows, reconnections and restarts leaves it stuck.
Running == run \notin {"off", "closing"}
EventuallySettled ==
    <>[]Running => \A e \in Event : (produced >= e) ~> (e \in acked \cup evicted)

\* A running bridge without a live socket gets one in the end, unless stop() is
\* called: whichever task dies first, and even if the other would sleep for
\* ever, the loop notices that the connection is over (erp_bridge.py:164-166).
Live == conn # 0 /\ sock[conn] = "open"
EventuallyReconnects == (Running /\ ~Live) ~> (Live \/ ~Running)
=============================================================================
