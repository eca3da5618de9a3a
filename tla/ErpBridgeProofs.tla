-------------------------- MODULE ErpBridgeProofs --------------------------
(***************************************************************************)
(* Proofs about ErpBridge, for any queue size, any backoff and any number  *)
(* of events and connections.                                              *)
(***************************************************************************)
EXTENDS ErpBridge, SequenceTheorems, TLAPS

\* The number of the event at the head of the queue, or of the next event to be
\* published when the queue is empty.
HeadNo == produced - Len(queue) + 1

\* The queue is a window of the published events: nothing is missing inside it.
Window == /\ Len(queue) <= produced
          /\ \A i \in 1 .. Len(queue) : queue[i] = produced - Len(queue) + i

\* What has left the queue was published before its head.
Left == /\ acked \subseteq 1 .. HeadNo - 1
        /\ evicted \subseteq 1 .. HeadNo - 1
        /\ 1 .. HeadNo - 1 \subseteq acked \cup evicted

\* A sender holds the head, or an event that left the queue during the send.
Holding ==
    \A c \in Conn :
        /\ sender[c] = "sending" => event[c] \in 1 .. produced /\ event[c] <= HeadNo
        /\ sender[c] # "sending" /\ sender[c] # "done" => event[c] < HeadNo

\* It has given its event to its socket, and nothing newer.
Given ==
    /\ \A c \in Conn : sender[c] = "sending" =>
          \E i \in 1 .. Len(sent) : sent[i].conn = c /\ sent[i].event = event[c]
    /\ \A i \in 1 .. Len(sent) : sent[i].event <= event[sent[i].conn]

\* A connection that does not exist yet has no tasks.
Unused == \A c \in Conn : c > conn => sender[c] = "none"

IInv == TypeOK /\ Window /\ Left /\ Holding /\ Given /\ OrderedPerConnection
          /\ NoLostWakeup /\ OneLiveSocket /\ Unused

-----------------------------------------------------------------------------
(* The queue operations. *)

\* A window stays a window when an event is published and the oldest makes room.
LEMMA EnqueuedWindow ==
  ASSUME TypeOK, Window, produced < MaxEvents
  PROVE  /\ Enqueued \in Seq(Event)
         /\ Len(Enqueued) = IF Full THEN Len(queue) ELSE Len(queue) + 1
         /\ \A i \in 1 .. Len(Enqueued) :
               Enqueued[i] = produced + 1 - Len(Enqueued) + i
         /\ Full => Head(queue) = HeadNo /\ Len(queue) > 0
<1> USE BridgeAssumption DEF TypeOK, Window, Event, HeadNo
<1>1. CASE Full
  <2> DEFINE rest == Tail(queue)
  <2>1. queue # <<>> /\ Len(queue) > 0 /\ Head(queue) = queue[1]
    BY <1>1 DEF Full
  <2>2. rest \in Seq(Event) /\ Len(rest) = Len(queue) - 1
    BY <2>1
  <2>3. \A i \in 1 .. Len(rest) : rest[i] = produced + 1 - Len(queue) + i
    <3>1. \A i \in 1 .. Len(rest) : rest[i] = queue[i + 1]
      BY <2>1, <2>2
    <3> QED
      BY <2>2, <3>1
  <2>4. Enqueued = Append(rest, produced + 1) /\ produced + 1 \in Event
    BY <1>1 DEF Enqueued
  <2> HIDE DEF rest
  <2>5. Enqueued \in Seq(Event) /\ Len(Enqueued) = Len(queue)
    BY <2>2, <2>4
  <2>6. \A i \in 1 .. Len(queue) : Enqueued[i] = IF i < Len(queue) THEN rest[i]
                                                                 ELSE produced + 1
    BY <2>2, <2>4
  <2>7. \A i \in 1 .. Len(Enqueued) : Enqueued[i] = produced + 1 - Len(Enqueued) + i
    <3> SUFFICES ASSUME NEW i \in 1 .. Len(Enqueued)
                 PROVE  Enqueued[i] = produced + 1 - Len(Enqueued) + i
      OBVIOUS
    <3>1. Len(Enqueued) = Len(queue) /\ i \in 1 .. Len(queue) /\ Len(queue) \in Nat
      BY <2>5
    <3>2. CASE i < Len(queue)
      <4>1. i \in 1 .. Len(rest)
        BY <2>2, <3>1, <3>2
      <4> QED
        BY <2>3, <2>6, <3>1, <3>2, <4>1
    <3>3. CASE i = Len(queue)
      BY <2>6, <3>1, <3>3
    <3> QED
      BY <3>1, <3>2, <3>3
  <2>8. Head(queue) = HeadNo
    BY <2>1
  <2> QED
    BY <1>1, <2>1, <2>5, <2>7, <2>8
<1>2. CASE ~Full
  BY <1>2 DEF Enqueued
<1> QED
  BY <1>1, <1>2

\* A window stays a window when its head is popped.
LEMMA PoppedWindow ==
  ASSUME TypeOK, Window, NEW c \in Conn
  PROVE  \/ /\ queue # <<>> /\ event[c] = HeadNo
            /\ PopIfHead(c) = Tail(queue)
            /\ PopIfHead(c) \in Seq(Event)
            /\ Len(PopIfHead(c)) = Len(queue) - 1
            /\ \A i \in 1 .. Len(PopIfHead(c)) :
                  PopIfHead(c)[i] = produced - Len(PopIfHead(c)) + i
         \/ /\ queue = <<>> \/ event[c] # HeadNo
            /\ PopIfHead(c) = queue
<1> USE DEF TypeOK, Window, Event, HeadNo, PopIfHead
<1>1. CASE queue # <<>> /\ Head(queue) = event[c]
  <2> DEFINE rest == Tail(queue)
  <2>1. Len(queue) > 0 /\ Head(queue) = queue[1] /\ Head(queue) = HeadNo
    BY <1>1
  <2>2. rest \in Seq(Event) /\ Len(rest) = Len(queue) - 1
    BY <1>1
  <2>3. \A i \in 1 .. Len(rest) : rest[i] = produced - Len(rest) + i
    <3>1. \A i \in 1 .. Len(rest) : rest[i] = queue[i + 1]
      BY <1>1, <2>2
    <3> QED
      BY <2>2, <3>1
  <2>4. PopIfHead(c) = rest
    BY <1>1
  <2> HIDE DEF rest
  <2>5. \A i \in 1 .. Len(PopIfHead(c)) :
           PopIfHead(c)[i] = produced - Len(PopIfHead(c)) + i
    BY <2>3, <2>4
  <2>6. PopIfHead(c) \in Seq(Event) /\ Len(PopIfHead(c)) = Len(queue) - 1
    BY <2>2, <2>4
  <2>7. PopIfHead(c) = Tail(queue)
    BY <2>4 DEF rest
  <2> QED
    BY <1>1, <2>1, <2>5, <2>6, <2>7
<1>2. CASE queue = <<>> \/ Head(queue) # event[c]
  <2>1. queue # <<>> => Head(queue) = HeadNo
    OBVIOUS
  <2> QED
    BY <1>2, <2>1
<1> QED
  BY <1>1, <1>2


-----------------------------------------------------------------------------
(* Types. *)

LEMMA SentType ==
  ASSUME TypeOK
  PROVE  \A i \in 1 .. Len(sent) : sent[i].conn \in Conn /\ sent[i].event \in Nat
<1>1. sent \in Seq([conn : Conn, event : Event])
  BY DEF TypeOK
<1>2. \A i \in 1 .. Len(sent) : sent[i] \in [conn : Conn, event : Event]
  BY <1>1, ElementOfSeq
<1> QED
  BY <1>2 DEF Event

LEMMA InitTypeOK == Init => TypeOK
<1> SUFFICES ASSUME Init PROVE TypeOK
  OBVIOUS
<1> USE BridgeAssumption DEF Init, Conn, NoEvent
<1>1. queue \in Seq(Event) /\ Len(queue) <= QueueMax /\ delay \in DelayMin .. DelayMax
  OBVIOUS
<1>2. sent \in Seq([conn : Conn, event : Event])
  OBVIOUS
<1>3. /\ produced \in 0 .. MaxEvents /\ conn \in 0 .. MaxConns
      /\ evicted \subseteq Event /\ acked \subseteq Event
      /\ event \in [Conn -> Event \cup {NoEvent}]
  OBVIOUS
<1> QED
  BY <1>1, <1>2, <1>3 DEF TypeOK

\* The actions that leave the queue alone keep the types.
LEMMA TypeOKLoop ==
  ASSUME TypeOK, \/ Start \/ StopIdle \/ StopPumping \/ LoopStep
  PROVE  TypeOK'
<1> USE BridgeAssumption DEF TypeOK, Conn, NoEvent, queueVars, loopVars, histVars
<1>1. CASE Start
  BY <1>1 DEF Start
<1>2. CASE StopIdle
  BY <1>2 DEF StopIdle
<1>3. CASE StopPumping
  BY <1>3 DEF StopPumping, SocketClosed
<1>4. CASE ConnectOk
  BY <1>4 DEF ConnectOk, DelayOnConnect
<1>5. CASE ConnectFail
  BY <1>5 DEF ConnectFail
<1>6. CASE PumpEnd
  BY <1>6 DEF PumpEnd, SocketClosed
<1>7. CASE BackoffEnd
  <2>1. delay' \in DelayMin .. DelayMax
    BY <1>7 DEF BackoffEnd
  <2> QED
    BY <1>7, <2>1 DEF BackoffEnd
<1>8. CASE StopDone
  BY <1>8 DEF StopDone
<1> QED
  BY <1>1, <1>2, <1>3, <1>4, <1>5, <1>6, <1>7, <1>8 DEF LoopStep

LEMMA TypeOKSender ==
  ASSUME TypeOK, Window, Holding, NEW c \in Conn, SenderStep(c)
  PROVE  TypeOK'
<1> USE BridgeAssumption DEF TypeOK, NoEvent, queueVars, loopVars, histVars
<1>1. ASSUME queue # <<>> PROVE Head(queue) \in Event
  BY <1>1
<1>2. CASE SendBegin(c)
  BY <1>1, <1>2 DEF SendBegin
<1>3. CASE SendRefused(c)
  BY <1>1, <1>3 DEF SendRefused
<1>4. CASE SendOk(c)
  <2>1. PopIfHead(c) \in Seq(Event) /\ Len(PopIfHead(c)) <= QueueMax
    BY PoppedWindow
  <2>2. acked' \subseteq Event
    <3>1. event[c] \in Event
      BY <1>4 DEF SendOk, Holding, Event
    <3> QED
      BY <1>4, <3>1 DEF SendOk
  <2> QED
    BY <1>4, <2>1, <2>2 DEF SendOk
<1>5. CASE SendFail(c)
  BY <1>5 DEF SendFail
<1>6. CASE SendIdle(c)
  BY <1>6 DEF SendIdle
<1> QED
  BY <1>2, <1>3, <1>4, <1>5, <1>6 DEF SenderStep

-----------------------------------------------------------------------------
(* The inductive invariant, action by action. *)

LEMMA InitIInv == Init => IInv
<1> SUFFICES ASSUME Init PROVE IInv
  OBVIOUS
<1>1. TypeOK
  BY InitTypeOK
<1>2. Len(queue) = 0 /\ Len(sent) = 0
  BY DEF Init
<1>3. HeadNo = 1
  BY <1>2 DEF Init, HeadNo
<1> QED
  BY <1>1, <1>2, <1>3
  DEF Init, IInv, Window, Left, Holding, Given, OrderedPerConnection, NoLostWakeup,
      OneLiveSocket, Unused, NoEvent, Conn

\* Publishing moves the window by one and drops at most its oldest event.
LEMMA IInvPublish == ASSUME IInv, Publish PROVE IInv'
<1> USE BridgeAssumption
<1>a. TypeOK /\ Window /\ Left /\ Holding /\ Given /\ OrderedPerConnection
        /\ NoLostWakeup /\ OneLiveSocket /\ Unused
  BY DEF IInv
<1>1. /\ Enqueued \in Seq(Event)
      /\ Len(Enqueued) = IF Full THEN Len(queue) ELSE Len(queue) + 1
      /\ \A i \in 1 .. Len(Enqueued) :
            Enqueued[i] = produced + 1 - Len(Enqueued) + i
      /\ Full => Head(queue) = HeadNo /\ Len(queue) > 0
  BY <1>a, EnqueuedWindow DEF Publish
<1>2. /\ queue' = Enqueued /\ produced' = produced + 1
      /\ evicted' = IF Full THEN evicted \cup {Head(queue)} ELSE evicted
      /\ acked' = acked /\ event' = event /\ sent' = sent /\ sock' = sock
      /\ run' = run /\ conn' = conn /\ sender' = Awakened
  BY DEF Publish, histVars, loopVars
<1>3. /\ Len(queue) \in Nat /\ produced \in Nat /\ produced + 1 \in 1 .. MaxEvents
      /\ Len(queue) <= produced /\ Len(Enqueued) \in Nat
  BY <1>a, <1>1 DEF TypeOK, Publish, Window
<1>4. /\ HeadNo' = IF Full THEN HeadNo + 1 ELSE HeadNo
      /\ HeadNo \in 1 .. produced + 1
  BY <1>1, <1>2, <1>3 DEF HeadNo
<1>5. Window'
  <2> DEFINE W(q, p) == /\ Len(q) <= p
                        /\ \A i \in 1 .. Len(q) : q[i] = p - Len(q) + i
  <2>1. Len(Enqueued) <= produced + 1
    BY <1>1, <1>3
  <2>2. W(Enqueued, produced + 1)
    <3>1. ASSUME NEW i \in 1 .. Len(Enqueued)
          PROVE  Enqueued[i] = produced + 1 - Len(Enqueued) + i
      BY <1>1
    <3> QED
      BY <1>3, <2>1, <3>1
  <2> HIDE DEF W
  <2>3. W(queue', produced')
    BY <1>2, <2>2
  <2> QED
    BY <2>3 DEF W, Window
<1>6. Left'
  <2> DEFINE h == HeadNo
             h1 == HeadNo'
  <2>1. /\ \A e \in acked \cup evicted : e \in 1 .. h - 1
        /\ \A e \in 1 .. h - 1 : e \in acked \cup evicted
    BY <1>a DEF Left
  <2>2. h \in Nat /\ h1 = IF Full THEN h + 1 ELSE h
    BY <1>3, <1>4
  <2>3. evicted' = IF Full THEN evicted \cup {h} ELSE evicted
    BY <1>1, <1>2
  <2>4. h >= 1
    BY <1>3, <1>4
  <2> HIDE DEF h, h1
  <2>5. /\ \A e \in acked \cup evicted' : e \in 1 .. h1 - 1
        /\ \A e \in 1 .. h1 - 1 : e \in acked \cup evicted'
    BY <2>1, <2>2, <2>3, <2>4
  <2> QED
    BY <1>2, <2>5 DEF Left, h1
<1>7. Awakened \in [Conn -> {"none", "loop", "sending", "waiting", "done"}]
  BY <1>a DEF Awakened, TypeOK
<1>8. TypeOK'
  <2>1. Len(Enqueued) <= QueueMax
    BY <1>a, <1>1, <1>3 DEF Full, TypeOK
  <2>2. evicted' \subseteq Event
    <3>1. Full => Head(queue) \in Event
      BY <1>1, <1>3, <1>4 DEF Event, HeadNo
    <3> QED
      BY <1>a, <1>2, <3>1 DEF TypeOK
  <2> QED
    BY <1>a, <1>1, <1>2, <1>3, <1>7, <2>1, <2>2
    DEF TypeOK, Publish, loopVars, histVars
<1>9. Holding'
  <2> SUFFICES ASSUME NEW c \in Conn
               PROVE  /\ sender'[c] = "sending" =>
                            event[c] \in 1 .. produced + 1 /\ event[c] <= HeadNo'
                      /\ sender'[c] # "sending" /\ sender'[c] # "done" =>
                            event[c] < HeadNo'
    BY <1>2 DEF Holding
  <2>1. HeadNo <= HeadNo' /\ HeadNo \in Nat /\ HeadNo' \in Nat
    BY <1>3, <1>4
  <2>2. event[c] \in Nat
    BY <1>a DEF TypeOK, Event, NoEvent
  <2>3. /\ sender'[c] = "sending" => sender[c] = "sending"
        /\ sender'[c] # "sending" /\ sender'[c] # "done" =>
              sender[c] # "sending" /\ sender[c] # "done"
    BY <1>a, <1>2 DEF Awakened, TypeOK
  <2> QED
    BY <1>a, <1>3, <2>1, <2>2, <2>3 DEF Holding
<1>10. Given' /\ OrderedPerConnection' /\ OneLiveSocket'
  BY <1>a, <1>2 DEF Given, OrderedPerConnection, OneLiveSocket, Awakened, TypeOK
<1>11. NoLostWakeup' /\ Unused'
  BY <1>a, <1>2, <1>7 DEF NoLostWakeup, Unused, Awakened
<1> QED
  BY <1>5, <1>6, <1>8, <1>9, <1>10, <1>11 DEF IInv

\* The connection loop opens and closes sockets and starts and ends tasks.
LEMMA IInvLoop ==
  ASSUME IInv, \/ Start \/ StopIdle \/ StopPumping \/ LoopStep
  PROVE  IInv'
<1> USE BridgeAssumption DEF queueVars, loopVars, histVars
<1>a. TypeOK /\ Window /\ Left /\ Holding /\ Given /\ OrderedPerConnection
        /\ NoLostWakeup /\ OneLiveSocket /\ Unused
  BY DEF IInv
<1>1. TypeOK'
  BY <1>a, TypeOKLoop
<1>2. UNCHANGED <<queue, produced, evicted, acked, event, sent>>
  BY DEF Start, StopIdle, StopPumping, LoopStep, ConnectOk, ConnectFail, PumpEnd,
         BackoffEnd, StopDone
<1>3. \A c \in Conn :
         \/ sender'[c] \in {sender[c], "done"}
         \/ sender[c] = "none" /\ sender'[c] = "loop"
  BY <1>a, SMTT(30)
  DEF Start, StopIdle, StopPumping, LoopStep, ConnectOk, ConnectFail, PumpEnd,
      BackoffEnd, StopDone, TypeOK, Conn, Unused
<1>4. Unused'
  BY <1>a
  DEF Start, StopIdle, StopPumping, LoopStep, ConnectOk, ConnectFail, PumpEnd,
      BackoffEnd, StopDone, TypeOK, Conn, Unused
<1>5. OneLiveSocket'
  BY <1>a
  DEF Start, StopIdle, StopPumping, LoopStep, ConnectOk, ConnectFail, PumpEnd,
      BackoffEnd, StopDone, TypeOK, Conn, OneLiveSocket, SocketClosed
<1>6. HeadNo' = HeadNo
  BY <1>2 DEF HeadNo
<1>7. Window' /\ Left' /\ OrderedPerConnection'
  BY <1>a, <1>2, <1>6 DEF Window, Left, OrderedPerConnection
<1>8. Holding' /\ Given' /\ NoLostWakeup'
  BY <1>a, <1>2, <1>3, <1>6 DEF Holding, Given, NoLostWakeup
<1> QED
  BY <1>1, <1>4, <1>5, <1>7, <1>8 DEF IInv

\* A sender peeks at the head, gives it to its socket, and pops it afterwards.
LEMMA IInvSender == ASSUME IInv, NEW c \in Conn, SenderStep(c) PROVE IInv'
<1> USE BridgeAssumption DEF queueVars, loopVars, histVars
<1>a. TypeOK /\ Window /\ Left /\ Holding /\ Given /\ OrderedPerConnection
        /\ NoLostWakeup /\ OneLiveSocket /\ Unused
  BY DEF IInv
<1>1. TypeOK'
  BY <1>a, TypeOKSender
<1>2. /\ UNCHANGED <<produced, evicted, conn, sock, run>>
      /\ sender[c] \in {"loop", "sending"}
      /\ \A d \in Conn \ {c} : /\ sender'[d] = sender[d]
                               /\ event'[d] = event[d]
  BY <1>a DEF SenderStep, SendBegin, SendRefused, SendOk, SendFail, SendIdle, TypeOK
<1>3. Unused' /\ OneLiveSocket'
  BY <1>a, <1>2 DEF Unused, OneLiveSocket
<1>4. /\ Len(queue) \in Nat /\ produced \in Nat /\ Len(queue) <= produced
      /\ HeadNo \in 1 .. produced + 1
      /\ queue # <<>> => Head(queue) = HeadNo /\ HeadNo <= produced
  BY <1>a DEF TypeOK, Window, HeadNo
<1>5. CASE SendBegin(c)
  <2> DEFINE new == [conn |-> c, event |-> HeadNo]
  <2>1. /\ UNCHANGED <<queue, acked>> /\ HeadNo' = HeadNo
        /\ event'[c] = HeadNo /\ sent' = Append(sent, new)
        /\ sender'[c] = "sending" /\ HeadNo \in 1 .. produced
    BY <1>a, <1>4, <1>5 DEF SendBegin, TypeOK, HeadNo
  <2>2. Window' /\ Left'
    BY <1>a, <1>2, <2>1 DEF Window, Left
  <2>3. NoLostWakeup'
    BY <1>a, <1>2, <2>1 DEF NoLostWakeup
  <2>4. event[c] \in Nat /\ event[c] < HeadNo
    BY <1>a, <1>5 DEF Holding, SendBegin, TypeOK, Event, NoEvent
  <2>5. /\ Len(sent) \in Nat /\ Len(sent') = Len(sent) + 1
        /\ \A i \in 1 .. Len(sent) : sent'[i] = sent[i]
        /\ sent'[Len(sent) + 1] = new
    <3>1. sent \in Seq([conn : Conn, event : Event])
      BY <1>a DEF TypeOK
    <3> QED
      BY <2>1, <3>1
  <2>6. \A i \in 1 .. Len(sent') : i \in 1 .. Len(sent) \/ i = Len(sent) + 1
    BY <2>5
  <2>7. \A i \in 1 .. Len(sent) : sent[i].conn \in Conn /\ sent[i].event \in Nat
    BY <1>a, SentType
  <2>8. Holding'
    <3> SUFFICES ASSUME NEW d \in Conn
                 PROVE  /\ sender'[d] = "sending" =>
                              event'[d] \in 1 .. produced' /\ event'[d] <= HeadNo'
                        /\ sender'[d] # "sending" /\ sender'[d] # "done" =>
                              event'[d] < HeadNo'
      BY DEF Holding
    <3>1. CASE d = c
      BY <1>2, <1>4, <2>1, <3>1
    <3>2. CASE d # c
      BY <1>a, <1>2, <2>1, <3>2 DEF Holding
    <3> QED
      BY <3>1, <3>2
  <2>9. \A i \in 1 .. Len(sent) : sent[i].conn = c => sent[i].event < HeadNo
    BY <1>a, <1>4, <2>4, <2>7 DEF Given
  <2>10. Given'
    <3>1. ASSUME NEW d \in Conn, sender'[d] = "sending"
          PROVE  \E i \in 1 .. Len(sent') :
                    sent'[i].conn = d /\ sent'[i].event = event'[d]
      <4>1. CASE d = c
        <5>1. Len(sent) + 1 \in 1 .. Len(sent')
          BY <2>5
        <5> QED
          BY <2>1, <2>5, <4>1, <5>1
      <4>2. CASE d # c
        <5>1. sender[d] = "sending" /\ event'[d] = event[d]
          BY <1>2, <3>1, <4>2
        <5>2. PICK i \in 1 .. Len(sent) : sent[i].conn = d /\ sent[i].event = event[d]
          BY <1>a, <5>1 DEF Given
        <5>3. i \in 1 .. Len(sent') /\ sent'[i] = sent[i]
          BY <2>5
        <5> QED
          BY <5>1, <5>2, <5>3
      <4> QED
        BY <4>1, <4>2
    <3>2. ASSUME NEW i \in 1 .. Len(sent')
          PROVE  sent'[i].event <= event'[sent'[i].conn]
      <4>1. CASE i = Len(sent) + 1
        BY <1>4, <2>1, <2>5, <4>1
      <4>2. CASE i \in 1 .. Len(sent) /\ sent[i].conn = c
        <5>1. sent'[i] = sent[i]
          BY <2>5, <4>2
        <5> QED
          BY <1>4, <2>1, <2>7, <2>9, <4>2, <5>1
      <4>3. CASE i \in 1 .. Len(sent) /\ sent[i].conn # c
        BY <1>a, <1>2, <2>5, <2>7, <4>3 DEF Given
      <4> QED
        BY <2>6, <4>1, <4>2, <4>3
    <3> QED
      BY <3>1, <3>2 DEF Given
  <2>11. OrderedPerConnection'
    <3> SUFFICES ASSUME NEW i \in 1 .. Len(sent'), NEW j \in 1 .. Len(sent'),
                        i < j, sent'[i].conn = sent'[j].conn
                 PROVE  sent'[i].event < sent'[j].event
      BY DEF OrderedPerConnection
    <3>1. i \in 1 .. Len(sent) /\ sent'[i] = sent[i]
      <4>1. i \in 1 .. Len(sent)
        BY <2>5
      <4> QED
        BY <2>5, <4>1
    <3>2. CASE j = Len(sent) + 1
      <4>1. sent'[j] = new
        BY <2>5, <3>2
      <4> QED
        BY <2>9, <3>1, <4>1
    <3>3. CASE j \in 1 .. Len(sent)
      BY <1>a, <2>5, <3>1, <3>3 DEF OrderedPerConnection
    <3> QED
      BY <2>6, <3>2, <3>3
  <2> QED
    BY <1>1, <1>3, <2>2, <2>3, <2>8, <2>10, <2>11 DEF IInv
<1>6. CASE SendOk(c)
  <2>1. /\ acked' = acked \cup {event[c]} /\ queue' = PopIfHead(c)
        /\ UNCHANGED <<event, sent>> /\ sender[c] = "sending" /\ sender'[c] = "loop"
    BY <1>a, <1>6 DEF SendOk, TypeOK
  <2>2. event[c] \in 1 .. produced /\ event[c] <= HeadNo
    BY <1>a, <2>1 DEF Holding
  <2>3. CASE queue # <<>> /\ event[c] = HeadNo /\ queue' # queue
    <3>1. /\ Len(queue') = Len(queue) - 1
          /\ \A i \in 1 .. Len(queue') : queue'[i] = produced - Len(queue') + i
      BY <1>a, <2>1, <2>3, PoppedWindow
    <3>2. HeadNo' = HeadNo + 1
      BY <1>2, <1>4, <3>1 DEF HeadNo
    <3>3. Window'
      <4>1. Len(queue') <= produced' /\ produced' = produced
        BY <1>2, <1>4, <3>1
      <4> QED
        BY <3>1, <4>1 DEF Window
    <3>4. Left'
      BY <1>a, <1>2, <1>4, <2>1, <2>3, <3>2 DEF Left
    <3>5. Holding'
      <4> SUFFICES ASSUME NEW d \in Conn
                   PROVE  /\ sender'[d] = "sending" =>
                               event[d] \in 1 .. produced /\ event[d] <= HeadNo + 1
                          /\ sender'[d] # "sending" /\ sender'[d] # "done" =>
                               event[d] < HeadNo + 1
        BY <1>2, <2>1, <3>2 DEF Holding
      <4>1. event[d] \in Nat
        BY <1>a DEF TypeOK, Event, NoEvent
      <4> QED
        BY <1>a, <1>2, <1>4, <2>1, <2>2, <4>1 DEF Holding
    <3>6. Given' /\ OrderedPerConnection'
      BY <1>a, <1>2, <2>1 DEF Given, OrderedPerConnection
    <3>7. NoLostWakeup'
      BY <1>a, <1>2, <2>1, <2>3 DEF NoLostWakeup
    <3> QED
      BY <1>1, <1>3, <3>3, <3>4, <3>5, <3>6, <3>7 DEF IInv
  <2>4. CASE queue' = queue
    <3>1. event[c] < HeadNo
      <4>1. queue = <<>> \/ event[c] # HeadNo
        <5>1. CASE PopIfHead(c) = Tail(queue) /\ Len(PopIfHead(c)) = Len(queue) - 1
          BY <1>4, <2>1, <2>4, <5>1
        <5> QED
          BY <1>a, <5>1, PoppedWindow
      <4>2. queue = <<>> => HeadNo = produced + 1
        BY <1>4 DEF HeadNo
      <4> QED
        BY <1>4, <2>2, <4>1, <4>2
    <3>2. HeadNo' = HeadNo
      BY <1>2, <2>4 DEF HeadNo
    <3>3. Window' /\ OrderedPerConnection'
      BY <1>a, <1>2, <2>1, <2>4 DEF Window, OrderedPerConnection
    <3>4. Left'
      <4>1. event[c] \in 1 .. HeadNo - 1
        BY <1>4, <2>2, <3>1
      <4>2. acked' \subseteq 1 .. HeadNo - 1 /\ acked \subseteq acked'
        BY <1>a, <2>1, <4>1 DEF Left
      <4> QED
        BY <1>a, <1>2, <3>2, <4>2 DEF Left
    <3>5. Holding' /\ Given'
      BY <1>a, <1>2, <1>4, <2>1, <3>1, <3>2 DEF Holding, Given
    <3>6. NoLostWakeup'
      BY <1>a, <1>2, <2>1, <2>4 DEF NoLostWakeup
    <3> QED
      BY <1>1, <1>3, <3>3, <3>4, <3>5, <3>6 DEF IInv
  <2> QED
    BY <1>a, <2>1, <2>3, <2>4, PoppedWindow
<1>7. CASE SendRefused(c)
  <2>1. /\ UNCHANGED <<queue, acked, sent>> /\ HeadNo' = HeadNo
        /\ event'[c] = HeadNo /\ sender'[c] = "done" /\ sender[c] = "loop"
    BY <1>a, <1>4, <1>7 DEF SendRefused, TypeOK, HeadNo
  <2>2. Window' /\ Left' /\ OrderedPerConnection'
    BY <1>a, <1>2, <2>1 DEF Window, Left, OrderedPerConnection
  <2>3. event[c] \in Nat /\ event[c] < HeadNo
    BY <1>a, <2>1 DEF Holding, TypeOK, Event, NoEvent
  <2>4. Holding' /\ Given'
    <3>1. Holding'
      BY <1>a, <1>2, <2>1 DEF Holding
    <3>2. \A i \in 1 .. Len(sent) : sent[i].conn \in Conn /\ sent[i].event \in Nat
      BY <1>a, SentType
    <3>3. Given'
      BY <1>a, <1>2, <1>4, <2>1, <2>3, <3>2 DEF Given
    <3> QED
      BY <3>1, <3>3
  <2>5. NoLostWakeup'
    BY <1>a, <1>2, <2>1 DEF NoLostWakeup
  <2> QED
    BY <1>1, <1>3, <2>2, <2>4, <2>5 DEF IInv
<1>8. CASE SendFail(c) \/ SendIdle(c)
  <2>1. /\ UNCHANGED <<queue, acked, sent, event>> /\ HeadNo' = HeadNo
        /\ \/ sender'[c] = "done"
           \/ sender[c] = "loop" /\ sender'[c] = "waiting" /\ queue = <<>>
    BY <1>a, <1>8 DEF SendFail, SendIdle, TypeOK, HeadNo
  <2>2. Window' /\ Left' /\ OrderedPerConnection'
    BY <1>a, <1>2, <2>1 DEF Window, Left, OrderedPerConnection
  <2>3. Holding' /\ Given' /\ NoLostWakeup'
    BY <1>a, <1>2, <2>1 DEF Holding, Given, NoLostWakeup
  <2> QED
    BY <1>1, <1>3, <2>2, <2>3 DEF IInv
<1> QED
  BY <1>5, <1>6, <1>7, <1>8 DEF SenderStep

\* The receivers, the ERP and the network leave the queue and the senders alone.
LEMMA IInvPeer ==
  ASSUME IInv, NEW c \in Conn, ReceiverStep(c) \/ ErpSends(c) \/ SocketBreak(c)
  PROVE  IInv'
<1> USE BridgeAssumption DEF queueVars, loopVars, histVars
<1>a. TypeOK /\ Window /\ Left /\ Holding /\ Given /\ OrderedPerConnection
        /\ NoLostWakeup /\ OneLiveSocket /\ Unused
  BY DEF IInv
<1>1. UNCHANGED <<queueVars, wakeup, loopVars, sender, event, histVars>>
  BY DEF ReceiverStep, RefreshEnd, ReceiverEnd, ErpSends, Receive, SocketBreak
<1>2. \A d \in Conn : sock'[d] \in {sock[d], "closed"}
  BY <1>a
  DEF ReceiverStep, RefreshEnd, ReceiverEnd, ErpSends, Receive, SocketBreak, TypeOK
<1>3. /\ sock' \in [Conn -> {"unused", "open", "closed"}]
      /\ receiver' \in [Conn -> {"none", "receiving", "refreshing", "done"}]
  <2>1. CASE ReceiverStep(c) \/ SocketBreak(c)
    BY <1>a, <2>1 DEF ReceiverStep, RefreshEnd, ReceiverEnd, SocketBreak, TypeOK
  <2>2. CASE ErpSends(c)
    <3>1. PICK m \in Inbound : Receive(c, m)
      BY <2>2 DEF ErpSends
    <3> QED
      BY <1>a, <3>1 DEF Receive, TypeOK
  <2> QED
    BY <2>1, <2>2
<1>4. TypeOK'
  BY <1>a, <1>1, <1>3 DEF TypeOK
<1>5. HeadNo' = HeadNo
  BY <1>1 DEF HeadNo
<1>6. Window' /\ Left' /\ Holding' /\ Given' /\ OrderedPerConnection' /\ NoLostWakeup'
        /\ Unused'
  BY <1>a, <1>1, <1>5
  DEF Window, Left, Holding, Given, OrderedPerConnection, NoLostWakeup, Unused
<1>7. OneLiveSocket'
  BY <1>a, <1>1, <1>2 DEF OneLiveSocket
<1> QED
  BY <1>4, <1>6, <1>7 DEF IInv

LEMMA NextIInv == IInv /\ [Next]_vars => IInv'
<1> SUFFICES ASSUME IInv, [Next]_vars PROVE IInv'
  OBVIOUS
<1>1. CASE Publish
  BY <1>1, IInvPublish
<1>2. CASE Start \/ StopIdle \/ StopPumping \/ LoopStep
  BY <1>2, IInvLoop
<1>3. ASSUME NEW c \in Conn, SenderStep(c) PROVE IInv'
  BY <1>3, IInvSender
<1>4. ASSUME NEW c \in Conn, ReceiverStep(c) \/ ErpSends(c) \/ SocketBreak(c)
      PROVE  IInv'
  BY <1>4, IInvPeer
<1>5. CASE UNCHANGED vars
  BY <1>5
  DEF vars, queueVars, loopVars, histVars, IInv, TypeOK, Window, Left, Holding, Given, HeadNo,
      OrderedPerConnection, NoLostWakeup, OneLiveSocket, Unused
<1> QED
  BY <1>1, <1>2, <1>3, <1>4, <1>5 DEF Next

LEMMA SpecIInv == Spec => []IInv
<1>1. Init => IInv
  BY InitIInv
<1>2. IInv /\ [Next]_vars => IInv'
  BY NextIInv
<1> QED
  BY <1>1, <1>2, PTL DEF Spec

-----------------------------------------------------------------------------
(* The theorems. *)

\* Every variable keeps its range and the queue never exceeds QueueMax events,
\* whatever publish(), the sockets and the stops do.
THEOREM TypeCorrect == Spec => []TypeOK
<1>1. IInv => TypeOK
  BY DEF IInv
<1> QED
  BY <1>1, SpecIInv, PTL

\* Every published event is queued, accepted by a socket or dropped by the full
\* deque: the pop-if-still-head of _send_loop (erp_bridge.py:179-182) loses none.
THEOREM NoEventVanishes == Spec => []NothingVanishes
<1>1. IInv => NothingVanishes
  <2> SUFFICES ASSUME IInv, NEW e \in 1 .. produced
               PROVE  e \in Queued \cup acked \cup evicted
    BY DEF NothingVanishes
  <2>1. Len(queue) \in Nat /\ produced \in Nat /\ Len(queue) <= produced
    BY DEF IInv, TypeOK, Window
  <2>2. CASE e < HeadNo
    BY <2>1, <2>2 DEF IInv, Left, HeadNo
  <2>3. CASE e >= HeadNo
    <3> DEFINE k == e - HeadNo + 1
    <3>1. k \in 1 .. Len(queue) /\ produced - Len(queue) + k = e
      BY <2>1, <2>3 DEF HeadNo
    <3>2. queue[k] = e
      BY <3>1 DEF IInv, Window
    <3> QED
      BY <3>1, <3>2 DEF Queued
  <2>4. HeadNo \in Nat
    BY <2>1 DEF HeadNo
  <2> QED
    BY <2>2, <2>3, <2>4
<1> QED
  BY <1>1, SpecIInv, PTL

\* An accepted event has left the queue: reconnecting repeats at most the event
\* whose send() never returned.
THEOREM NoEventResent == Spec => []NoResendAfterAck
<1>1. IInv => NoResendAfterAck
  <2> SUFFICES ASSUME IInv, NEW k \in 1 .. Len(queue), queue[k] \in acked
               PROVE  FALSE
    BY DEF NoResendAfterAck, Queued
  <2>1. Len(queue) \in Nat /\ produced \in Nat
    BY DEF IInv, TypeOK
  <2>2. queue[k] = produced - Len(queue) + k
    BY DEF IInv, Window
  <2>3. queue[k] \in 1 .. HeadNo - 1
    BY DEF IInv, Left
  <2> QED
    BY <2>1, <2>2, <2>3 DEF HeadNo
<1> QED
  BY <1>1, SpecIInv, PTL

\* A connection receives events in publishing order and none twice, even when the
\* head it is sending is dropped by an overflow.
THEOREM ConnectionsOrdered == Spec => []OrderedPerConnection
<1>1. IInv => OrderedPerConnection
  BY DEF IInv
<1> QED
  BY <1>1, SpecIInv, PTL

\* No sender sleeps in _wakeup.wait() while an event is queued, the senders left
\* behind by stop() included (erp_bridge.py:183-184).
THEOREM WakeupsNeverLost == Spec => []NoLostWakeup
<1>1. IInv => NoLostWakeup
  BY DEF IInv
<1> QED
  BY <1>1, SpecIInv, PTL

\* Stops, restarts and reconnections never leave two sockets open to the ERP.
THEOREM OneSocketAtATime == Spec => []OneLiveSocket
<1>1. IInv => OneLiveSocket
  BY DEF IInv
<1> QED
  BY <1>1, SpecIInv, PTL

-----------------------------------------------------------------------------
(* The bridge implements the outbox. *)

\* A send that returns either pops the head it sent or finds its event gone.
LEMMA SendOkCases ==
  ASSUME IInv, NEW c \in Conn, SendOk(c)
  PROVE  \/ event[c] = HeadNo /\ HeadNo <= produced /\ HeadNo' = HeadNo + 1
         \/ event[c] \in 1 .. HeadNo - 1 /\ HeadNo' = HeadNo
<1>a. TypeOK /\ Window /\ Holding
  BY DEF IInv
<1>1. event[c] \in 1 .. produced /\ event[c] <= HeadNo
  BY <1>a DEF SendOk, Holding
<1>2. /\ Len(queue) \in Nat /\ produced \in Nat /\ HeadNo \in Nat
      /\ queue = <<>> => HeadNo = produced + 1
      /\ queue # <<>> => HeadNo <= produced
  BY <1>a DEF TypeOK, Window, HeadNo
<1>3. queue' = PopIfHead(c) /\ produced' = produced
  BY DEF SendOk
<1>4. CASE queue # <<>> /\ event[c] = HeadNo /\ Len(PopIfHead(c)) = Len(queue) - 1
  <2>1. HeadNo' = HeadNo + 1
    BY <1>2, <1>3, <1>4 DEF HeadNo
  <2> QED
    BY <1>2, <1>4, <2>1
<1>5. CASE (queue = <<>> \/ event[c] # HeadNo) /\ PopIfHead(c) = queue
  <2>1. HeadNo' = HeadNo
    BY <1>3, <1>5 DEF HeadNo
  <2>2. event[c] \in 1 .. HeadNo - 1
    BY <1>1, <1>2, <1>5
  <2> QED
    BY <2>1, <2>2
<1> QED
  BY <1>a, <1>4, <1>5, PoppedWindow

\* The events of the sends, in the order in which the sends began.
Sends == [i \in 1 .. Len(sent) |-> sent[i].event]

LEMMA SendsType ==
  ASSUME TypeOK
  PROVE  /\ Sends \in Seq(Nat) /\ Len(Sends) = Len(sent)
         /\ \A i \in 1 .. Len(sent) : Sends[i] = sent[i].event
<1>1. sent \in Seq([conn : Conn, event : Event])
  BY DEF TypeOK
<1>2. Len(sent) \in Nat
  BY <1>1
<1> QED
  BY <1>2, SentType DEF Sends

LEMMA SendsGrow ==
  ASSUME TypeOK, NEW c \in Conn, NEW e \in Nat,
         sent' = Append(sent, [conn |-> c, event |-> e])
  PROVE  Sends' = Append(Sends, e)
<1> DEFINE new == [conn |-> c, event |-> e]
<1>1. /\ Len(sent) \in Nat /\ Len(sent') = Len(sent) + 1
      /\ \A i \in 1 .. Len(sent) : sent'[i] = sent[i]
      /\ sent'[Len(sent) + 1] = new
  <2>1. sent \in Seq([conn : Conn, event : Event])
    BY DEF TypeOK
  <2> QED
    BY <2>1
<1>2. /\ Append(Sends, e) \in Seq(Nat) /\ Len(Append(Sends, e)) = Len(sent) + 1
      /\ \A i \in 1 .. Len(sent) : Append(Sends, e)[i] = sent[i].event
      /\ Append(Sends, e)[Len(sent) + 1] = e
  BY <1>1, SendsType, AppendProperties
<1>3. Append(Sends, e) = [i \in 1 .. Len(sent) + 1 |-> Append(Sends, e)[i]]
  BY <1>2, LenProperties
<1>4. \A i \in 1 .. Len(sent) + 1 : Append(Sends, e)[i] = sent'[i].event
  <2> SUFFICES ASSUME NEW i \in 1 .. Len(sent) + 1
               PROVE  Append(Sends, e)[i] = sent'[i].event
    OBVIOUS
  <2>1. CASE i \in 1 .. Len(sent)
    BY <1>1, <1>2, <2>1
  <2>2. CASE i = Len(sent) + 1
    BY <1>1, <1>2, <2>2
  <2>3. i \in 1 .. Len(sent) \/ i = Len(sent) + 1
    BY <1>1
  <2> QED
    BY <2>1, <2>2, <2>3
<1>5. Sends' = [i \in 1 .. Len(sent) + 1 |-> sent'[i].event]
  BY <1>1 DEF Sends
<1> HIDE DEF Sends
<1> QED
  BY <1>3, <1>4, <1>5

LEMMA StepImplements ==
  ASSUME IInv, [Next]_vars
  PROVE  [Promise!OutboxNext]_(Promise!outboxVars)
<1> USE BridgeAssumption DEF queueVars, loopVars, histVars, Sends
<1>a. TypeOK /\ Window /\ Left /\ Holding /\ Given
  BY DEF IInv
<1>s. /\ Len(Sends) = Len(sent)
      /\ \A i \in 1 .. Len(sent) : Sends[i] = sent[i].event
  BY <1>a, SendsType
<1>m. UNCHANGED sent => UNCHANGED Sends
  OBVIOUS
<1>1. Len(queue) \in Nat /\ produced \in Nat /\ Len(queue) <= QueueMax
  BY <1>a DEF TypeOK
<1>2. CASE Publish
  <2>1. /\ Len(Enqueued) = IF Full THEN Len(queue) ELSE Len(queue) + 1
        /\ Full => Head(queue) = HeadNo
    BY <1>a, <1>2, EnqueuedWindow DEF Publish
  <2>2. /\ produced < MaxEvents /\ produced' = produced + 1 /\ acked' = acked
        /\ evicted' = IF Full THEN evicted \cup {Head(queue)} ELSE evicted
        /\ queue' = Enqueued /\ sent' = sent
    BY <1>2 DEF Publish
  <2>3. HeadNo' = IF Full THEN HeadNo + 1 ELSE HeadNo
    BY <1>1, <2>1, <2>2 DEF HeadNo
  <2>4. Full <=> produced - HeadNo + 1 = QueueMax
    BY <1>1 DEF Full, HeadNo
  <2>5. Promise!Put
    BY <1>m, <2>1, <2>2, <2>3, <2>4 DEF Promise!Put, HeadNo
  <2> QED
    BY <2>5 DEF Promise!OutboxNext
<1>3. ASSUME NEW c \in Conn, SendOk(c)
      PROVE  [Promise!OutboxNext]_(Promise!outboxVars)
  <2>1. acked' = acked \cup {event[c]} /\ UNCHANGED <<produced, evicted, sent>>
    BY <1>3 DEF SendOk
  <2>2. Promise!Begun(event[c])
    <3>1. PICK i \in 1 .. Len(sent) : sent[i].event = event[c]
      BY <1>a, <1>3 DEF Given, SendOk
    <3>2. i \in 1 .. Len(Sends) /\ Sends[i] = event[c]
      BY <1>s, <3>1
    <3> QED
      BY <3>2 DEF Promise!Begun
  <2>3. CASE event[c] = HeadNo /\ HeadNo <= produced /\ HeadNo' = HeadNo + 1
    <3>1. Promise!HandOver
      BY <1>m, <2>1, <2>2, <2>3 DEF Promise!HandOver, Promise!NextOldest, HeadNo
    <3> QED
      BY <3>1 DEF Promise!OutboxNext
  <2>4. CASE event[c] \in 1 .. HeadNo - 1 /\ HeadNo' = HeadNo
    <3>1. event[c] \in acked \cup evicted
      BY <1>a, <2>4 DEF Left
    <3>2. CASE event[c] \in acked
      <4>1. acked' = acked
        BY <2>1, <3>2
      <4> QED
        BY <1>m, <2>1, <2>4, <4>1 DEF Promise!outboxVars, HeadNo
    <3>3. CASE event[c] \in evicted
      <4>1. Promise!LateAcceptance
        BY <1>m, <2>1, <2>2, <2>4, <3>3 DEF Promise!LateAcceptance, HeadNo
      <4> QED
        BY <4>1 DEF Promise!OutboxNext
    <3> QED
      BY <3>1, <3>2, <3>3
  <2> QED
    BY <1>3, <2>3, <2>4, SendOkCases
<1>4. ASSUME UNCHANGED <<queue, produced, evicted, acked, sent>>
      PROVE  UNCHANGED Promise!outboxVars
  BY <1>4 DEF Promise!outboxVars
<1>5. CASE Start \/ StopIdle \/ StopPumping \/ LoopStep
  <2>1. UNCHANGED <<queue, produced, evicted, acked, sent>>
    BY <1>5
    DEF Start, StopIdle, StopPumping, LoopStep, ConnectOk, ConnectFail, PumpEnd,
        BackoffEnd, StopDone
  <2> QED
    BY <1>4, <2>1
<1>6. ASSUME NEW c \in Conn, SendBegin(c)
      PROVE  Promise!OutboxNext
  <2>1. /\ UNCHANGED <<queue, produced, evicted, acked>> /\ queue # <<>>
        /\ sent' = Append(sent, [conn |-> c, event |-> Head(queue)])
    BY <1>6 DEF SendBegin
  <2>2. Head(queue) = HeadNo /\ HeadNo <= produced /\ HeadNo' = HeadNo
    BY <1>a, <2>1 DEF TypeOK, Window, HeadNo
  <2>3. Sends' = Append(Sends, HeadNo)
    BY <1>a, <2>1, <2>2, SendsGrow
  <2>4. Promise!BeginSend
    BY <2>1, <2>2, <2>3 DEF Promise!BeginSend, HeadNo
  <2> QED
    BY <2>4 DEF Promise!OutboxNext
<1>7. ASSUME NEW c \in Conn,
             SendRefused(c) \/ SendFail(c) \/ SendIdle(c)
               \/ ReceiverStep(c) \/ ErpSends(c) \/ SocketBreak(c)
      PROVE  UNCHANGED Promise!outboxVars
  <2>1. UNCHANGED <<queue, produced, evicted, acked, sent>>
    BY <1>7
    DEF SendRefused, SendFail, SendIdle, ReceiverStep, RefreshEnd,
        ReceiverEnd, ErpSends, Receive, SocketBreak
  <2> QED
    BY <1>4, <2>1
<1>8. CASE UNCHANGED vars
  BY <1>4, <1>8 DEF vars, queueVars, histVars
<1> QED
  BY <1>2, <1>3, <1>5, <1>6, <1>7, <1>8 DEF Next, SenderStep

\* The queue, with all its sockets, tasks, stops and reconnections, is the outbox
\* of Outbox.tla: events leave it at the old end only, accepted or, when it is
\* full, evicted, and only an evicted event is accepted late.
THEOREM BridgeImplementsOutbox == Spec => ImplementsOutbox
<1>1. Init => Promise!OutboxInit
  BY DEF Init, Promise!OutboxInit
<1>2. IInv /\ [Next]_vars => [Promise!OutboxNext]_(Promise!outboxVars)
  BY StepImplements
<1> QED
  BY <1>1, <1>2, SpecIInv, PTL DEF Spec, ImplementsOutbox, Promise!OutboxSpec

=============================================================================
