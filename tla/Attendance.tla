------------------------------ MODULE Attendance ------------------------------
(***************************************************************************)
(* Cameras, ERP bridge and the life of the process together: how a commit  *)
(* of app/routers/stream.py becomes an event of app/services/              *)
(* erp_bridge.py, and what a restart (the lifespan of app/main.py, a       *)
(* deployment, a crash) leaves of it.  The streams are those of Stream.tla.*)
(* Of the bridge they see only publish(), so it is Outbox.tla, which       *)
(* ErpBridge.tla implements.                                               *)
(***************************************************************************)
EXTENDS Stream

CONSTANTS Capacity,    \* settings.ERP_WS_QUEUE_MAX
          MaxEvents,   \* bound: events ever published
          MaxSends,    \* bound: sends of one event
          MaxRestarts  \* bound: restarts of the process

ASSUME AttendanceAssumption ==
    /\ Capacity \in Nat \ {0}
    /\ MaxEvents \in Nat /\ MaxSends \in Nat /\ MaxRestarts \in Nat

VARIABLES first, last, sends, handed, evicted, \* the bridge: see Outbox.tla
          life,                                \* number of restarts so far
          events                               \* history: what each event was made of

Bridge == INSTANCE Outbox

bridgeVars == <<first, last, sends, handed, evicted>>
systemVars == <<vars, bridgeVars, life, events>>

SystemInit == Init /\ Bridge!OutboxInit /\ life = 0 /\ events = <<>>

\* The event of claim k: claims are told apart within one process only.
EventOf(k) == [claim |-> k, life |-> life]

\* publish_identification() is called where a stream publishes a claim; publish()
\* never waits, so the event joins the queue in the same step.
Publish == \E k \in published' \ published :
              /\ Bridge!Put
              /\ events' = Append(events, EventOf(k))

StreamStep ==
    /\ Next
    /\ IF published' = published THEN UNCHANGED <<bridgeVars, events>> ELSE Publish
    /\ UNCHANGED life

Tries(n) == {i \in 1 .. Len(sends) : sends[i] = n}

\* The bridge's senders, whatever the streams do.  A send that raises leaves the
\* event where it is, so that the next connection sends it again.
Send == /\ \/ Cardinality(Tries(first)) < MaxSends /\ Bridge!BeginSend
           \/ Bridge!HandOver
           \/ Bridge!LateAcceptance
        /\ UNCHANGED <<vars, life, events>>

\* The process ends and another starts: the queue, the cooldown registry, the
\* sockets and everything a stream was doing were in its memory, and events being
\* sent die with their connection.  stop() cancels the sender and flushes nothing.
\* The monotonic clock of the machine runs on.
Restart ==
    /\ life < MaxRestarts
    /\ life' = life + 1
    /\ first' = last + 1
    /\ evicted' = {}
    /\ seen' = <<>>
    /\ pc' = [c \in Conn |-> "off"]
    /\ reader' = [c \in Conn |-> "none"]
    /\ slot' = [c \in Conn |-> NoFrame]
    /\ arrived' = [c \in Conn |-> FALSE] /\ closed' = [c \in Conn |-> FALSE]
    /\ received' = [c \in Conn |-> 0]
    /\ frame' = [c \in Conn |-> NoFrame] /\ kind' = [c \in Conn |-> "image"]
    /\ current' = [c \in Conn |-> Nobody] /\ streak' = [c \in Conn |-> 0]
    /\ committed' = [c \in Conn |-> NoClaim]
    /\ judged' = [c \in Conn |-> <<>>]
    /\ claims' = {} /\ published' = {} /\ logged' = {} /\ spoofed' = {}
    /\ UNCHANGED <<now, last, sends, handed, events>>

SystemNext == StreamStep \/ Send \/ Restart

SystemSpec == SystemInit /\ [][SystemNext]_systemVars

-----------------------------------------------------------------------------
(* Properties. *)

Numbers(k) == {n \in 1 .. last : events[n] = EventOf(k)}

\* A published claim has one event, any other none.
OneEventEach ==
    /\ Len(events) = last
    /\ \A k \in claims : Cardinality(Numbers(k)) = IF k \in published THEN 1 ELSE 0

\* Every commit of this process is accounted for: its liveness check is running,
\* or it became exactly one event, or it was cancelled as a spoof and neither
\* the ERP, nor the log, nor the client is told of it (stream.py:306-333).
CommitsAccounted == OneFate /\ OneEventEach /\ CommittedMeansPublished

\* Cameras, cooldown registry, bounded queue and restarts together keep the
\* promises of AttendanceLedger: a send is of an event of the running process, never
\* of one that has been handed over, never of one older than the last one sent
\* (erp_bridge.py:174-182).
Ledger == INSTANCE AttendanceLedger WITH
             ledger <- [n \in 1 .. Len(events) |->
                          [user |-> events[n].claim.user,
                           time |-> events[n].claim.time, life |-> events[n].life]]

ImplementsLedger == Ledger!LedgerSpec
=============================================================================
