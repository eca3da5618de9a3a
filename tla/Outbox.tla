------------------------------- MODULE Outbox -------------------------------
(***************************************************************************)
(* What the ERP bridge promises about the attendance events it is given,   *)
(* with no sockets, tasks or reconnections.  Events are numbered in the    *)
(* order they are published.  The outbox always holds the newest events    *)
(* that have not left it, in order: the window first .. last.  Only the    *)
(* oldest is ever sent, and it may be sent again and again.  An event      *)
(* leaves at the old end only: because a send of it has returned, or       *)
(* evicted because a newer event arrived while Capacity events waited.     *)
(***************************************************************************)
EXTENDS Naturals, Sequences

CONSTANTS Capacity,   \* ERP_WS_QUEUE_MAX
          MaxEvents   \* bound: events ever published

VARIABLES first,    \* number of the oldest event that waits
          last,     \* number of the newest event published
          sends,    \* the event of every send that has begun, in their order
          handed,   \* events of which a send has returned
          evicted   \* events dropped unsent or while being sent

outboxVars == <<first, last, sends, handed, evicted>>

OutboxInit == first = 1 /\ last = 0 /\ sends = <<>> /\ handed = {} /\ evicted = {}

Begun(e) == \E i \in 1 .. Len(sends) : sends[i] = e

\* A new event joins; the oldest makes room for it when the outbox is full.
Put == /\ last < MaxEvents
       /\ last' = last + 1
       /\ UNCHANGED <<sends, handed>>
       /\ IF last - first + 1 = Capacity
            THEN first' = first + 1 /\ evicted' = evicted \cup {first}
            ELSE UNCHANGED <<first, evicted>>

\* A send of the oldest event begins, for the first time or because earlier ones
\* raised: the peer may see it from now on, whatever becomes of the send.
BeginSend == /\ first <= last
             /\ sends' = Append(sends, first)
             /\ UNCHANGED <<first, last, handed, evicted>>

WrongNext == first

\* The oldest event once a send of the oldest has returned.
NextOldest == first + 1

\* A send of the oldest event returns, and the event leaves.
HandOver == /\ first <= last
            /\ Begun(first)
            /\ handed' = handed \cup {first}
            /\ first' = NextOldest
            /\ UNCHANGED <<last, sends, evicted>>

\* A send returns whose event was evicted while it was being sent.
LateAcceptance == /\ \E e \in evicted : Begun(e) /\ handed' = handed \cup {e}
                  /\ UNCHANGED <<first, last, sends, evicted>>

OutboxNext == Put \/ BeginSend \/ HandOver \/ LateAcceptance

OutboxSpec == OutboxInit /\ [][OutboxNext]_outboxVars
=============================================================================
