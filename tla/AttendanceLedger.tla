---------------------------- MODULE AttendanceLedger ----------------------------
(***************************************************************************)
(* What the service promises about attendance events, with no cameras,     *)
(* tasks, queues or connections: README.md, "committed is the event" and   *)
(* "ERP bridge".                                                           *)
(*                                                                         *)
(* Events of one employee that one process records are at least Cooldown   *)
(* apart.  An event is sent to the ERP by the process that recorded it, if *)
(* at all, and not after a newer one.  It may be sent more than once: a    *)
(* send that raises may have reached the ERP.  Once a send of it has       *)
(* returned it is never sent again.  A new process knows nothing of the    *)
(* events before it.                                                       *)
(***************************************************************************)
EXTENDS Naturals, Sequences

CONSTANTS User,     \* enrolled employees
          Time,     \* readings of the clock
          Cooldown  \* IDENTIFY_COOLDOWN_SECONDS

VARIABLES ledger, \* the events, in the order they were recorded
          sends,  \* number of the event of every send that has begun, in their order
          handed, \* numbers of the events of which a send has returned
          life    \* number of the running process

ledgerVars == <<ledger, sends, handed, life>>

LedgerInit == ledger = <<>> /\ sends = <<>> /\ handed = {} /\ life = 0

Apart(s, t) == s + Cooldown <= t \/ t + Cooldown <= s

\* `time` is when the employee was committed.
Record == /\ \E u \in User, t \in Time :
                /\ ledger' = Append(ledger, [user |-> u, time |-> t, life |-> life])
                /\ \A i \in 1 .. Len(ledger) :
                      ledger[i].user = u /\ ledger[i].life = life
                        => Apart(ledger[i].time, t)
          /\ UNCHANGED <<sends, handed, life>>

OfThisProcess(n) == n \in 1 .. Len(ledger) /\ ledger[n].life = life

\* A send begins, perhaps of an event that was sent before.
BeginSend == /\ \E n \in 1 .. Len(ledger) :
                   /\ OfThisProcess(n) /\ n \notin handed
                   /\ \A i \in 1 .. Len(sends) : sends[i] <= n
                   /\ sends' = Append(sends, n)
             /\ UNCHANGED <<ledger, handed, life>>

\* A send returns.
EndSend == /\ \E i \in 1 .. Len(sends) :
                 OfThisProcess(sends[i]) /\ handed' = handed \cup {sends[i]}
           /\ UNCHANGED <<ledger, sends, life>>

NewProcess == life' = life + 1 /\ UNCHANGED <<ledger, sends, handed>>

LedgerNext == Record \/ BeginSend \/ EndSend \/ NewProcess

LedgerSpec == LedgerInit /\ [][LedgerNext]_ledgerVars
=============================================================================
