---------------------------- MODULE MCAttendance ----------------------------
(* TLC instance of Attendance: see the .cfg file for the constants. *)
EXTENDS Attendance, TLC

CONSTANTS cam1, cam2, ann, bob

MCConns == {cam1, cam2}
MCUsers == {ann, bob}

\* Cameras and employees are interchangeable: nothing orders them.
MCSymmetry == Permutations(MCConns) \cup Permutations(MCUsers)

\* What later steps and the properties depend on: nothing of a stream that has
\* ended, its locals only where it reads them, and no tracker, because a single
\* frame confirms here.
CameraView(c) ==
    CASE pc[c] = "closed" -> <<"closed">>
      [] pc[c] \in {"loading", "inferring"} ->
            <<pc[c], reader[c], slot[c], arrived[c], closed[c], received[c],
              frame[c], kind[c]>>
      [] pc[c] \in {"checking", "logging", "replying"} ->
            <<pc[c], reader[c], slot[c], arrived[c], closed[c], received[c],
              committed[c]>>
      [] OTHER ->
            <<pc[c], reader[c], slot[c], arrived[c], closed[c], received[c]>>

\* Of the bridge and its history only the events that can still be sent or
\* accepted matter, and the newest of those sent; of what events were made of only
\* the events of the running process.
Current == evicted \cup first .. last
Newest == {n \in 1 .. last : Bridge!Begun(n) /\ \A i \in 1 .. Len(sends) : sends[i] <= n}

BridgeView ==
    <<first, last, evicted, handed \cap Current, Newest,
      [n \in Current |-> Cardinality(Tries(n))]>>

MCView == <<now, seen, [c \in Conn |-> CameraView(c)], claimVars, BridgeView, life,
            [n \in {m \in 1 .. Len(events) : events[m].life = life} |-> events[n]],
            Len(events)>>
=============================================================================
