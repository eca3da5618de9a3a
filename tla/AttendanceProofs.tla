-------------------------- MODULE AttendanceProofs --------------------------
(***************************************************************************)
(* Proofs about Stream, for any number of cameras, employees and frames,   *)
(* any length of a streak, any cooldown and any size of the registry, and  *)
(* about Attendance: cameras, cooldown registry, bounded queue and         *)
(* restarts together, for any number and size of each.                     *)
(***************************************************************************)
EXTENDS Attendance, FiniteSetTheorems, SequenceTheorems, TLAPS

-----------------------------------------------------------------------------
(* Types. *)

\* A fresh process: nothing is connected, seen or claimed, whatever the time is.
Fresh ==
    /\ now \in Time
    /\ seen = <<>>
    /\ pc = [c \in Conn |-> "off"]
    /\ reader = [c \in Conn |-> "none"]
    /\ slot = [c \in Conn |-> NoFrame]
    /\ arrived = [c \in Conn |-> FALSE] /\ closed = [c \in Conn |-> FALSE]
    /\ received = [c \in Conn |-> 0]
    /\ frame = [c \in Conn |-> NoFrame] /\ kind = [c \in Conn |-> "image"]
    /\ current = [c \in Conn |-> Nobody] /\ streak = [c \in Conn |-> 0]
    /\ committed = [c \in Conn |-> NoClaim]
    /\ judged = [c \in Conn |-> <<>>]
    /\ claims = {} /\ published = {} /\ logged = {} /\ spoofed = {}

LEMMA InitFresh == Init => Fresh
  BY StreamAssumption DEF Init, Fresh, Time

LEMMA VotesNat == Votes \in Nat \ {0}
  BY StreamAssumption DEF Votes

LEMMA FreshTypeOK == Fresh => TypeOK
<1> SUFFICES ASSUME Fresh PROVE TypeOK
  OBVIOUS
<1>1. DOMAIN seen = {}
  BY DEF Fresh
<1> QED
  BY <1>1, VotesNat, StreamAssumption DEF Fresh, TypeOK, Frame, Outcome, NoFrame

\* The registry keeps users with times, whether or not it is pruned.
LEMMA SeenWithType ==
  ASSUME TypeOK, NEW u \in User
  PROVE  /\ DOMAIN SeenWith(u) \subseteq User
         /\ \A v \in DOMAIN SeenWith(u) : SeenWith(u)[v] \in Time
  BY DEF TypeOK, SeenWith

\* What the tracker remembers keeps its type: a streak that is long enough restarts.
TrackType == /\ current \in [Conn -> User \cup {Nobody}]
             /\ streak \in [Conn -> Nat] /\ \A c \in Conn : streak[c] < Votes

LEMMA ObserveType ==
  ASSUME TypeOK, NEW c \in Conn, NEW u \in User, ObserveUser(c, u)
  PROVE  TrackType'
<1>1. StreakWith(c, u) \in Nat /\ (~Confirms(c, u) => StreakWith(c, u) < Votes)
  BY VotesNat DEF TypeOK, StreakWith, Confirms
<1>2. streak'[c] \in Nat /\ streak'[c] < Votes
  BY <1>1, VotesNat DEF TypeOK, ObserveUser
<1> QED
  BY <1>2, VotesNat DEF TypeOK, TrackType, ObserveUser, Votes

LEMMA DeclinedType ==
  ASSUME TypeOK, NEW c \in Conn, ObserveDeclined(c)
  PROVE  TrackType'
  BY VotesNat DEF TypeOK, TrackType, ObserveDeclined, Votes

\* Only a frame that has been taken is judged, and a commit in progress is a claim.
LocalsSet ==
    \A c \in Conn :
        /\ pc[c] \in {"loading", "inferring", "checking", "logging"} => frame[c] # NoFrame
        /\ pc[c] \in {"checking", "logging"} => committed[c] \in Claim

LEMMA JudgeType ==
  ASSUME TypeOK, LocalsSet, NEW c \in Conn, CanJudge(c), NEW o \in Outcome, Judge(c, o)
  PROVE  judged' \in [Conn -> Seq([frame : Frame, outcome : Outcome])]
<1>1. [frame |-> frame[c], outcome |-> o] \in [frame : Frame, outcome : Outcome]
  BY DEF TypeOK, LocalsSet, CanJudge
<1> DEFINE S == [frame : Frame, outcome : Outcome]
<1>2. judged \in [Conn -> Seq(S)]
  BY DEF TypeOK
<1> HIDE DEF S
<1>3. Append(judged[c], [frame |-> frame[c], outcome |-> o]) \in Seq(S)
  BY <1>1, <1>2, AppendProperties DEF S
<1> QED
  BY <1>2, <1>3 DEF Judge, S

\* Types are inductive together with that.
Typed == TypeOK /\ LocalsSet

LEMMA FreshTyped == Fresh => Typed
  BY FreshTypeOK DEF Fresh, LocalsSet, Typed

LEMMA NextTyped ==
  ASSUME Typed, [Next]_vars
  PROVE  Typed'
<1> USE StreamAssumption
    DEF Typed, TypeOK, LocalsSet, Goto, sharedVars, mailVars, trackVars, claimVars,
        TrackType
<1>1. CASE UNCHANGED vars
  BY <1>1 DEF vars
<1>2. CASE Tick
  <2>1. now' \in Time
    BY <1>2 DEF Tick, Time
  <2> QED
    BY <1>2, <2>1 DEF Tick
<1>3. ASSUME NEW c \in Conn, Open(c) PROVE Typed'
  BY <1>3 DEF Open
<1>4. ASSUME NEW c \in Conn, Refuse(c) PROVE Typed'
  BY <1>4 DEF Refuse
<1>5. ASSUME NEW c \in Conn, Opened(c) PROVE Typed'
  BY <1>5 DEF Opened
<1>6. ASSUME NEW c \in Conn, OpenFails(c) PROVE Typed'
  BY <1>6 DEF OpenFails
<1>7. ASSUME NEW c \in Conn, Close(c) PROVE Typed'
  BY <1>7 DEF Close
<1>8. ASSUME NEW c \in Conn, ReaderReceive(c) PROVE Typed'
  <2>1. received' \in [Conn -> 0 .. MaxFrames] /\ received[c] + 1 \in Frame
    BY <1>8 DEF ReaderReceive, Frame
  <2> QED
    BY <1>8, <2>1 DEF ReaderReceive, ArrivedOnFrame
<1>9. ASSUME NEW c \in Conn, ReaderEnd(c) PROVE Typed'
  BY <1>9 DEF ReaderEnd, ArrivedOnEnd
<1>10. ASSUME NEW c \in Conn, WakeEmpty(c) PROVE Typed'
  BY <1>10 DEF WakeEmpty
<1>11. ASSUME NEW c \in Conn, Take(c) PROVE Typed'
  <2>1. slot[c] \in Frame
    BY <1>11 DEF Take
  <2>2. kind' \in [Conn -> {"image", "embedding"}]
    <3>1. CASE UNCHANGED kind
      BY <3>1
    <3>2. ASSUME NEW k \in {"image", "embedding"}, kind' = [kind EXCEPT ![c] = k]
          PROVE  kind' \in [Conn -> {"image", "embedding"}]
      BY <3>2
    <3> QED
      BY <1>11, <3>1, <3>2 DEF Take
  <2>3. PICK place \in {"replying", "loading"} : pc' = [pc EXCEPT ![c] = place]
    BY <1>11 DEF Take
  <2>4. /\ arrived' = [arrived EXCEPT ![c] = FALSE]
        /\ frame' = [frame EXCEPT ![c] = slot[c]]
        /\ slot' = [slot EXCEPT ![c] = NoFrame]
        /\ committed' = [committed EXCEPT ![c] = NoClaim]
        /\ UNCHANGED <<now, seen, reader, closed, received, current, streak, judged,
                       claims, published, logged, spoofed>>
        /\ slot[c] # NoFrame
    BY <1>11 DEF Take, SlotAfterTake
  <2> QED
    BY <2>1, <2>2, <2>3, <2>4
<1>12. ASSUME NEW c \in Conn, StartInference(c) PROVE Typed'
  BY <1>12 DEF StartInference
<1>13. ASSUME NEW c \in Conn, JudgeUnseen(c) PROVE Typed'
  <2>1. Unseen \in Outcome
    BY DEF Outcome
  <2> QED
    BY <1>13, <2>1, JudgeType DEF JudgeUnseen
<1>14. ASSUME NEW c \in Conn, JudgeDeclined(c) PROVE Typed'
  <2>1. Declined \in Outcome
    BY DEF Outcome
  <2> QED
    BY <1>14, <2>1, DeclinedType, JudgeType DEF JudgeDeclined
<1>15. ASSUME NEW c \in Conn, NEW u \in User, JudgeNotCommitted(c, u) PROVE Typed'
  <2>1. u \in Outcome
    BY DEF Outcome
  <2> QED
    BY <1>15, <2>1, ObserveType, JudgeType
    DEF JudgeNotCommitted
<1>16. ASSUME NEW c \in Conn, NEW u \in User, JudgeCommitted(c, u) PROVE Typed'
  <2>1. ClaimOf(c, u) \in Claim
    BY <1>16 DEF JudgeCommitted, CanJudge, ClaimOf, Claim
  <2>2. u \in Outcome
    BY DEF Outcome
  <2>3. frame[c] # NoFrame
    BY <1>16 DEF JudgeCommitted, CanJudge
  <2> QED
    BY <1>16, <2>1, <2>2, <2>3, ObserveType, SeenWithType, JudgeType
    DEF JudgeCommitted, PublishedNow
<1>17. ASSUME NEW c \in Conn, Spoof(c) PROVE Typed'
  BY <1>17, DeclinedType DEF Spoof, CommittedAfterSpoof
<1>18. ASSUME NEW c \in Conn, NotSpoof(c) PROVE Typed'
  BY <1>18 DEF NotSpoof
<1>19. ASSUME NEW c \in Conn, Log(c) PROVE Typed'
  BY <1>19 DEF Log
<1>20. ASSUME NEW c \in Conn, ReplyOk(c) PROVE Typed'
  BY <1>20 DEF ReplyOk
<1>21. ASSUME NEW c \in Conn, MainFails(c) PROVE Typed'
  BY <1>21 DEF MainFails
<1> QED
  BY <1>1, <1>2, <1>3, <1>4, <1>5, <1>6, <1>7, <1>8, <1>9, <1>10, <1>11, <1>12,
     <1>13, <1>14, <1>15, <1>16, <1>17, <1>18, <1>19, <1>20, <1>21
  DEF Next, MainStep, Decide
-----------------------------------------------------------------------------
(* The cooldown. *)

\* The clock runs or somebody commits: nothing else touches the registry or the
\* claims.
LEMMA RegistryStep ==
  ASSUME TypeOK, [Next]_vars
  PROVE  \/ now' \in {now, now + 1} /\ UNCHANGED <<seen, claims>>
         \/ now' = now /\ \E c \in Conn, u \in User : JudgeCommitted(c, u)
<1> USE DEF sharedVars, mailVars, trackVars, claimVars
<1>1. CASE UNCHANGED vars
  BY <1>1 DEF vars
<1>2. CASE Tick
  BY <1>2 DEF Tick
<1>3. ASSUME NEW c \in Conn, Open(c) \/ Refuse(c) \/ ReaderReceive(c) \/ ReaderEnd(c)
      PROVE  UNCHANGED <<now, seen, claims>>
  BY <1>3 DEF Open, Refuse, ReaderReceive, ReaderEnd
<1>4. ASSUME NEW c \in Conn, MainStep(c)
      PROVE  \/ UNCHANGED <<now, seen, claims>>
             \/ now' = now /\ \E u \in User : JudgeCommitted(c, u)
  BY <1>4
  DEF MainStep, Opened, OpenFails, Close, WakeEmpty, Take, StartInference, Decide,
      JudgeUnseen, JudgeDeclined, JudgeNotCommitted, JudgeCommitted, Spoof, NotSpoof,
      Log, ReplyOk, MainFails
<1> QED
  BY <1>1, <1>2, <1>3, <1>4 DEF Next

\* Of every claim the registry remembers this one or a later one of its user, unless
\* it is older than the cooldown: that is all the prune may forget.
Remembered ==
    \A k \in claims :
        /\ k.time <= now
        /\ \/ k.time + Cooldown < now
           \/ k.user \in DOMAIN seen /\ k.time <= seen[k.user]

Spaced == Remembered /\ CommitsSpaced

LEMMA FreshSpaced == Fresh => Spaced
  BY DEF Fresh, Spaced, Remembered, CommitsSpaced

\* After a claim of u the registry remembers it, and forgets only what is old.
LEMMA SeenWithKeeps ==
  ASSUME TypeOK, NEW u \in User, NEW v \in DOMAIN seen \cup {u},
         NEW t \in Nat, t = IF v = u THEN now ELSE seen[v]
  PROVE  \/ t + Cooldown < now
         \/ v \in DOMAIN SeenWith(u) /\ SeenWith(u)[v] = t
<1> DEFINE added == [w \in DOMAIN seen \cup {u} |-> IF w = u THEN now ELSE seen[w]]
<1>1. CASE Cardinality(DOMAIN added) > PruneAt
  <2>1. SeenWith(u) = [w \in {x \in DOMAIN added : Kept(x, added)} |-> added[w]]
    BY <1>1 DEF SeenWith
  <2> QED
    BY <2>1, StreamAssumption DEF TypeOK, Time, Kept
<1>2. CASE ~(Cardinality(DOMAIN added) > PruneAt)
  <2>1. SeenWith(u) = added
    BY <1>2 DEF SeenWith
  <2> QED
    BY <2>1
<1> QED
  BY <1>1, <1>2

LEMMA NextSpaced ==
  ASSUME Typed, Spaced, [Next]_vars
  PROVE  Spaced'
<1> USE StreamAssumption DEF Spaced
<1>1. TypeOK /\ TypeOK'
  BY NextTyped DEF Typed
<1>s. \A v \in DOMAIN seen : v \in User /\ seen[v] \in Nat
  BY <1>1 DEF TypeOK, Time
<1>c. \A k \in claims : k.time \in Nat /\ k.user \in User
  BY <1>1 DEF TypeOK, Claim, Time
<1>2. CASE now' \in {now, now + 1} /\ UNCHANGED <<seen, claims>>
  BY <1>1, <1>c, <1>2 DEF TypeOK, Time, Remembered, CommitsSpaced
<1>3. ASSUME NEW c \in Conn, NEW u \in User, JudgeCommitted(c, u), now' = now
      PROVE  Spaced'
  <2> DEFINE new == ClaimOf(c, u)
  <2>1. /\ ~Cooling(u) /\ seen' = SeenWith(u) /\ claims' = claims \cup {new}
        /\ new.user = u /\ new.time = now /\ now \in Nat
    BY <1>1, <1>3 DEF JudgeCommitted, Granted, ClaimOf, TypeOK, Time
  <2> HIDE DEF new
  <2>2. \A k \in claims : k.user = u => k.time + Cooldown <= now
    <3> SUFFICES ASSUME NEW k \in claims, k.user = u
                 PROVE  k.time + Cooldown <= now
      OBVIOUS
    <3>1. CASE u \in DOMAIN seen
      BY <1>s, <1>c, <2>1, <3>1 DEF Remembered, Cooling
    <3>2. CASE u \notin DOMAIN seen
      BY <1>c, <2>1, <3>2 DEF Remembered
    <3> QED
      BY <3>1, <3>2
  <2>3. CommitsSpaced'
    BY <2>1, <2>2 DEF CommitsSpaced
  <2>4. ASSUME NEW k \in claims \cup {new}
        PROVE  /\ k.time <= now
               /\ \/ k.time + Cooldown < now
                  \/ k.user \in DOMAIN seen' /\ k.time <= seen'[k.user]
    <3>1. CASE k.user = u
      <4>1. now + Cooldown < now \/ (u \in DOMAIN seen' /\ seen'[u] = now)
        BY <1>1, <2>1, SeenWithKeeps
      <4>2. k.time \in Nat /\ k.time <= now
        BY <1>c, <2>1, <2>4 DEF Remembered
      <4> QED
        BY <2>1, <3>1, <4>1, <4>2
    <3>2. CASE k.user # u
      <4>1. k \in claims
        BY <2>1, <2>4, <3>2
      <4>2. CASE k.time + Cooldown < now
        BY <4>1, <4>2 DEF Remembered
      <4>3. CASE k.user \in DOMAIN seen /\ k.time <= seen[k.user]
        <5>1. seen[k.user] \in Nat
          BY <1>1, <4>3 DEF TypeOK, Time
        <5> QED
          <6>1. \/ seen[k.user] + Cooldown < now
                \/ k.user \in DOMAIN seen' /\ seen'[k.user] = seen[k.user]
            BY <1>1, <2>1, <3>2, <4>3, <5>1, SeenWithKeeps
          <6>2. k.time \in Nat /\ k.time <= now
            BY <1>c, <4>1 DEF Remembered
          <6> QED
            BY <2>1, <4>3, <5>1, <6>1, <6>2
      <4> QED
        BY <4>1, <4>2, <4>3 DEF Remembered
    <3> QED
      BY <3>1, <3>2
  <2>5. Remembered'
    BY <1>3, <2>1, <2>4 DEF Remembered
  <2> QED
    BY <2>3, <2>5
<1> QED
  BY <1>1, <1>2, <1>3, RegistryStep
-----------------------------------------------------------------------------
(* The mailbox. *)

\* Whoever fills the mailbox or ends the reader sets `arrived`; it is cleared only
\* together with the mailbox, and a main loop that clears it after the end of the
\* reader does not come back to wait.
Woken ==
    \A c \in Conn :
        /\ ~arrived[c] => slot[c] = NoFrame
        /\ ~arrived[c] /\ closed[c] => pc[c] # "wait"
        /\ closed[c] => reader[c] = "done"
        /\ pc[c] \in {"off", "opening"} => reader[c] = "none"

LEMMA FreshWoken == Fresh => Woken
  BY DEF Fresh, Woken

LEMMA NextWoken ==
  ASSUME TypeOK, Woken, [Next]_vars
  PROVE  Woken'
<1> USE DEF TypeOK, Woken, Goto, sharedVars, mailVars, trackVars, claimVars
<1>1. CASE UNCHANGED vars
  BY <1>1 DEF vars
<1>2. CASE Tick
  BY <1>2 DEF Tick
<1>3. ASSUME NEW c \in Conn, Open(c) \/ Refuse(c) PROVE Woken'
  BY <1>3 DEF Open, Refuse
<1>4. ASSUME NEW c \in Conn, Opened(c) \/ OpenFails(c) PROVE Woken'
  BY <1>4 DEF Opened, OpenFails
<1>5. ASSUME NEW c \in Conn, Close(c) PROVE Woken'
  BY <1>5 DEF Close
<1>6. ASSUME NEW c \in Conn, ReaderReceive(c) PROVE Woken'
  BY <1>6 DEF ReaderReceive, ArrivedOnFrame
<1>7. ASSUME NEW c \in Conn, ReaderEnd(c) PROVE Woken'
  BY <1>7 DEF ReaderEnd, ArrivedOnEnd
<1>8. ASSUME NEW c \in Conn, WakeEmpty(c) PROVE Woken'
  BY <1>8 DEF WakeEmpty
<1>9. ASSUME NEW c \in Conn, Take(c) PROVE Woken'
  BY <1>9 DEF Take, SlotAfterTake
<1>10. ASSUME NEW c \in Conn, Decide(c) PROVE Woken'
  BY <1>10
  DEF Decide, CanJudge, JudgeUnseen, JudgeDeclined, JudgeNotCommitted, JudgeCommitted
<1>11. ASSUME NEW c \in Conn, StartInference(c) \/ Spoof(c) \/ NotSpoof(c) \/ Log(c)
       PROVE  Woken'
  BY <1>11 DEF StartInference, Spoof, NotSpoof, Log
<1>12. ASSUME NEW c \in Conn, ReplyOk(c) PROVE Woken'
  BY <1>12 DEF ReplyOk
<1>13. ASSUME NEW c \in Conn, MainFails(c) PROVE Woken'
  BY <1>13 DEF MainFails
<1> QED
  BY <1>1, <1>2, <1>3, <1>4, <1>5, <1>6, <1>7, <1>8, <1>9, <1>10, <1>11, <1>12, <1>13
  DEF Next, MainStep

LEMMA WokenIsEnough == Woken => NoLostWakeup
  BY DEF Woken, NoLostWakeup
-----------------------------------------------------------------------------
(* The order of frames. *)

Judging == {"loading", "inferring"}

\* The mailbox holds the newest frame or none, a frame in hand is older than one in
\* the mailbox, and what was judged is not newer than the frame in hand, and older
\* while that is still to be judged.
Newest ==
    \A c \in Conn :
        /\ frame[c] <= received[c]
        /\ slot[c] # NoFrame => slot[c] = received[c] /\ frame[c] < slot[c]
        /\ \A i \in 1 .. Len(judged[c]) :
              /\ judged[c][i].frame <= frame[c]
              /\ pc[c] \in Judging => judged[c][i].frame < frame[c]

InOrder == Newest /\ FramesInOrder

LEMMA FreshInOrder == Fresh => InOrder
  BY DEF Fresh, InOrder, Newest, FramesInOrder, NoFrame

\* A judgement is added at the end.
LEMMA JudgedAfter ==
  ASSUME Typed, NEW c \in Conn, CanJudge(c), NEW o \in Outcome, Judge(c, o)
  PROVE  /\ Len(judged[c]) \in Nat /\ Len(judged'[c]) = Len(judged[c]) + 1
         /\ \A i \in 1 .. Len(judged[c]) : judged'[c][i] = judged[c][i]
         /\ judged'[c][Len(judged[c]) + 1] = [frame |-> frame[c], outcome |-> o]
         /\ \A d \in Conn \ {c} : judged'[d] = judged[d]
<1> DEFINE S == [frame : Frame, outcome : Outcome]
           j == [frame |-> frame[c], outcome |-> o]
<1>1. j \in S /\ judged[c] \in Seq(S) /\ judged \in [Conn -> Seq(S)]
  BY DEF Typed, TypeOK, LocalsSet, CanJudge
<1>2. judged'[c] = Append(judged[c], j) /\ \A d \in Conn \ {c} : judged'[d] = judged[d]
  BY <1>1 DEF Judge
<1> HIDE DEF S, j
<1>3. /\ Len(Append(judged[c], j)) = Len(judged[c]) + 1
      /\ \A i \in 1 .. Len(judged[c]) : Append(judged[c], j)[i] = judged[c][i]
      /\ Append(judged[c], j)[Len(judged[c]) + 1] = j
      /\ Len(judged[c]) \in Nat
  BY <1>1, AppendProperties, LenProperties
<1> QED
  BY <1>2, <1>3 DEF j

\* The outcome a decision records, and where the main loop goes.
LEMMA Decided ==
  ASSUME Typed, NEW c \in Conn, Decide(c)
  PROVE  /\ CanJudge(c) /\ \E o \in Outcome : Judge(c, o)
         /\ UNCHANGED <<now, slot, received, frame, reader, arrived, closed>>
         /\ \A d \in Conn \ {c} : pc'[d] = pc[d]
         /\ pc'[c] \in {"replying", "checking", "logging"}
<1> USE DEF Typed, TypeOK, Goto, sharedVars, mailVars, trackVars, claimVars, Outcome
<1>1. CASE JudgeUnseen(c)
  BY <1>1 DEF JudgeUnseen
<1>2. CASE JudgeDeclined(c)
  BY <1>2 DEF JudgeDeclined
<1>3. ASSUME NEW u \in User, JudgeNotCommitted(c, u)
      PROVE  /\ CanJudge(c) /\ Judge(c, u)
             /\ UNCHANGED <<now, slot, received, frame, reader, arrived, closed>>
             /\ \A d \in Conn \ {c} : pc'[d] = pc[d]
             /\ pc'[c] \in {"replying", "checking", "logging"}
  BY <1>3 DEF JudgeNotCommitted
<1>4. ASSUME NEW u \in User, JudgeCommitted(c, u)
      PROVE  /\ CanJudge(c) /\ Judge(c, u)
             /\ UNCHANGED <<now, slot, received, frame, reader, arrived, closed>>
             /\ \A d \in Conn \ {c} : pc'[d] = pc[d]
             /\ pc'[c] \in {"replying", "checking", "logging"}
  BY <1>4 DEF JudgeCommitted
<1> QED
  BY <1>1, <1>2, <1>3, <1>4 DEF Decide

LEMMA JudgedFrames ==
  ASSUME TypeOK, NEW c \in Conn, NEW i \in 1 .. Len(judged[c])
  PROVE  judged[c][i].frame \in Nat /\ judged[c][i].frame > 0
<1> DEFINE S == [frame : Frame, outcome : Outcome]
<1>1. judged[c] \in Seq(S)
  BY DEF TypeOK
<1> HIDE DEF S
<1>2. judged[c][i] \in S
  BY <1>1, ElementOfSeq
<1> QED
  BY <1>2 DEF S, Frame

LEMMA NextInOrder ==
  ASSUME Typed, InOrder, [Next]_vars
  PROVE  InOrder'
<1> USE DEF InOrder, Judging
<1>1. TypeOK
  BY DEF Typed
<1>2. ASSUME UNCHANGED <<slot, received, frame, judged>>,
             \A c \in Conn : pc'[c] \in Judging => pc[c] \in Judging
      PROVE  InOrder'
  BY <1>2 DEF Newest, FramesInOrder
<1>3. ASSUME NEW c \in Conn, ReaderReceive(c) PROVE InOrder'
  <2>1. FramesInOrder'
    BY <1>3 DEF ReaderReceive, FramesInOrder
  <2>2. /\ received' = [received EXCEPT ![c] = received[c] + 1]
        /\ slot' = [slot EXCEPT ![c] = received[c] + 1]
        /\ UNCHANGED <<pc, frame, judged>>
    BY <1>3 DEF ReaderReceive
  <2>3. Newest'
    <3> SUFFICES ASSUME NEW d \in Conn
                 PROVE  /\ frame[d] <= received'[d]
                        /\ slot'[d] # NoFrame
                              => slot'[d] = received'[d] /\ frame[d] < slot'[d]
      BY <2>2 DEF Newest
    <3>1. received[d] \in Nat /\ frame[d] \in Nat
      BY <1>1 DEF TypeOK, Frame, NoFrame
    <3>2. CASE d = c
      BY <1>1, <2>2, <3>1, <3>2 DEF TypeOK, Newest
    <3>3. CASE d # c
      BY <1>1, <2>2, <3>3 DEF TypeOK, Newest
    <3> QED
      BY <3>2, <3>3
  <2> QED
    BY <2>1, <2>3
<1>4. ASSUME NEW c \in Conn, Take(c) PROVE InOrder'
  <2>1. FramesInOrder'
    BY <1>4 DEF Take, FramesInOrder
  <2>2. /\ slot[c] # NoFrame /\ frame' = [frame EXCEPT ![c] = slot[c]]
        /\ slot' = [slot EXCEPT ![c] = NoFrame] /\ UNCHANGED <<received, judged>>
        /\ \A d \in Conn \ {c} : pc'[d] = pc[d]
    BY <1>1, <1>4 DEF TypeOK, Take, SlotAfterTake, Goto, mailVars
  <2>3. \A d \in Conn : \A i \in 1 .. Len(judged[d]) : judged[d][i].frame \in Nat
    BY <1>1, JudgedFrames
  <2>4. Newest'
    BY <1>1, <2>2, <2>3 DEF TypeOK, Newest, Frame, NoFrame
  <2> QED
    BY <2>1, <2>4
<1>5. ASSUME NEW c \in Conn, Decide(c) PROVE InOrder'
  <2>1. PICK o \in Outcome : Judge(c, o)
    BY <1>5, Decided
  <2>2. /\ Len(judged[c]) \in Nat /\ Len(judged'[c]) = Len(judged[c]) + 1
        /\ \A i \in 1 .. Len(judged[c]) : judged'[c][i] = judged[c][i]
        /\ judged'[c][Len(judged[c]) + 1] = [frame |-> frame[c], outcome |-> o]
        /\ \A d \in Conn \ {c} : judged'[d] = judged[d]
    <3>1. CanJudge(c)
      BY <1>5, Decided
    <3> QED
      BY <2>1, <3>1, JudgedAfter
  <2>3. /\ CanJudge(c) /\ pc[c] \in Judging /\ pc'[c] \notin Judging
        /\ UNCHANGED <<slot, received, frame>> /\ \A d \in Conn \ {c} : pc'[d] = pc[d]
    BY <1>5, Decided DEF CanJudge
  <2>4. \A i \in 1 .. Len(judged[c]) : judged[c][i].frame < frame[c]
    BY <2>3 DEF Newest
  <2>a. frame[c] \in Nat
    BY <1>1 DEF TypeOK, Frame, NoFrame
  <2>5. Newest'
    <3>1. ASSUME NEW d \in Conn \ {c}
          PROVE  /\ frame'[d] <= received'[d]
                 /\ slot'[d] # NoFrame => slot'[d] = received'[d] /\ frame'[d] < slot'[d]
                 /\ \A i \in 1 .. Len(judged'[d]) :
                       /\ judged'[d][i].frame <= frame'[d]
                       /\ pc'[d] \in Judging => judged'[d][i].frame < frame'[d]
      BY <2>2, <2>3 DEF Newest
    <3>2. \A i \in 1 .. Len(judged'[c]) : judged'[c][i].frame <= frame'[c]
      <4>1. ASSUME NEW i \in 1 .. Len(judged[c]) PROVE judged[c][i].frame <= frame[c]
        BY DEF Newest
      <4>2. \A i \in 1 .. Len(judged'[c]) : i \in 1 .. Len(judged[c]) \/ i = Len(judged[c]) + 1
        BY <2>2
      <4> QED
        BY <2>2, <2>3, <2>a, <4>1, <4>2
    <3>3. /\ frame'[c] <= received'[c]
          /\ slot'[c] # NoFrame => slot'[c] = received'[c] /\ frame'[c] < slot'[c]
      BY <2>3 DEF Newest
    <3> QED
      BY <2>3, <3>1, <3>2, <3>3 DEF Newest
  <2>6. ASSUME NEW d \in Conn, NEW i \in 1 .. Len(judged'[d]),
               NEW j \in 1 .. Len(judged'[d]), i < j
        PROVE  judged'[d][i].frame < judged'[d][j].frame
    <3>1. CASE d # c
      BY <2>2, <2>6, <3>1 DEF FramesInOrder
    <3>2. CASE d = c /\ j <= Len(judged[c])
      <4>1. /\ i \in 1 .. Len(judged[c]) /\ j \in 1 .. Len(judged[c])
            /\ judged'[c][i] = judged[c][i] /\ judged'[c][j] = judged[c][j]
        BY <2>2, <2>6, <3>2
      <4> QED
        BY <2>6, <3>2, <4>1 DEF FramesInOrder
    <3>3. CASE d = c /\ j = Len(judged[c]) + 1
      BY <2>2, <2>4, <2>6, <3>3
    <3> QED
      BY <2>2, <3>1, <3>2, <3>3
  <2> QED
    BY <2>5, <2>6 DEF FramesInOrder
<1>6. ASSUME NEW c \in Conn, \/ Open(c) \/ Refuse(c) \/ ReaderEnd(c) \/ Opened(c)
                             \/ OpenFails(c) \/ Close(c) \/ WakeEmpty(c)
                             \/ StartInference(c) \/ Spoof(c) \/ NotSpoof(c) \/ Log(c)
                             \/ ReplyOk(c) \/ MainFails(c)
      PROVE  InOrder'
  <2>1. UNCHANGED <<slot, received, frame, judged>>
    BY <1>6
    DEF Open, Refuse, ReaderEnd, Opened, OpenFails, Close, WakeEmpty, StartInference,
        Spoof, NotSpoof, Log, ReplyOk, MainFails, mailVars
  <2>2. \A d \in Conn : pc'[d] \in Judging => pc[d] \in Judging
    BY <1>1, <1>6
    DEF TypeOK, Open, Refuse, ReaderEnd, Opened, OpenFails, Close, WakeEmpty,
        StartInference, Spoof, NotSpoof, Log, ReplyOk, MainFails, Goto
  <2> QED
    BY <1>2, <2>1, <2>2
<1>7. CASE Tick \/ UNCHANGED vars
  BY <1>2, <1>7 DEF Tick, vars, mailVars
<1> QED
  BY <1>3, <1>4, <1>5, <1>6, <1>7 DEF Next, MainStep
-----------------------------------------------------------------------------
(* Streaks. *)

\* The streak of a connection is backed by as many frames that name its user, with
\* nothing after the first of them but those and unseen ones.
Backed(s, u, n) ==
    \E a \in 1 .. Len(s) + 1 :
        /\ Only(u, {Unseen}, s, a, Len(s))
        /\ Cardinality(Naming(u, s, a, Len(s))) >= n

StreaksBacked == \A c \in Conn : Backed(judged[c], current[c], streak[c])

Confirmed == StreaksBacked /\ \A k \in claims : EndsRun(k, {Unseen})

\* Nothing has to back a streak of no frames.
LEMMA NothingBacked ==
  ASSUME NEW s, NEW u, Len(s) \in Nat
  PROVE  Backed(s, u, 0)
<1> DEFINE n == Len(s)
<1>1. (n + 1) .. n = {}
  OBVIOUS
<1>2. Naming(u, s, n + 1, n) = {}
  BY <1>1 DEF Naming
<1>3. Only(u, {Unseen}, s, n + 1, n)
  BY <1>1 DEF Only
<1>4. Cardinality(Naming(u, s, n + 1, n)) = 0
  BY <1>2, FS_EmptySet
<1> QED
  BY <1>3, <1>4 DEF Backed

LEMMA FreshConfirmed == Fresh => Confirmed
<1> SUFFICES ASSUME Fresh, NEW c \in Conn PROVE Backed(judged[c], current[c], streak[c])
  BY DEF Fresh, Confirmed, StreaksBacked
<1>1. judged[c] = <<>> /\ streak[c] = 0
  BY DEF Fresh
<1>2. Len(judged[c]) = 0
  BY <1>1
<1> QED
  BY <1>1, <1>2, NothingBacked

\* The places that name a user are finitely many.
LEMMA NamingFinite ==
  ASSUME NEW u, NEW s, NEW a \in Nat, NEW b \in Nat
  PROVE  IsFiniteSet(Naming(u, s, a, b)) /\ Cardinality(Naming(u, s, a, b)) \in Nat
<1>1. IsFiniteSet(a .. b)
  BY FS_Interval
<1>2. IsFiniteSet(Naming(u, s, a, b))
  BY <1>1, FS_Subset DEF Naming
<1> QED
  BY <1>2, FS_CardinalityType

\* A frame more extends the backing of a streak: by one if it names the user, and by
\* none if it shows nothing.
LEMMA BackedLonger ==
  ASSUME NEW s, NEW t, NEW u, NEW n \in Nat, NEW o, Backed(s, u, n),
         Len(s) \in Nat, Len(t) = Len(s) + 1,
         \A i \in 1 .. Len(s) : t[i] = s[i],
         t[Len(s) + 1].outcome = o
  PROVE  /\ o = u => Backed(t, u, n + 1)
         /\ o = Unseen => Backed(t, u, n)
<1> DEFINE m == Len(s)
           old(a) == Naming(u, s, a, m)
           new(a) == Naming(u, t, a, m + 1)
<1>1. PICK a \in 1 .. m + 1 : Only(u, {Unseen}, s, a, m) /\ Cardinality(old(a)) >= n
  BY DEF Backed
<1>2. m \in Nat /\ Len(t) = m + 1 /\ t[m + 1].outcome = o
      /\ \A i \in 1 .. m : t[i] = s[i]
  OBVIOUS
<1>3. new(a) = IF o = u THEN old(a) \cup {m + 1} ELSE old(a)
  BY <1>2 DEF Naming
<1>4. m + 1 \notin old(a)
  BY <1>2 DEF Naming
<1>5. IsFiniteSet(old(a)) /\ Cardinality(old(a)) \in Nat
  BY <1>2, NamingFinite
<1>6. o \in {u, Unseen} => Only(u, {Unseen}, t, a, m + 1)
  BY <1>1, <1>2 DEF Only
<1>7. /\ IsFiniteSet(old(a) \cup {m + 1})
      /\ Cardinality(old(a) \cup {m + 1}) = Cardinality(old(a)) + 1
  BY <1>4, <1>5, FS_AddElement
<1> HIDE DEF m, old, new
<1>8. Cardinality(new(a)) >= n /\ (o = u => Cardinality(new(a)) >= n + 1)
  <2>1. CASE o = u
    <3>1. Cardinality(new(a)) = Cardinality(old(a)) + 1
      BY <1>3, <1>7, <2>1
    <3> QED
      BY <1>1, <1>5, <3>1
  <2>2. CASE o # u
    BY <1>1, <1>3, <2>2
  <2> QED
    BY <2>1, <2>2
<1>9. a \in 1 .. Len(t) + 1
  BY <1>2
<1>10. o = u => Backed(t, u, n + 1)
  BY <1>2, <1>6, <1>8, <1>9 DEF Backed, new
<1>11. o = Unseen => Backed(t, u, n)
  BY <1>2, <1>6, <1>8, <1>9 DEF Backed, new
<1> QED
  BY <1>10, <1>11

\* A run that was judged stays.
LEMMA RunsStay ==
  ASSUME Typed, NEW c \in Conn, CanJudge(c), NEW o \in Outcome, Judge(c, o),
         NEW k \in Claim, EndsRun(k, {Unseen})
  PROVE  EndsRun(k, {Unseen})'
<1>1. CASE k.conn # c
  <2>1. judged'[k.conn] = judged[k.conn]
    BY <1>1, JudgedAfter DEF Claim
  <2> QED
    BY <2>1 DEF EndsRun
<1>2. CASE k.conn = c
  <2> DEFINE m == Len(judged[c])
  <2>1. /\ m \in Nat /\ Len(judged'[c]) = m + 1
        /\ \A i \in 1 .. m : judged'[c][i] = judged[c][i]
    BY JudgedAfter
  <2>2. PICK a \in 1 .. m, b \in 1 .. m :
           /\ judged[c][b] = [frame |-> k.frame, outcome |-> k.user]
           /\ Only(k.user, {Unseen}, judged[c], a, b)
           /\ Cardinality(Naming(k.user, judged[c], a, b)) >= Votes
    BY <1>2 DEF EndsRun
  <2>3. Naming(k.user, judged'[c], a, b) = Naming(k.user, judged[c], a, b)
    BY <2>1 DEF Naming
  <2>4. Only(k.user, {Unseen}, judged'[c], a, b)
    <3>1. \A i \in a .. b : judged'[c][i] = judged[c][i]
      BY <2>1, <2>2
    <3> QED
      BY <2>2, <3>1 DEF Only
  <2> HIDE DEF m
  <2>5. /\ a \in 1 .. Len(judged'[c]) /\ b \in 1 .. Len(judged'[c])
        /\ judged'[c][b] = [frame |-> k.frame, outcome |-> k.user]
        /\ Cardinality(Naming(k.user, judged'[c], a, b)) >= Votes
    BY <2>1, <2>2, <2>3
  <2> QED
    BY <1>2, <2>4, <2>5 DEF EndsRun
<1> QED
  BY <1>1, <1>2

LEMMA JudgedLength ==
  ASSUME TypeOK, NEW c \in Conn
  PROVE  Len(judged[c]) \in Nat
<1> DEFINE S == [frame : Frame, outcome : Outcome]
<1>1. judged[c] \in Seq(S)
  BY DEF TypeOK
<1> HIDE DEF S
<1> QED
  BY <1>1, LenProperties

\* Fewer frames back a shorter streak.
LEMMA BackedShorter ==
  ASSUME NEW s, NEW u, NEW n \in Nat, NEW m \in 0 .. n, Len(s) \in Nat, Backed(s, u, n)
  PROVE  Backed(s, u, m)
<1>1. PICK a \in 1 .. Len(s) + 1 : /\ Only(u, {Unseen}, s, a, Len(s))
                                   /\ Cardinality(Naming(u, s, a, Len(s))) >= n
  BY DEF Backed
<1>2. Cardinality(Naming(u, s, a, Len(s))) \in Nat
  BY NamingFinite
<1>3. Cardinality(Naming(u, s, a, Len(s))) >= m
  BY <1>1, <1>2
<1> QED
  BY <1>1, <1>3 DEF Backed

\* The streak that a frame of u makes is backed once the frame is judged.
LEMMA StreakWithBacked ==
  ASSUME Typed, StreaksBacked, NEW c \in Conn, CanJudge(c), NEW u \in User, Judge(c, u)
  PROVE  /\ Backed(judged'[c], u, StreakWith(c, u))
         /\ StreakWith(c, u) \in Nat
<1> DEFINE s == judged[c]
           t == judged'[c]
<1>1. u \in Outcome
  BY DEF Outcome
<1>2. /\ Len(s) \in Nat /\ Len(t) = Len(s) + 1
      /\ \A i \in 1 .. Len(s) : t[i] = s[i]
      /\ t[Len(s) + 1] = [frame |-> frame[c], outcome |-> u]
  BY <1>1, JudgedAfter
<1>3. t[Len(s) + 1].outcome = u
  BY <1>2
<1>4. Backed(s, u, 0)
  BY <1>2, NothingBacked
<1>5. streak[c] \in Nat /\ Backed(s, current[c], streak[c])
  BY DEF Typed, TypeOK, StreaksBacked
<1> HIDE DEF s, t
<1>6. Backed(t, u, 0 + 1)
  BY <1>2, <1>3, <1>4, BackedLonger
<1>7. current[c] = u => Backed(t, u, streak[c] + 1)
  BY <1>2, <1>3, <1>5, BackedLonger
<1>8. Backed(t, u, StreakWith(c, u)) /\ StreakWith(c, u) \in Nat
  BY <1>5, <1>6, <1>7 DEF StreakWith
<1> QED
  BY <1>8 DEF t

\* A commit completes its run.
LEMMA CommitEndsRun ==
  ASSUME Typed, StreaksBacked, NEW c \in Conn, NEW u \in User, JudgeCommitted(c, u)
  PROVE  EndsRun(ClaimOf(c, u), {Unseen})'
<1> DEFINE s == judged[c]
           t == judged'[c]
<1>1. CanJudge(c) /\ Judge(c, u) /\ StreakWith(c, u) >= Votes /\ u \in Outcome
  BY DEF JudgeCommitted, Granted, Confirms, Outcome
<1>2. Backed(t, u, StreakWith(c, u)) /\ StreakWith(c, u) \in Nat
  BY <1>1, StreakWithBacked
<1>3. /\ Len(s) \in Nat /\ Len(t) = Len(s) + 1
      /\ t[Len(s) + 1] = [frame |-> frame[c], outcome |-> u]
  BY <1>1, JudgedAfter
<1> HIDE DEF s, t
<1>4. Backed(t, u, Votes)
  BY <1>1, <1>2, <1>3, VotesNat, BackedShorter
<1>5. PICK a \in 1 .. Len(t) + 1 : /\ Only(u, {Unseen}, t, a, Len(t))
                                   /\ Cardinality(Naming(u, t, a, Len(t))) >= Votes
  BY <1>4 DEF Backed
<1>6. a # Len(t) + 1
  <2> SUFFICES ASSUME a = Len(t) + 1 PROVE FALSE
    OBVIOUS
  <2>1. a .. Len(t) = {}
    BY <1>3
  <2>2. Naming(u, t, a, Len(t)) = {}
    BY <2>1 DEF Naming
  <2>3. Cardinality(Naming(u, t, a, Len(t))) = 0
    BY <2>2, FS_EmptySet, Zenon
  <2> QED
    BY <1>5, <2>3, VotesNat
<1>7. ClaimOf(c, u)' = [user |-> u, time |-> now', conn |-> c, frame |-> frame[c]]
  BY DEF ClaimOf, JudgeCommitted
<1>8. /\ a \in 1 .. Len(t) /\ Len(t) \in 1 .. Len(t)
      /\ t[Len(t)] = [frame |-> frame[c], outcome |-> u]
  BY <1>3, <1>5, <1>6
<1> QED
  BY <1>5, <1>7, <1>8 DEF EndsRun, t

LEMMA NextConfirmed ==
  ASSUME Typed, Confirmed, [Next]_vars
  PROVE  Confirmed'
<1> USE DEF sharedVars, mailVars, trackVars, claimVars
<1>1. TypeOK /\ StreaksBacked /\ \A k \in claims : k \in Claim
  BY DEF Typed, TypeOK, Confirmed
<1>2. CASE UNCHANGED <<judged, claims, trackVars>>
  <2>1. StreaksBacked'
    BY <1>1, <1>2 DEF StreaksBacked
  <2> QED
    BY <1>2, <2>1 DEF Confirmed, EndsRun
<1>3. ASSUME NEW c \in Conn, Spoof(c) PROVE Confirmed'
  <2>1. Backed(judged[c], Nobody, 0)
    BY <1>1, JudgedLength, NothingBacked
  <2>2. StreaksBacked'
    BY <1>1, <1>3, <2>1 DEF StreaksBacked, Spoof, ObserveDeclined, TypeOK
  <2>3. UNCHANGED <<judged, claims>>
    BY <1>3 DEF Spoof
  <2> QED
    BY <2>2, <2>3 DEF Confirmed, EndsRun
<1>4. ASSUME NEW c \in Conn, CanJudge(c), NEW o \in Outcome, Judge(c, o),
             \A d \in Conn \ {c} : current'[d] = current[d] /\ streak'[d] = streak[d],
             Backed(judged'[c], current'[c], streak'[c]),
             \A k \in claims' \ claims : EndsRun(k, {Unseen})'
      PROVE  Confirmed'
  <2>1. \A d \in Conn \ {c} : judged'[d] = judged[d]
    BY <1>4, JudgedAfter
  <2>2. StreaksBacked'
    BY <1>1, <1>4, <2>1 DEF StreaksBacked
  <2>3. ASSUME NEW k \in claims PROVE EndsRun(k, {Unseen})'
    BY <1>1, <1>4, RunsStay DEF Confirmed
  <2> QED
    BY <1>4, <2>2, <2>3 DEF Confirmed
<1>5. ASSUME NEW c \in Conn, JudgeUnseen(c) PROVE Confirmed'
  <2>1. CanJudge(c) /\ Judge(c, Unseen) /\ Unseen \in Outcome
        /\ UNCHANGED <<claims, current, streak>>
    BY <1>5 DEF JudgeUnseen, Outcome
  <2>2. Backed(judged'[c], current[c], streak[c])
    <3>1. /\ Len(judged[c]) \in Nat /\ Len(judged'[c]) = Len(judged[c]) + 1
          /\ \A i \in 1 .. Len(judged[c]) : judged'[c][i] = judged[c][i]
          /\ judged'[c][Len(judged[c]) + 1] = [frame |-> frame[c], outcome |-> Unseen]
      BY <2>1, JudgedAfter
    <3>2. judged'[c][Len(judged[c]) + 1].outcome = Unseen
      BY <3>1
    <3>3. streak[c] \in Nat /\ Backed(judged[c], current[c], streak[c])
      BY <1>1 DEF TypeOK, StreaksBacked
    <3> QED
      BY <3>1, <3>2, <3>3, BackedLonger
  <2> QED
    BY <1>4, <2>1, <2>2
<1>6. ASSUME NEW c \in Conn, JudgeDeclined(c) PROVE Confirmed'
  <2>1. CanJudge(c) /\ Judge(c, Declined) /\ Declined \in Outcome
        /\ ObserveDeclined(c) /\ UNCHANGED claims
    BY <1>6 DEF JudgeDeclined, Outcome
  <2>2. Len(judged[c]) \in Nat /\ Len(judged'[c]) = Len(judged[c]) + 1
    BY <2>1, JudgedAfter
  <2>3. Backed(judged'[c], Nobody, 0)
    BY <2>2, NothingBacked
  <2>4. /\ current'[c] = Nobody /\ streak'[c] = 0
        /\ \A d \in Conn \ {c} : current'[d] = current[d] /\ streak'[d] = streak[d]
    BY <1>1, <2>1 DEF TypeOK, ObserveDeclined
  <2> QED
    BY <1>4, <2>1, <2>3, <2>4
<1>7. ASSUME NEW c \in Conn, NEW u \in User, CanJudge(c), Judge(c, u), ObserveUser(c, u),
             \A k \in claims' \ claims : EndsRun(k, {Unseen})'
      PROVE  Confirmed'
  <2>1. Backed(judged'[c], u, StreakWith(c, u)) /\ StreakWith(c, u) \in Nat
    BY <1>1, <1>7, StreakWithBacked
  <2>2. u \in Outcome
    BY DEF Outcome
  <2>3. Len(judged'[c]) \in Nat
    BY <1>7, <2>2, JudgedAfter
  <2>4. Backed(judged'[c], u, 0)
    BY <2>3, NothingBacked
  <2>5. /\ current'[c] = u /\ streak'[c] \in {0, StreakWith(c, u)}
        /\ \A d \in Conn \ {c} : current'[d] = current[d] /\ streak'[d] = streak[d]
    BY <1>1, <1>7 DEF TypeOK, ObserveUser
  <2> QED
    BY <1>4, <1>7, <2>1, <2>2, <2>4, <2>5
<1>8. ASSUME NEW c \in Conn, NEW u \in User, JudgeNotCommitted(c, u) PROVE Confirmed'
  BY <1>7, <1>8 DEF JudgeNotCommitted
<1>9. ASSUME NEW c \in Conn, NEW u \in User, JudgeCommitted(c, u) PROVE Confirmed'
  <2>1. EndsRun(ClaimOf(c, u), {Unseen})' /\ ClaimOf(c, u)' = ClaimOf(c, u)
    BY <1>1, <1>9, CommitEndsRun DEF JudgeCommitted, ClaimOf
  <2>2. \A k \in claims' \ claims : k = ClaimOf(c, u)'
    BY <1>9, <2>1 DEF JudgeCommitted
  <2>3. \A k \in claims' \ claims : EndsRun(k, {Unseen})'
    BY <2>1, <2>2 DEF EndsRun
  <2> QED
    BY <1>7, <1>9, <2>3 DEF JudgeCommitted
<1>10. ASSUME NEW c \in Conn, \/ Open(c) \/ Refuse(c) \/ ReaderReceive(c) \/ ReaderEnd(c)
                              \/ Opened(c) \/ OpenFails(c) \/ Close(c) \/ WakeEmpty(c)
                              \/ Take(c) \/ StartInference(c) \/ NotSpoof(c) \/ Log(c)
                              \/ ReplyOk(c) \/ MainFails(c)
       PROVE  UNCHANGED <<judged, claims, trackVars>>
  BY <1>10
  DEF Open, Refuse, ReaderReceive, ReaderEnd, Opened, OpenFails, Close, WakeEmpty, Take,
      StartInference, NotSpoof, Log, ReplyOk, MainFails
<1>11. CASE Tick \/ UNCHANGED vars
  BY <1>2, <1>11 DEF Tick, vars
<1> QED
  BY <1>2, <1>3, <1>5, <1>6, <1>8, <1>9, <1>10, <1>11 DEF Next, MainStep, Decide
-----------------------------------------------------------------------------
(* What becomes of a claim. *)

\* The claim in hand is the one whose check is running, or one that is published.
InHand ==
    \A c \in Conn :
        /\ pc[c] = "checking" => /\ committed[c] \in claims \ (published \cup spoofed)
                                 /\ committed[c].conn = c
        /\ pc[c] \in Judging => committed[c] = NoClaim
        /\ pc[c] \in {"logging", "replying"} /\ committed[c] # NoClaim
              => committed[c] \in published

Fates == /\ published \subseteq claims /\ spoofed \subseteq claims
         /\ logged \subseteq published
         /\ InHand /\ OneFate

LEMMA FreshFates == Fresh => Fates
  BY DEF Fresh, Fates, InHand, OneFate, Judging

\* A claim is granted once: its frame was not judged before.
LEMMA NewClaim ==
  ASSUME Typed, Newest, Confirmed, NEW c \in Conn, NEW u \in User, JudgeCommitted(c, u)
  PROVE  ClaimOf(c, u) \notin claims
<1> SUFFICES ASSUME ClaimOf(c, u) \in claims PROVE FALSE
  OBVIOUS
<1>1. pc[c] \in Judging
  BY DEF JudgeCommitted, CanJudge, Judging
<1>2. ClaimOf(c, u).conn = c /\ ClaimOf(c, u).frame = frame[c]
  BY DEF ClaimOf
<1>3. PICK b \in 1 .. Len(judged[c]) : judged[c][b].frame = frame[c]
  <2>1. EndsRun(ClaimOf(c, u), {Unseen})
    BY DEF Confirmed
  <2>2. \E b \in 1 .. Len(judged[c]) :
           judged[c][b] = [frame |-> frame[c], outcome |-> ClaimOf(c, u).user]
    BY <1>2, <2>1 DEF EndsRun
  <2> QED
    BY <2>2
<1>4. judged[c][b].frame < frame[c] /\ frame[c] \in Nat
  BY <1>1, <1>3 DEF Newest, Typed, TypeOK, Frame, NoFrame
<1> QED
  BY <1>3, <1>4

LEMMA NextFates ==
  ASSUME Typed, Newest, Confirmed, Fates, [Next]_vars
  PROVE  Fates'
<1> USE DEF Fates, Goto, sharedVars, mailVars, trackVars, claimVars
<1>1. TypeOK /\ LocalsSet /\ NoClaim \notin Claim
  BY StreamAssumption DEF Typed, NoClaim, Claim
<1>2. ASSUME UNCHANGED <<committed, claimVars>>,
             \A c \in Conn : pc'[c] # pc[c] =>
                /\ pc[c] # "checking" /\ pc'[c] # "checking"
                /\ pc'[c] \in Judging => pc[c] \in Judging
                /\ pc'[c] \in {"logging", "replying"} => pc[c] \in {"logging", "replying"}
      PROVE  Fates'
  <2>1. InHand'
    BY <1>2 DEF InHand
  <2>2. OneFate'
    <3> SUFFICES ASSUME NEW k \in claims
                 PROVE  \/ k \in published \/ k \in spoofed
                        \/ pc'[k.conn] = "checking" /\ committed[k.conn] = k
      BY <1>2 DEF OneFate
    <3>1. k.conn \in Conn
      BY <1>1 DEF TypeOK, Claim
    <3> QED
      BY <1>2, <3>1 DEF OneFate
  <2> QED
    BY <1>2, <2>1, <2>2
<1>3. ASSUME NEW c \in Conn, Take(c) PROVE Fates'
  <2>1. /\ pc[c] = "wait" /\ pc'[c] \in {"loading", "replying"}
        /\ committed' = [committed EXCEPT ![c] = NoClaim]
        /\ UNCHANGED claimVars
        /\ \A d \in Conn \ {c} : pc'[d] = pc[d]
    BY <1>1, <1>3 DEF TypeOK, Take
  <2>2. InHand'
    BY <1>1, <2>1 DEF InHand, TypeOK, Judging
  <2>3. OneFate'
    BY <1>1, <2>1 DEF OneFate, TypeOK, Claim
  <2> QED
    BY <2>1, <2>2, <2>3
<1>4. ASSUME NEW c \in Conn, NEW u \in User, JudgeCommitted(c, u) PROVE Fates'
  <2> DEFINE new == ClaimOf(c, u)
  <2>1. /\ claims' = claims \cup {new} /\ new \notin claims /\ new \in Claim
        /\ new.conn = c
        /\ committed' = [committed EXCEPT ![c] = new]
        /\ UNCHANGED <<logged, spoofed>> /\ pc[c] \in Judging
        /\ \A d \in Conn \ {c} : pc'[d] = pc[d]
        /\ \/ pc'[c] = "checking" /\ published' = published
           \/ pc'[c] = "logging" /\ published' = published \cup {new}
    <3>1. new \notin claims
      BY <1>4, NewClaim
    <3>2. new \in Claim /\ new.conn = c
      BY <1>1, <1>4
      DEF TypeOK, LocalsSet, JudgeCommitted, CanJudge, ClaimOf, Claim
    <3> QED
      BY <1>1, <1>4, <3>1, <3>2
      DEF TypeOK, JudgeCommitted, PublishedNow, CanJudge, Judging
  <2> HIDE DEF new
  <2>2. InHand'
    BY <1>1, <2>1 DEF InHand, TypeOK, Judging
  <2>3. OneFate'
    BY <1>1, <2>1 DEF OneFate, TypeOK, Claim, Judging
  <2> QED
    BY <2>1, <2>2, <2>3
<1>5. ASSUME NEW c \in Conn, Spoof(c) PROVE Fates'
  <2>1. /\ pc[c] = "checking" /\ pc' = [pc EXCEPT ![c] = "replying"]
        /\ spoofed' = spoofed \cup {committed[c]}
        /\ committed' = [committed EXCEPT ![c] = NoClaim]
        /\ UNCHANGED <<claims, published, logged>>
    BY <1>5 DEF Spoof, CommittedAfterSpoof
  <2>2. committed[c] \in claims \ (published \cup spoofed) /\ committed[c].conn = c
    BY <2>1 DEF InHand
  <2>3. InHand'
    BY <1>1, <2>1, <2>2 DEF InHand, TypeOK, Judging
  <2>4. OneFate'
    BY <1>1, <2>1, <2>2 DEF OneFate, TypeOK, Claim
  <2> QED
    BY <2>1, <2>2, <2>3, <2>4
<1>6. ASSUME NEW c \in Conn, NotSpoof(c) PROVE Fates'
  <2>1. /\ pc[c] = "checking" /\ pc' = [pc EXCEPT ![c] = "logging"]
        /\ published' = published \cup {committed[c]}
        /\ UNCHANGED <<claims, committed, spoofed, logged>>
    BY <1>6 DEF NotSpoof
  <2>2. committed[c] \in claims \ (published \cup spoofed) /\ committed[c].conn = c
    BY <2>1 DEF InHand
  <2>3. InHand'
    BY <1>1, <2>1, <2>2 DEF InHand, TypeOK, Judging
  <2>4. OneFate'
    BY <1>1, <2>1, <2>2 DEF OneFate, TypeOK, Claim
  <2> QED
    BY <2>1, <2>2, <2>3, <2>4
<1>7. ASSUME NEW c \in Conn, Log(c) PROVE Fates'
  <2>1. /\ pc[c] = "logging" /\ pc' = [pc EXCEPT ![c] = "replying"]
        /\ logged' \in {logged, logged \cup {committed[c]}}
        /\ UNCHANGED <<claims, committed, published, spoofed>>
    BY <1>7 DEF Log
  <2>2. committed[c] \in published
    BY <1>1, <2>1 DEF InHand, LocalsSet
  <2>3. InHand'
    BY <1>1, <2>1, <2>2 DEF InHand, TypeOK, Judging
  <2>4. OneFate'
    BY <1>1, <2>1 DEF OneFate, TypeOK, Claim
  <2> QED
    BY <2>1, <2>2, <2>3, <2>4
<1>8. ASSUME NEW c \in Conn, JudgeUnseen(c) \/ JudgeDeclined(c)
                             \/ \E u \in User : JudgeNotCommitted(c, u)
      PROVE  Fates'
  <2>1. /\ pc[c] \in Judging /\ pc' = [pc EXCEPT ![c] = "replying"]
        /\ UNCHANGED <<committed, claimVars>>
    BY <1>8 DEF JudgeUnseen, JudgeDeclined, JudgeNotCommitted, CanJudge, Judging
  <2>2. InHand'
    BY <1>1, <2>1 DEF InHand, TypeOK, Judging
  <2>3. OneFate'
    BY <1>1, <2>1 DEF OneFate, TypeOK, Claim, Judging
  <2> QED
    BY <2>1, <2>2, <2>3
<1>9. ASSUME NEW c \in Conn, \/ Open(c) \/ Refuse(c) \/ ReaderReceive(c) \/ ReaderEnd(c)
                             \/ Opened(c) \/ OpenFails(c) \/ Close(c) \/ WakeEmpty(c)
                             \/ StartInference(c) \/ ReplyOk(c) \/ MainFails(c)
      PROVE  Fates'
  <2>1. UNCHANGED <<committed, claimVars>>
    BY <1>9
    DEF Open, Refuse, ReaderReceive, ReaderEnd, Opened, OpenFails, Close, WakeEmpty,
        StartInference, ReplyOk, MainFails
  <2>2. \A d \in Conn : pc'[d] # pc[d] =>
           /\ pc[d] # "checking" /\ pc'[d] # "checking"
           /\ pc'[d] \in Judging => pc[d] \in Judging
           /\ pc'[d] \notin {"logging", "replying"}
    BY <1>1, <1>9
    DEF TypeOK, Judging, Open, Refuse, ReaderReceive, ReaderEnd, Opened, OpenFails,
        Close, WakeEmpty, StartInference, ReplyOk, MainFails
  <2> QED
    BY <1>2, <2>1, <2>2
<1>10. CASE Tick \/ UNCHANGED vars
  BY <1>2, <1>10 DEF Tick, vars
<1> QED
  BY <1>3, <1>4, <1>5, <1>6, <1>7, <1>8, <1>9, <1>10 DEF Next, MainStep, Decide
-----------------------------------------------------------------------------
(* The theorems. *)

\* Everything above, inductive together.
IInv == Typed /\ Spaced /\ Woken /\ InOrder /\ Confirmed /\ Fates

LEMMA FreshIInv == Fresh => IInv
  BY FreshTyped, FreshSpaced, FreshWoken, FreshInOrder, FreshConfirmed, FreshFates
  DEF IInv

LEMMA NextIInv == IInv /\ [Next]_vars => IInv'
<1> SUFFICES ASSUME IInv, [Next]_vars PROVE IInv'
  OBVIOUS
<1> USE DEF IInv
<1>1. TypeOK /\ Newest
  BY DEF Typed, InOrder
<1> QED
  BY <1>1, NextTyped, NextSpaced, NextWoken, NextInOrder, NextConfirmed, NextFates

THEOREM AlwaysIInv == Spec => []IInv
<1>1. Init => IInv
  BY InitFresh, FreshIInv
<1>2. IInv /\ [Next]_vars => IInv'
  BY NextIInv
<1> QED
  BY <1>1, <1>2, PTL DEF Spec

\* The state of the streams keeps its types, whatever the constants.
THEOREM TypeCorrect == Spec => []TypeOK
<1>1. IInv => TypeOK
  BY DEF IInv, Typed
<1> QED
  BY <1>1, AlwaysIInv, PTL

\* Any number of cameras that share one registry, pruned at any size, never commit an
\* employee twice within the cooldown.
THEOREM CommitsKeepDistance == Spec => []CommitsSpaced
<1>1. IInv => CommitsSpaced
  BY DEF IInv, Spaced
<1> QED
  BY <1>1, AlwaysIInv, PTL

\* Every commit ends a streak of the required length, made of different frames in the
\* order they arrived, of any length and with any gaps.
THEOREM CommitsAreConfirmed == Spec => []CommitsConfirmed
<1>1. IInv => CommitsConfirmed
  BY DEF IInv, InOrder, Confirmed, CommitsConfirmed
<1> QED
  BY <1>1, AlwaysIInv, PTL

\* No order of frames, disconnections, decisions and replies leaves a main loop asleep
\* beside a frame or after the end of its peer.
THEOREM WakeupsNeverLost == Spec => []NoLostWakeup
<1>1. IInv => NoLostWakeup
  BY WokenIsEnough DEF IInv
<1> QED
  BY <1>1, AlwaysIInv, PTL

\* Every granted claim is being checked, published or cancelled, never two of these,
\* and nobody is told of one that is not published.
THEOREM ClaimsHaveOneFate == Spec => [](OneFate /\ CommittedMeansPublished)
<1>1. IInv => OneFate /\ CommittedMeansPublished
  BY DEF IInv, Fates, InHand, CommittedMeansPublished
<1> QED
  BY <1>1, AlwaysIInv, PTL

-----------------------------------------------------------------------------
(* The composed system. *)

Event == [claim : Claim, life : Nat]

\* The bridge's window over the events published so far.
Windowed ==
    /\ first \in Nat \ {0} /\ last \in Nat /\ first <= last + 1
    /\ handed \subseteq 1 .. first - 1 /\ evicted \subseteq 1 .. first - 1
    /\ \A n \in evicted : n <= last

\* The events of this process are those of the published claims, one each, and only
\* they wait or can still be accepted.
Recorded ==
    /\ life \in Nat
    /\ events \in Seq(Event) /\ Len(events) = last
    /\ \A n \in 1 .. last : events[n].life <= life
    /\ \A n \in 1 .. last : events[n].life = life => events[n].claim \in published
    /\ \A k \in published : \E n \in 1 .. last : events[n] = EventOf(k)
    /\ \A m, n \in 1 .. last : events[m] = events[n] /\ events[m].life = life => m = n
    /\ \A n \in evicted \cup (first .. last) : events[n].life = life

\* No send is newer than the oldest event that waits.
SentInOrder ==
    /\ sends \in Seq(Nat)
    /\ \A i \in 1 .. Len(sends) : sends[i] \in 1 .. last /\ sends[i] <= first

SystemInv == IInv /\ Windowed /\ Recorded /\ SentInOrder

-----------------------------------------------------------------------------
LEMMA InitSystemInv == SystemInit => SystemInv
<1> SUFFICES ASSUME SystemInit PROVE SystemInv
  OBVIOUS
<1>1. IInv
  BY InitFresh, FreshIInv DEF SystemInit
<1>2. Windowed
  BY DEF SystemInit, Bridge!OutboxInit, Windowed
<1>3. Recorded
  BY DEF SystemInit, Bridge!OutboxInit, Init, Recorded
<1>4. SentInOrder
  BY DEF SystemInit, Bridge!OutboxInit, SentInOrder
<1> QED
  BY <1>1, <1>2, <1>3, <1>4 DEF SystemInv

\* A step of the streams publishes nothing, or one claim that was not published.
LEMMA OnePublished ==
  ASSUME IInv, Next
  PROVE  \/ published' = published
         \/ \E k \in Claim : /\ k \notin published /\ published' = published \cup {k}
                             /\ k \in claims'
<1> USE DEF sharedVars, mailVars, trackVars, claimVars
<1>1. ASSUME NEW c \in Conn, NEW u \in User, JudgeCommitted(c, u)
      PROVE  \E k \in Claim : /\ k \notin published /\ published' \in {published, published \cup {k}}
                              /\ k \in claims'
  <2>1. ClaimOf(c, u) \notin claims
    BY <1>1, NewClaim DEF IInv, InOrder
  <2>2. ClaimOf(c, u) \in Claim
    BY <1>1 DEF IInv, Typed, TypeOK, LocalsSet, JudgeCommitted, CanJudge, ClaimOf, Claim
  <2> QED
    BY <1>1, <2>1, <2>2 DEF IInv, Fates, JudgeCommitted, PublishedNow
<1>2. ASSUME NEW c \in Conn, NotSpoof(c)
      PROVE  \E k \in Claim : /\ k \notin published /\ published' = published \cup {k}
                              /\ k \in claims'
  BY <1>2 DEF NotSpoof, IInv, Typed, LocalsSet, Fates, InHand
<1>3. ASSUME NEW c \in Conn, \/ Open(c) \/ Refuse(c) \/ ReaderReceive(c) \/ ReaderEnd(c)
                             \/ Opened(c) \/ OpenFails(c) \/ Close(c) \/ WakeEmpty(c)
                             \/ Take(c) \/ StartInference(c) \/ JudgeUnseen(c)
                             \/ JudgeDeclined(c) \/ Spoof(c) \/ Log(c)
                             \/ ReplyOk(c) \/ MainFails(c)
                             \/ \E u \in User : JudgeNotCommitted(c, u)
      PROVE  published' = published
  BY <1>3
  DEF Open, Refuse, ReaderReceive, ReaderEnd, Opened, OpenFails, Close, WakeEmpty, Take,
      StartInference, JudgeUnseen, JudgeDeclined, JudgeNotCommitted, Spoof, Log, ReplyOk,
      MainFails
<1>4. CASE Tick
  BY <1>4 DEF Tick
<1> QED
  BY <1>1, <1>2, <1>3, <1>4 DEF Next, MainStep, Decide

\* A new process starts afresh.
LEMMA RestartFresh == IInv /\ Restart => Fresh'
  BY DEF IInv, Typed, TypeOK, Restart, Fresh

LEMMA RestartIInv == IInv /\ Restart => IInv'
  BY RestartFresh, FreshIInv, PTL

\* The publication of one claim more.
LEMMA PublishKeeps ==
  ASSUME Windowed, Recorded, NEW k \in Claim, k \notin published,
         published' = published \cup {k}, Bridge!Put,
         events' = Append(events, EventOf(k)), life' = life
  PROVE  Windowed' /\ Recorded'
<1> USE AttendanceAssumption DEF Windowed, Recorded
<1>1. EventOf(k) \in Event /\ EventOf(k).claim = k /\ EventOf(k).life = life
  BY DEF EventOf, Event
<1>2. /\ events' \in Seq(Event) /\ Len(events') = last + 1
      /\ \A n \in 1 .. last : events'[n] = events[n]
      /\ events'[last + 1] = EventOf(k)
  BY <1>1, AppendProperties
<1>3. /\ last' = last + 1 /\ handed' = handed
      /\ \/ first <= last /\ first' = first + 1 /\ evicted' = evicted \cup {first}
         \/ first' = first /\ evicted' = evicted
  BY DEF Bridge!Put
<1>4. Windowed'
  <2>1. CASE first <= last /\ first' = first + 1 /\ evicted' = evicted \cup {first}
    <3>1. evicted' \subseteq 1 .. first' - 1 /\ \A n \in evicted' : n <= last'
      BY <1>3, <2>1
    <3>2. handed' \subseteq 1 .. first' - 1
      BY <1>3, <2>1
    <3> QED
      BY <1>3, <2>1, <3>1, <3>2
  <2>2. CASE first' = first /\ evicted' = evicted
    <3>1. \A n \in evicted' : n <= last'
      BY <1>3, <2>2
    <3> QED
      BY <1>3, <2>2, <3>1
  <2> QED
    BY <1>3, <2>1, <2>2
<1>5. \A j : EventOf(j)' = EventOf(j)
  BY DEF EventOf
<1>6. \A n \in 1 .. last : events[n] # EventOf(k)
  BY <1>1
<1>7. \A n \in 1 .. last' : events'[n].life <= life'
  BY <1>1, <1>2, <1>3
<1>8. \A n \in 1 .. last' : events'[n].life = life' => events'[n].claim \in published'
  BY <1>1, <1>2, <1>3
<1>9. ASSUME NEW j \in published' PROVE \E n \in 1 .. last' : events'[n] = EventOf(j)'
  <2>1. CASE j \in published
    BY <1>2, <1>3, <1>5, <2>1
  <2>2. CASE j = k
    <3>1. last + 1 \in 1 .. last'
      BY <1>3
    <3> QED
      BY <1>2, <1>5, <2>2, <3>1
  <2> QED
    BY <2>1, <2>2
<1>10. ASSUME NEW m \in 1 .. last', NEW n \in 1 .. last',
              events'[m] = events'[n], events'[m].life = life'
       PROVE  m = n
  <2>1. CASE m \in 1 .. last /\ n \in 1 .. last
    BY <1>2, <1>10, <2>1
  <2>2. CASE m = last + 1 /\ n \in 1 .. last
    BY <1>2, <1>6, <1>10, <2>2
  <2>3. CASE n = last + 1 /\ m \in 1 .. last
    BY <1>2, <1>6, <1>10, <2>3
  <2> QED
    BY <1>3, <2>1, <2>2, <2>3
<1>11. ASSUME NEW n \in evicted' \cup (first' .. last') PROVE events'[n].life = life'
  <2>1. CASE n = last + 1
    BY <1>1, <1>2, <2>1
  <2>2. CASE n # last + 1
    <3>1. n \in evicted \cup (first .. last)
      <4>1. CASE n \in evicted'
        BY <1>3, <4>1
      <4>2. CASE n \in first' .. last'
        BY <1>3, <2>2, <4>2
      <4> QED
        BY <1>11, <4>1, <4>2
    <3>2. n \in 1 .. last
      <4>1. CASE n \in evicted
        BY <4>1
      <4>2. CASE n \in first .. last
        BY <4>2
      <4> QED
        BY <3>1, <4>1, <4>2
    <3> QED
      BY <1>2, <3>1, <3>2
  <2> QED
    BY <2>1, <2>2
<1>12. Len(events') = last' /\ life' \in Nat
  BY <1>2, <1>3
<1>13. Recorded'
  BY <1>2, <1>7, <1>8, <1>9, <1>10, <1>11, <1>12, ZenonT(60)
<1> QED
  BY <1>4, <1>13

\* Sends are appended in order, and nothing that waits gets older.
LEMMA NextSentInOrder ==
  ASSUME Windowed, SentInOrder,
         \/ Bridge!OutboxNext
         \/ UNCHANGED bridgeVars
         \/ Restart
  PROVE  SentInOrder'
<1> USE DEF Windowed, SentInOrder
<1>1. CASE Bridge!BeginSend
  <2>1. /\ first \in 1 .. last /\ sends' = Append(sends, first) /\ first \in Nat
        /\ UNCHANGED <<first, last>>
    BY <1>1 DEF Bridge!BeginSend
  <2>2. /\ sends' \in Seq(Nat) /\ Len(sends) \in Nat /\ Len(sends') = Len(sends) + 1
        /\ \A i \in 1 .. Len(sends) : sends'[i] = sends[i]
        /\ sends'[Len(sends) + 1] = first
    BY <2>1, AppendProperties, LenProperties
  <2> QED
    BY <2>1, <2>2
<1>2. CASE UNCHANGED sends /\ last' \in Nat /\ first' \in Nat
             /\ last' >= last /\ (first' >= first \/ first' = last + 1)
  BY <1>2
<1>3. CASE Bridge!Put
  BY <1>2, <1>3 DEF Bridge!Put
<1>4. CASE Bridge!HandOver \/ Bridge!LateAcceptance
  BY <1>2, <1>4 DEF Bridge!HandOver, Bridge!LateAcceptance, Bridge!NextOldest
<1>5. CASE Restart
  BY <1>2, <1>5 DEF Restart
<1>6. CASE UNCHANGED bridgeVars
  BY <1>2, <1>6 DEF bridgeVars
<1> QED
  BY <1>1, <1>3, <1>4, <1>5, <1>6 DEF Bridge!OutboxNext

LEMMA NextSystemInv == SystemInv /\ [SystemNext]_systemVars => SystemInv'
<1> SUFFICES ASSUME SystemInv, [SystemNext]_systemVars PROVE SystemInv'
  OBVIOUS
<1> USE DEF SystemInv
<1>s. SentInOrder'
  <2>1. Bridge!OutboxNext \/ UNCHANGED bridgeVars \/ Restart
    BY DEF SystemNext, StreamStep, Publish, Send, Bridge!OutboxNext, systemVars
  <2> QED
    BY <2>1, NextSentInOrder
<1>1. CASE StreamStep
  <2>1. IInv'
    BY <1>1, NextIInv DEF StreamStep
  <2>2. CASE published' = published
    <3>1. UNCHANGED <<first, last, handed, evicted, events, life, published>>
      BY <1>1, <2>2 DEF StreamStep, bridgeVars
    <3>2. Windowed' /\ Recorded'
      BY <3>1 DEF Windowed, Recorded, EventOf
    <3> QED
      BY <1>s, <2>1, <3>2
  <2>3. CASE published' # published
    <3>1. PICK k \in Claim : k \notin published /\ published' = published \cup {k}
      BY <1>1, <2>3, OnePublished DEF StreamStep
    <3>2. Bridge!Put /\ events' = Append(events, EventOf(k)) /\ life' = life
      BY <1>1, <2>3, <3>1 DEF StreamStep, Publish
    <3>3. Windowed' /\ Recorded'
      BY <3>1, <3>2, PublishKeeps
    <3> QED
      BY <1>s, <2>1, <3>3
  <2> QED
    BY <2>2, <2>3
<1>2. CASE Send
  <2>1. UNCHANGED <<vars, life, events>>
    BY <1>2 DEF Send
  <2>2. IInv'
    BY <2>1, NextIInv
  <2>3. published' = published
    BY <2>1 DEF vars, claimVars
  <2>4. CASE Bridge!HandOver
    <3>1. /\ first <= last /\ first' = first + 1 /\ handed' = handed \cup {first}
          /\ UNCHANGED <<last, evicted, events, life>>
      BY <2>1, <2>4 DEF Bridge!HandOver, Bridge!NextOldest
    <3>2. Windowed'
      BY <3>1 DEF Windowed
    <3>3. Recorded'
      BY <2>3, <3>1 DEF Windowed, Recorded, EventOf
    <3> QED
      BY <1>s, <2>2, <3>2, <3>3
  <2>5. CASE Bridge!LateAcceptance
    BY <1>s, <2>1, <2>2, <2>3, <2>5
    DEF Bridge!LateAcceptance, Windowed, Recorded, EventOf
  <2>6. CASE Bridge!BeginSend
    BY <1>s, <2>1, <2>2, <2>3, <2>6 DEF Bridge!BeginSend, Windowed, Recorded, EventOf
  <2> QED
    BY <1>2, <2>4, <2>5, <2>6 DEF Send
<1>3. CASE Restart
  <2>1. IInv'
    BY <1>3, RestartIInv
  <2>2. /\ life' = life + 1 /\ first' = last + 1 /\ evicted' = {} /\ published' = {}
        /\ UNCHANGED <<last, handed, events>>
    BY <1>3 DEF Restart
  <2>3. Windowed'
    BY <2>2 DEF Windowed
  <2>4. \A n \in 1 .. last : events[n].life \in Nat
    <3> SUFFICES ASSUME NEW n \in 1 .. last PROVE events[n].life \in Nat
      OBVIOUS
    <3>1. events[n] \in Event
      BY ElementOfSeq DEF Recorded
    <3> QED
      BY <3>1 DEF Event
  <2>5. Recorded'
    BY <2>2, <2>4 DEF Recorded, Windowed
  <2> QED
    BY <1>s, <2>1, <2>3, <2>5
<1>4. CASE UNCHANGED systemVars
  <2>1. UNCHANGED vars /\ UNCHANGED <<first, last, handed, evicted, life, events>>
    BY <1>4 DEF systemVars, bridgeVars
  <2>2. IInv'
    BY <2>1, NextIInv
  <2>3. Windowed' /\ Recorded'
    BY <2>1 DEF Windowed, Recorded, EventOf, vars, claimVars
  <2> QED
    BY <1>s, <2>2, <2>3
<1> QED
  BY <1>1, <1>2, <1>3, <1>4 DEF SystemNext

THEOREM AlwaysSystemInv == SystemSpec => []SystemInv
<1> QED
  BY InitSystemInv, NextSystemInv, PTL DEF SystemSpec

\* Two commits of one employee in one process are at least Cooldown apart: the
\* bridge and the restarts do not disturb what Stream promises of its claims.
THEOREM SystemKeepsDistance == SystemSpec => []CommitsSpaced
<1>1. SystemInv => CommitsSpaced
  BY DEF SystemInv, IInv, Spaced
<1> QED
  BY <1>1, AlwaysSystemInv, PTL

\* The events of one claim, and there is at most one.
LEMMA OneNumber ==
  ASSUME SystemInv, NEW k \in claims
  PROVE  Cardinality(Numbers(k)) = IF k \in published THEN 1 ELSE 0
<1> USE DEF SystemInv, Recorded, Windowed
<1>1. EventOf(k).claim = k /\ EventOf(k).life = life
  BY DEF EventOf
<1>2. CASE k \in published
  <2>1. PICK n \in 1 .. last : events[n] = EventOf(k)
    BY <1>2
  <2>2. Numbers(k) = {n}
    BY <1>1, <2>1 DEF Numbers
  <2> QED
    BY <1>2, <2>2, FS_Singleton
<1>3. CASE k \notin published
  <2>1. Numbers(k) = {}
    BY <1>1, <1>3 DEF Numbers
  <2> QED
    BY <1>3, <2>1, FS_EmptySet
<1> QED
  BY <1>2, <1>3

\* Every commit of a process has one fate, and one event if and only if that fate
\* is to be published; nothing is logged or answered as committed without one.
THEOREM CommitsAreAccounted == SystemSpec => []CommitsAccounted
<1>1. SystemInv => CommitsAccounted
  <2> SUFFICES ASSUME SystemInv PROVE CommitsAccounted
    OBVIOUS
  <2>1. OneFate /\ CommittedMeansPublished
    BY DEF SystemInv, IInv, Fates, InHand, CommittedMeansPublished
  <2>2. OneEventEach
    BY OneNumber DEF SystemInv, Recorded, OneEventEach
  <2> QED
    BY <2>1, <2>2 DEF CommitsAccounted
<1> QED
  BY <1>1, AlwaysSystemInv, PTL

-----------------------------------------------------------------------------
(* The service keeps the promises of AttendanceLedger. *)

\* An event as the ledger has it.
LedgerEntry(e) == [user |-> e.claim.user, time |-> e.claim.time, life |-> e.life]

Mapped == [n \in 1 .. Len(events) |-> LedgerEntry(events[n])]

Entry == [user : User, time : Time, life : Nat]

LEMMA EntryType == \A e \in Event : LedgerEntry(e) \in Entry
  BY DEF Event, Claim, LedgerEntry, Entry

\* The ledger grows with the events, one entry for one event.
LEMMA MappedGrows ==
  ASSUME events \in Seq(Event), NEW e \in Event, events' = Append(events, e)
  PROVE  /\ Mapped \in Seq(Entry) /\ Mapped' = Append(Mapped, LedgerEntry(e))
         /\ Len(Mapped) = Len(events)
<1>1. /\ events' \in Seq(Event) /\ Len(events') = Len(events) + 1 /\ Len(events) \in Nat
      /\ \A n \in 1 .. Len(events) : events'[n] = events[n]
      /\ events'[Len(events) + 1] = e
  BY AppendProperties, LenProperties
<1>2. \A n \in 1 .. Len(events) : events[n] \in Event
  BY ElementOfSeq
<1>3. Mapped \in Seq(Entry) /\ Len(Mapped) = Len(events)
  <2>1. \A n \in 1 .. Len(events) : LedgerEntry(events[n]) \in Entry
    BY <1>2, EntryType
  <2> QED
    BY <1>1, <2>1 DEF Mapped
<1>4. Mapped' = Append(Mapped, LedgerEntry(e))
  <2>1. \A j : LedgerEntry(j)' = LedgerEntry(j)
    BY DEF LedgerEntry
  <2>2. Mapped' = [n \in 1 .. Len(events) + 1 |-> LedgerEntry(events'[n])]
    BY <1>1, <2>1 DEF Mapped
  <2>3. /\ Append(Mapped, LedgerEntry(e)) \in Seq(Entry)
        /\ Len(Append(Mapped, LedgerEntry(e))) = Len(events) + 1
        /\ \A n \in 1 .. Len(events) : Append(Mapped, LedgerEntry(e))[n] = Mapped[n]
        /\ Append(Mapped, LedgerEntry(e))[Len(events) + 1] = LedgerEntry(e)
    BY <1>3, EntryType, AppendProperties
  <2>4. Append(Mapped, LedgerEntry(e))
          = [n \in 1 .. Len(events) + 1 |-> Append(Mapped, LedgerEntry(e))[n]]
    BY <2>3, LenProperties
  <2>5. \A n \in 1 .. Len(events) + 1 :
           Append(Mapped, LedgerEntry(e))[n] = LedgerEntry(events'[n])
    <3> SUFFICES ASSUME NEW n \in 1 .. Len(events) + 1
                 PROVE  Append(Mapped, LedgerEntry(e))[n] = LedgerEntry(events'[n])
      OBVIOUS
    <3>1. CASE n \in 1 .. Len(events)
      BY <1>1, <2>3, <3>1 DEF Mapped
    <3>2. CASE n = Len(events) + 1
      BY <1>1, <2>3, <3>2
    <3>3. n \in 1 .. Len(events) \/ n = Len(events) + 1
      <4>1. Len(events) \in Nat
        BY <1>1
      <4> QED
        BY <4>1
    <3> QED
      BY <3>1, <3>2, <3>3
  <2> QED
    BY <2>2, <2>4, <2>5
<1> QED
  BY <1>3, <1>4

\* A claim published now is Cooldown away from every event of its user and process.
LEMMA ApartFromAll ==
  ASSUME SystemInv, CommitsSpaced', NEW k \in claims', k \notin published,
         published \subseteq claims',
         NEW i \in 1 .. last, events[i].life = life, events[i].claim.user = k.user
  PROVE  Ledger!Apart(events[i].claim.time, k.time)
<1>1. events[i].claim \in published
  BY DEF SystemInv, Recorded
<1>2. events[i].claim \in claims' /\ events[i].claim # k
  BY <1>1
<1> QED
  BY <1>2 DEF CommitsSpaced, Ledger!Apart

LEMMA StepKeepsLedger ==
  SystemInv /\ SystemInv' /\ [SystemNext]_systemVars => [Ledger!LedgerNext]_(Ledger!ledgerVars)
<1> SUFFICES ASSUME SystemInv, SystemInv', [SystemNext]_systemVars
             PROVE  [Ledger!LedgerNext]_(Ledger!ledgerVars)
  OBVIOUS
<1> DEFINE Entries == [n \in 1 .. Len(events) |->
                         [user |-> events[n].claim.user,
                          time |-> events[n].claim.time, life |-> events[n].life]]
<1>a. Entries = Mapped /\ Entries' = Mapped'
  BY DEF Mapped, LedgerEntry
<1>b. /\ events \in Seq(Event) /\ Len(events) = last /\ last \in Nat
      /\ first \in Nat \ {0} /\ handed \subseteq 1 .. first - 1
  BY DEF SystemInv, Recorded, Windowed
<1>c. Len(Entries) = last /\ \A n \in 1 .. last : Entries[n].life = events[n].life
  <2>1. Len(Entries) = Len(events)
    BY <1>b
  <2> QED
    BY <1>b, <2>1
<1>d. ASSUME NEW n \in 1 .. last, events[n].life = life
      PROVE  Ledger!OfThisProcess(n) /\ n \in 1 .. Len(Entries)
  BY <1>c, <1>d DEF Ledger!OfThisProcess
<1>e. ASSUME UNCHANGED <<events, sends, handed, life>> PROVE UNCHANGED Ledger!ledgerVars
  BY <1>e DEF Ledger!ledgerVars
<1>f. ASSUME UNCHANGED events PROVE UNCHANGED Entries
  BY <1>f
<1>g. ASSUME NEW n \in 1 .. last, events[n].life = life, Bridge!Begun(n),
             handed' = handed \cup {n}, UNCHANGED <<events, sends, life>>
      PROVE  Ledger!LedgerNext
  <2>1. PICK i \in 1 .. Len(sends) : sends[i] = n
    BY <1>g DEF Bridge!Begun
  <2>2. Ledger!OfThisProcess(sends[i])
    BY <1>d, <1>g, <2>1
  <2>3. Ledger!EndSend
    BY <1>f, <1>g, <2>1, <2>2 DEF Ledger!EndSend
  <2> QED
    BY <2>3 DEF Ledger!LedgerNext
<1>1. CASE StreamStep /\ published' = published
  <2>1. UNCHANGED <<events, sends, handed, life>>
    BY <1>1 DEF StreamStep, bridgeVars
  <2> QED
    BY <1>e, <2>1
<1>2. CASE StreamStep /\ published' # published
  <2>1. PICK k \in Claim : /\ k \notin published /\ published' = published \cup {k}
                           /\ k \in claims'
    BY <1>2, OnePublished DEF StreamStep, SystemInv
  <2>2. Bridge!Put /\ events' = Append(events, EventOf(k)) /\ life' = life
    BY <1>2, <2>1 DEF StreamStep, Publish
  <2>3. handed' = handed /\ sends' = sends
    BY <2>2 DEF Bridge!Put
  <2>4. k.user \in User /\ k.time \in Time
    BY <2>1 DEF Claim
  <2>5. EventOf(k) \in Event
    BY <2>1 DEF EventOf, Event, SystemInv, Recorded
  <2>6. LedgerEntry(EventOf(k)) = [user |-> k.user, time |-> k.time, life |-> life]
    BY DEF LedgerEntry, EventOf
  <2>7. Entries' = Append(Entries, [user |-> k.user, time |-> k.time, life |-> life])
    BY <1>a, <1>b, <2>2, <2>5, <2>6, MappedGrows
  <2>8. CommitsSpaced' /\ published \subseteq claims'
    BY <2>1 DEF SystemInv, IInv, Spaced, Fates
  <2>9. \A i \in 1 .. Len(Entries) :
           Entries[i].user = k.user /\ Entries[i].life = life
             => Ledger!Apart(Entries[i].time, k.time)
    BY <1>b, <1>c, <2>1, <2>8, ApartFromAll
  <2>10. Ledger!Record
    BY <2>2, <2>3, <2>4, <2>7, <2>9 DEF Ledger!Record
  <2> QED
    BY <2>10 DEF Ledger!LedgerNext
<1>3. CASE Send /\ Bridge!BeginSend
  <2>1. /\ first \in 1 .. last /\ first \notin handed /\ sends' = Append(sends, first)
        /\ UNCHANGED <<events, handed, life>>
    BY <1>3, <1>b DEF Send, Bridge!BeginSend
  <2>2. events[first].life = life
    BY <2>1, <1>b DEF SystemInv, Recorded
  <2>3. \A i \in 1 .. Len(sends) : sends[i] <= first
    BY DEF SystemInv, SentInOrder
  <2>4. Ledger!BeginSend
    BY <1>d, <1>f, <2>1, <2>2, <2>3 DEF Ledger!BeginSend
  <2> QED
    BY <2>4 DEF Ledger!LedgerNext
<1>4. CASE Send /\ Bridge!HandOver
  <2>1. /\ first \in 1 .. last /\ Bridge!Begun(first) /\ handed' = handed \cup {first}
        /\ UNCHANGED <<events, sends, life>>
    BY <1>4, <1>b DEF Send, Bridge!HandOver
  <2>2. events[first].life = life
    BY <2>1, <1>b DEF SystemInv, Recorded
  <2> QED
    BY <1>g, <2>1, <2>2
<1>5. CASE Send /\ Bridge!LateAcceptance
  <2>1. PICK n \in evicted : Bridge!Begun(n) /\ handed' = handed \cup {n}
    BY <1>5 DEF Bridge!LateAcceptance
  <2>2. n \in 1 .. last /\ events[n].life = life
    BY DEF SystemInv, Windowed, Recorded
  <2>3. UNCHANGED <<events, sends, life>>
    BY <1>5 DEF Send, Bridge!LateAcceptance
  <2> QED
    BY <1>g, <2>1, <2>2, <2>3
<1>6. CASE Restart
  <2>1. life' = life + 1 /\ UNCHANGED <<events, sends, handed>>
    BY <1>6 DEF Restart
  <2>2. Ledger!NewProcess
    BY <1>f, <2>1 DEF Ledger!NewProcess
  <2> QED
    BY <2>2 DEF Ledger!LedgerNext
<1>7. CASE UNCHANGED systemVars
  BY <1>e, <1>7 DEF systemVars, bridgeVars
<1> QED
  BY <1>1, <1>2, <1>3, <1>4, <1>5, <1>6, <1>7 DEF SystemNext, Send

\* Cameras, cooldown registry, bounded queue and restarts together refine the ledger:
\* events of one employee and process are Cooldown apart; every send that begins is of
\* an event of the running process, not older than any event sent before and never one
\* whose send has returned, however often the sends before it raised.
THEOREM SystemImplementsLedger == SystemSpec => ImplementsLedger
<1>1. SystemInit => Ledger!LedgerInit
  <2> SUFFICES ASSUME SystemInit PROVE Ledger!LedgerInit
    OBVIOUS
  <2>1. events = <<>> /\ sends = <<>> /\ handed = {} /\ life = 0
    BY DEF SystemInit, Bridge!OutboxInit
  <2> QED
    BY <2>1 DEF Ledger!LedgerInit
<1>2. SystemInv /\ SystemInv' /\ [SystemNext]_systemVars
        => [Ledger!LedgerNext]_(Ledger!ledgerVars)
  BY StepKeepsLedger
<1> QED
  BY <1>1, <1>2, AlwaysSystemInv, PTL DEF SystemSpec, ImplementsLedger, Ledger!LedgerSpec
=============================================================================
