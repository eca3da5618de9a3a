------------------------------- MODULE Stream -------------------------------
(***************************************************************************)
(* app/routers/stream.py, the identification WebSocket, with the tracker   *)
(* and the cooldown registry of app/services/face_index.py.                *)
(*                                                                         *)
(* Every connection has two tasks on the event loop: a reader that keeps   *)
(* the newest frame in a one-slot mailbox, and the main loop that takes it.*)
(* Inference and liveness run in worker threads while the loop serves the  *)
(* other tasks.  An action is the code between two awaits.  Connections    *)
(* share one clock and one cooldown registry.                              *)
(*                                                                         *)
(* What a frame shows, what the models say of it and whether the database  *)
(* answers are choices of the environment.                                 *)
(***************************************************************************)
EXTENDS Naturals, Sequences, FiniteSets

CONSTANTS Conn,      \* connections ever opened
          User,      \* enrolled employees
          Nobody,    \* no user
          Required,  \* settings.IDENTIFY_CONSECUTIVE_FRAMES
          Cooldown,  \* settings.IDENTIFY_COOLDOWN_SECONDS
          PruneAt,   \* 4096: size above which the cooldown registry is pruned
          MaxFrames, \* bound: frames received on each connection
          MaxTime    \* bound: clock

ASSUME StreamAssumption ==
    /\ Nobody \notin User
    /\ Required \in Nat /\ Cooldown \in Nat /\ PruneAt \in Nat
    /\ MaxFrames \in Nat /\ MaxTime \in Nat

Frame == 1 .. MaxFrames
NoFrame == 0
Time == 0 .. MaxTime

\* What identification says of a frame, as far as the main loop tells apart: it
\* names a user, declines to (unknown, ambiguous), or saw nothing to judge
\* (no_face, low_quality, empty_registry).
Declined == "declined"
Unseen == "unseen"
Outcome == User \cup {Declined, Unseen}

\* One granted claim: at `time`, for `user`, on frame `frame` of `conn`.
Claim == [user : User, time : Time, conn : Conn, frame : Frame]

VARIABLES now,       \* time.monotonic()
          seen,      \* cooldown_registry._seen
          pc,        \* where each main loop is
          reader,    \* where each reader task is
          slot,      \* slot["message"]
          arrived,   \* arrived.is_set()
          closed,    \* closed.is_set()
          received,  \* number of frames each reader has received
          frame,     \* local `message` of each main loop
          kind,      \* whether it holds an image or an embedding
          current,   \* tracker._current
          streak,    \* tracker._streak
          committed, \* local committed_user, as the claim it came from
          judged,    \* history: frames identified, in order, with the outcome
          claims,    \* history: claims granted
          published, \* history: claims given to ErpBridge.publish_identification
          logged,    \* history: claims written to verification_logs
          spoofed    \* history: claims cancelled by liveness

sharedVars == <<now, seen>>
mailVars == <<reader, slot, arrived, closed, received>>
trackVars == <<current, streak>>
claimVars == <<claims, published, logged, spoofed>>
vars == <<sharedVars, pc, mailVars, frame, kind, trackVars, committed, judged,
          claimVars>>

NoClaim == [user |-> Nobody, time |-> 0]

Init == /\ now = 0 /\ seen = <<>>
        /\ pc = [c \in Conn |-> "off"]
        /\ reader = [c \in Conn |-> "none"]
        /\ slot = [c \in Conn |-> NoFrame]
        /\ arrived = [c \in Conn |-> FALSE]
        /\ closed = [c \in Conn |-> FALSE]
        /\ received = [c \in Conn |-> 0]
        /\ frame = [c \in Conn |-> NoFrame]
        /\ kind = [c \in Conn |-> "image"]
        /\ current = [c \in Conn |-> Nobody]
        /\ streak = [c \in Conn |-> 0]
        /\ committed = [c \in Conn |-> NoClaim]
        /\ judged = [c \in Conn |-> <<>>]
        /\ claims = {} /\ published = {} /\ logged = {} /\ spoofed = {}

\* A definition named Wrong... is a plausible bug in the definition after it; the
\* properties are tested against it and no action uses it.

Tick == /\ now < MaxTime
        /\ now' = now + 1
        /\ UNCHANGED <<seen, pc, mailVars, frame, kind, trackVars, committed,
                       judged, claimVars>>

Goto(c, place) == pc' = [pc EXCEPT ![c] = place]

-----------------------------------------------------------------------------
(* Opening and closing. *)

\* The stream is enabled and the peer authorised: the socket is accepted and the
\* index is being loaded.
Open(c) == /\ pc[c] = "off"
           /\ Goto(c, "opening")
           /\ UNCHANGED <<sharedVars, mailVars, frame, kind, trackVars, committed,
                          judged, claimVars>>

\* Disabled or unauthorised: closed before any frame is read.
Refuse(c) == /\ pc[c] = "off"
             /\ Goto(c, "closed")
             /\ UNCHANGED <<sharedVars, mailVars, frame, kind, trackVars,
                            committed, judged, claimVars>>

\* The first ensure_loaded() returns and the reader task starts.
Opened(c) == /\ pc[c] = "opening"
             /\ Goto(c, "wait")
             /\ reader' = [reader EXCEPT ![c] = "reading"]
             /\ UNCHANGED <<sharedVars, slot, arrived, closed, received, frame,
                            kind, trackVars, committed, judged, claimVars>>

\* It raises, outside the try block: there is no reader to cancel.
OpenFails(c) == /\ pc[c] = "opening"
                /\ Goto(c, "closed")
                /\ UNCHANGED <<sharedVars, mailVars, frame, kind, trackVars,
                               committed, judged, claimVars>>

\* The finally block: the reader is cancelled, which runs its own finally.
Close(c) == /\ pc[c] = "closing"
            /\ Goto(c, "closed")
            /\ reader' = [reader EXCEPT ![c] = "done"]
            /\ closed' = [closed EXCEPT ![c] = TRUE]
            /\ arrived' = [arrived EXCEPT ![c] = TRUE]
            /\ UNCHANGED <<sharedVars, slot, received, frame, kind, trackVars,
                           committed, judged, claimVars>>

-----------------------------------------------------------------------------
(* The reader. *)

WrongArrivedOnFrame(c) == arrived

ArrivedOnFrame(c) == [arrived EXCEPT ![c] = TRUE]

\* A frame arrives and overwrites whatever the slot holds.
ReaderReceive(c) ==
    /\ reader[c] = "reading"
    /\ received[c] < MaxFrames
    /\ received' = [received EXCEPT ![c] = @ + 1]
    /\ slot' = [slot EXCEPT ![c] = received[c] + 1]
    /\ arrived' = ArrivedOnFrame(c)
    /\ UNCHANGED <<sharedVars, pc, reader, closed, frame, kind, trackVars,
                   committed, judged, claimVars>>

WrongArrivedOnEnd(c) == arrived

ArrivedOnEnd(c) == [arrived EXCEPT ![c] = TRUE]

\* The peer disconnects.
ReaderEnd(c) ==
    /\ reader[c] = "reading"
    /\ reader' = [reader EXCEPT ![c] = "done"]
    /\ closed' = [closed EXCEPT ![c] = TRUE]
    /\ arrived' = ArrivedOnEnd(c)
    /\ UNCHANGED <<sharedVars, pc, slot, received, frame, kind, trackVars,
                   committed, judged, claimVars>>

-----------------------------------------------------------------------------
(* The tracker and the cooldown registry. *)

\* max(1, self.required_frames)
Votes == IF Required > 1 THEN Required ELSE 1

WrongStreakWith(c, u) == streak[c] + 1

\* The streak once the tracker has seen u.
StreakWith(c, u) == IF current[c] = u THEN streak[c] + 1 ELSE 1

WrongConfirms(c, u) == StreakWith(c, u) > Votes

Confirms(c, u) == StreakWith(c, u) >= Votes

\* claim() refuses a user whose last claim is less than Cooldown ago.
Cooling(u) == u \in DOMAIN seen /\ now < seen[u] + Cooldown

WrongKept(u, s) == now >= s[u] + Cooldown

\* The prune keeps the entries not older than the cutoff, now - Cooldown.
Kept(u, s) == s[u] + Cooldown >= now

\* The registry after a granted claim of u.
SeenWith(u) ==
    LET added == [v \in DOMAIN seen \cup {u} |-> IF v = u THEN now ELSE seen[v]]
    IN  IF Cardinality(DOMAIN added) > PruneAt
          THEN [v \in {w \in DOMAIN added : Kept(w, added)} |-> added[v]]
          ELSE added

ClaimOf(c, u) == [user |-> u, time |-> now, conn |-> c, frame |-> frame[c]]

\* tracker.observe() of a frame that names nobody.
ObserveDeclined(c) ==
    /\ current' = [current EXCEPT ![c] = Nobody]
    /\ streak' = [streak EXCEPT ![c] = 0]

\* tracker.observe() of a frame that names u: the streak restarts when it is
\* long enough, whether or not the claim is then granted.
ObserveUser(c, u) ==
    /\ current' = [current EXCEPT ![c] = u]
    /\ streak' = [streak EXCEPT ![c] = IF Confirms(c, u) THEN 0 ELSE StreakWith(c, u)]

Granted(c, u) == Confirms(c, u) /\ ~Cooling(u)

-----------------------------------------------------------------------------
(* The main loop. *)

SlotAfterTake(c) == [slot EXCEPT ![c] = NoFrame]

\* arrived.wait() returns with an empty slot: the peer is gone, or a frame that
\* was taken before had set the event again.
WakeEmpty(c) ==
    /\ pc[c] = "wait" /\ arrived[c] /\ slot[c] = NoFrame
    /\ arrived' = [arrived EXCEPT ![c] = FALSE]
    /\ Goto(c, IF closed[c] THEN "closing" ELSE "wait")
    /\ UNCHANGED <<sharedVars, reader, slot, closed, received, frame, kind,
                   trackVars, committed, judged, claimVars>>

\* It returns with a frame: the frame is taken, also when the peer is gone.  A
\* frame that is too large or cannot be decoded is answered with an error and
\* reaches neither the index nor the tracker.
Take(c) ==
    /\ pc[c] = "wait" /\ arrived[c] /\ slot[c] # NoFrame
    /\ arrived' = [arrived EXCEPT ![c] = FALSE]
    /\ frame' = [frame EXCEPT ![c] = slot[c]]
    /\ slot' = SlotAfterTake(c)
    /\ committed' = [committed EXCEPT ![c] = NoClaim]
    /\ \/ Goto(c, "replying") /\ UNCHANGED kind
       \/ /\ Goto(c, "loading")
          /\ \E k \in {"image", "embedding"} : kind' = [kind EXCEPT ![c] = k]
    /\ UNCHANGED <<sharedVars, reader, closed, received, trackVars, judged,
                   claimVars>>

\* The per-frame ensure_loaded() returns.  An image goes to a worker thread.
StartInference(c) ==
    /\ pc[c] = "loading" /\ kind[c] = "image"
    /\ Goto(c, "inferring")
    /\ UNCHANGED <<sharedVars, mailVars, frame, kind, trackVars, committed,
                   judged, claimVars>>

\* The frame is ready to be judged: an embedding as soon as the index is
\* loaded, an image when its worker thread returns.
CanJudge(c) == \/ pc[c] = "loading" /\ kind[c] = "embedding"
               \/ pc[c] = "inferring"

Judge(c, o) ==
    judged' = [judged EXCEPT ![c] = Append(@, [frame |-> frame[c], outcome |-> o])]

\* Nothing to judge: the tracker is not told of this frame.
JudgeUnseen(c) ==
    /\ CanJudge(c)
    /\ Judge(c, Unseen)
    /\ Goto(c, "replying")
    /\ UNCHANGED <<sharedVars, mailVars, frame, kind, trackVars, committed,
                   claimVars>>

\* unknown or ambiguous.
JudgeDeclined(c) ==
    /\ CanJudge(c)
    /\ Judge(c, Declined)
    /\ ObserveDeclined(c)
    /\ Goto(c, "replying")
    /\ UNCHANGED <<sharedVars, mailVars, frame, kind, committed, claimVars>>

\* A user is named, but the streak is short or the user is cooling down.
JudgeNotCommitted(c, u) ==
    /\ CanJudge(c)
    /\ ~Granted(c, u)
    /\ Judge(c, u)
    /\ ObserveUser(c, u)
    /\ Goto(c, "replying")
    /\ UNCHANGED <<sharedVars, mailVars, frame, kind, committed, claimVars>>

\* publish_identification() runs at once for an embedding, which has no image
\* to check, and after the liveness check for an image.
PublishedNow(c, k) == IF kind[c] = "image" THEN published ELSE published \cup {k}

\* A user is named and the claim is granted.
JudgeCommitted(c, u) ==
    /\ CanJudge(c)
    /\ Granted(c, u)
    /\ Judge(c, u)
    /\ ObserveUser(c, u)
    /\ seen' = SeenWith(u)
    /\ claims' = claims \cup {ClaimOf(c, u)}
    /\ committed' = [committed EXCEPT ![c] = ClaimOf(c, u)]
    /\ published' = PublishedNow(c, ClaimOf(c, u))
    /\ Goto(c, IF kind[c] = "image" THEN "checking" ELSE "logging")
    /\ UNCHANGED <<now, mailVars, frame, kind, logged, spoofed>>

WrongCommittedAfterSpoof(c) == committed

CommittedAfterSpoof(c) == [committed EXCEPT ![c] = NoClaim]

\* Liveness says the face is not live: the commit is cancelled and the tracker
\* reset.  The cooldown claim is kept.
Spoof(c) ==
    /\ pc[c] = "checking"
    /\ spoofed' = spoofed \cup {committed[c]}
    /\ committed' = CommittedAfterSpoof(c)
    /\ ObserveDeclined(c)
    /\ Goto(c, "replying")
    /\ UNCHANGED <<sharedVars, mailVars, frame, kind, judged, claims, published,
                   logged>>

\* It says live, or cannot tell (disabled, unavailable, failed).
NotSpoof(c) ==
    /\ pc[c] = "checking"
    /\ published' = published \cup {committed[c]}
    /\ Goto(c, "logging")
    /\ UNCHANGED <<sharedVars, mailVars, frame, kind, trackVars, committed,
                   judged, claims, logged, spoofed>>

\* verification_logs.insert_one(); a failure is logged and swallowed.
Log(c) ==
    /\ pc[c] = "logging"
    /\ logged' \in {logged, logged \cup {committed[c]}}
    /\ Goto(c, "replying")
    /\ UNCHANGED <<sharedVars, mailVars, frame, kind, trackVars, committed,
                   judged, claims, published, spoofed>>

\* send_text() returns.  Once the reader has seen the peer disconnect the server
\* refuses every send on that socket.
ReplyOk(c) ==
    /\ pc[c] = "replying"
    /\ ~closed[c]
    /\ Goto(c, "wait")
    /\ UNCHANGED <<sharedVars, mailVars, frame, kind, trackVars, committed,
                   judged, claimVars>>

\* An await of the main loop raises: send_text() because the peer is gone,
\* ensure_loaded() or the inference because they failed.
MainFails(c) ==
    /\ pc[c] \in {"replying", "loading", "inferring"}
    /\ Goto(c, "closing")
    /\ UNCHANGED <<sharedVars, mailVars, frame, kind, trackVars, committed,
                   judged, claimVars>>

-----------------------------------------------------------------------------
Decide(c) == \/ JudgeUnseen(c) \/ JudgeDeclined(c)
             \/ \E u \in User : JudgeNotCommitted(c, u) \/ JudgeCommitted(c, u)

MainStep(c) == \/ Opened(c) \/ OpenFails(c) \/ Close(c)
               \/ WakeEmpty(c) \/ Take(c) \/ StartInference(c) \/ Decide(c)
               \/ Spoof(c) \/ NotSpoof(c) \/ Log(c) \/ ReplyOk(c) \/ MainFails(c)

Next == \/ Tick
        \/ \E c \in Conn : \/ Open(c) \/ Refuse(c)
                           \/ ReaderReceive(c) \/ ReaderEnd(c)
                           \/ MainStep(c)

Spec == Init /\ [][Next]_vars

\* Worker threads, MongoDB and the peer's socket answer or raise, and the event
\* loop runs every runnable task.  Nobody is obliged to open a stream, to send a
\* frame or to disconnect.
FairSpec == Spec /\ \A c \in Conn : WF_vars(MainStep(c))

-----------------------------------------------------------------------------
(* Properties. *)

\* Every variable ranges over the values the code gives it.
TypeOK ==
    /\ now \in Time
    /\ DOMAIN seen \subseteq User /\ \A u \in DOMAIN seen : seen[u] \in Time
    /\ pc \in [Conn -> {"off", "opening", "wait", "loading", "inferring",
                        "checking", "logging", "replying", "closing", "closed"}]
    /\ reader \in [Conn -> {"none", "reading", "done"}]
    /\ slot \in [Conn -> Frame \cup {NoFrame}]
    /\ arrived \in [Conn -> BOOLEAN] /\ closed \in [Conn -> BOOLEAN]
    /\ received \in [Conn -> 0 .. MaxFrames]
    /\ frame \in [Conn -> Frame \cup {NoFrame}]
    /\ kind \in [Conn -> {"image", "embedding"}]
    /\ current \in [Conn -> User \cup {Nobody}]
    /\ streak \in [Conn -> Nat] /\ \A c \in Conn : streak[c] < Votes
    /\ committed \in [Conn -> Claim \cup {NoClaim}]
    /\ judged \in [Conn -> Seq([frame : Frame, outcome : Outcome])]
    /\ claims \subseteq Claim /\ published \subseteq Claim
    /\ logged \subseteq Claim /\ spoofed \subseteq Claim

\* Two commits of one employee are at least Cooldown apart, whichever cameras
\* made them and whatever the registry has pruned (face_index.py:203-226).
CommitsSpaced ==
    \A a, b \in claims : a # b /\ a.user = b.user =>
        a.time >= b.time + Cooldown \/ b.time >= a.time + Cooldown

\* The places in a .. b where s names u.
Naming(u, s, a, b) == {i \in a .. b : s[i].outcome = u}

\* In a .. b, s names u and has outcomes in `others`, nothing else.
Only(u, others, s, a, b) == \A i \in a .. b : s[i].outcome \in {u} \cup others

\* Claim k rests on Votes frames of its connection that name its user, the last of
\* them its own, with nothing but `others` between them.
EndsRun(k, others) ==
    LET s == judged[k.conn]
    IN  \E a, b \in 1 .. Len(s) :
           /\ s[b] = [frame |-> k.frame, outcome |-> k.user]
           /\ Only(k.user, others, s, a, b)
           /\ Cardinality(Naming(k.user, s, a, b)) >= Votes

\* No frame is judged twice and none after a newer one.
FramesInOrder ==
    \A c \in Conn : \A i, j \in 1 .. Len(judged[c]) :
        i < j => judged[c][i].frame < judged[c][j].frame

\* A commit rests on Votes consecutive observed frames that name its user, and
\* these are different frames: one picture cannot make a streak, although the
\* mailbox is overwritten while a frame is judged (stream.py:206, 233).
CommitsConfirmed == FramesInOrder /\ \A k \in claims : EndsRun(k, {Unseen})

\* A main loop that sleeps in arrived.wait() has no frame in its mailbox and a
\* peer that is still there (stream.py:210-231).
NoLostWakeup ==
    \A c \in Conn : pc[c] = "wait" /\ ~arrived[c] => slot[c] = NoFrame /\ ~closed[c]

\* Every granted claim has exactly one fate: its liveness check is running, or
\* it became an attendance event, or it was cancelled as a spoof.
OneFate ==
    \A k \in claims :
        /\ \/ k \in published \/ k \in spoofed
           \/ pc[k.conn] = "checking" /\ committed[k.conn] = k
        /\ ~(k \in published /\ k \in spoofed)

\* A reply says committed, and a log row is written, only for a claim that was
\* handed to the ERP bridge before (stream.py:318-333).
CommittedMeansPublished ==
    /\ logged \subseteq published
    /\ \A c \in Conn : pc[c] \in {"logging", "replying"} /\ committed[c] # NoClaim
                         => committed[c] \in published

\* After the peer disconnects, or any await raises, the stream ends, whatever
\* frame is in the mailbox or in a worker thread at that moment.
StreamEnds == \A c \in Conn : closed[c] \/ pc[c] = "closing" ~> pc[c] = "closed"

\* Whatever frame arrives, a frame at least as new is taken or the stream ends:
\* an overwritten frame is replaced, never forgotten.
FramesServed ==
    \A c \in Conn : \A f \in Frame :
        (received[c] >= f) ~> (frame[c] >= f \/ pc[c] = "closed")

\* README.md, "committed is the event": an identity is accepted after winning
\* IDENTIFY_CONSECUTIVE_FRAMES in a row, of the frames identified.
CommitsInARow == \A k \in claims : EndsRun(k, {})
=============================================================================
