--------------------------- MODULE VideoChallenge ---------------------------
(***************************************************************************)
(* The one-time video liveness challenges of app/routers/face.py:          *)
(* create_video_challenge and verify_video_liveness, over the collection   *)
(* face_challenges, whose TTL index deletes expired documents.             *)
(*                                                                         *)
(* Submissions run concurrently; an action is the code between two awaits, *)
(* and a database call takes effect in one step and returns in a later one.*)
(* What the video shows is a choice of the environment.                    *)
(***************************************************************************)
EXTENDS Naturals, FiniteSets

CONSTANTS Challenge,    \* challenge ids the service issues
          Unknown,      \* an id it never issued
          Request,      \* calls of verify_video_liveness
          TTL,          \* settings.VIDEO_LIVENESS_CHALLENGE_TTL_SECONDS
          TzAware,      \* MongoDB returns timezone-aware datetimes
          ModelPresent, \* the passive liveness model is provisioned
          MaxTime,      \* bound: clock
          MaxFails      \* bound: database calls that raise

ASSUME ChallengeAssumption ==
    /\ Unknown \notin Challenge
    /\ TTL \in Nat /\ MaxTime \in Nat /\ MaxFails \in Nat
    /\ TzAware \in BOOLEAN /\ ModelPresent \in BOOLEAN

Id == Challenge \cup {Unknown}
Time == 0 .. MaxTime

\* The answers: judged is 200, verified or not; bad_video 400; not_found 404;
\* used 409; expired 410; internal is an unhandled exception, 500.
Answer == {"judged", "bad_video", "not_found", "used", "expired", "internal"}

VARIABLES now,      \* the clock of the service and of MongoDB
          status,   \* each challenge's document, or "none"
          expires,  \* its expires_at
          issued,   \* history: challenges issued
          pc,       \* where each request is
          id,       \* its challenge_id
          consumed, \* it was its find_one_and_update that found a pending document
          at,       \* the time that call took effect
          answer,   \* its response, or "none"
          failed    \* history: requests a database call raised in

storeVars == <<status, expires, issued>>
vars == <<now, storeVars, pc, id, consumed, at, answer, failed>>

Init == /\ now = 0
        /\ status = [c \in Challenge |-> "none"]
        /\ expires = [c \in Challenge |-> 0]
        /\ issued = {}
        /\ pc = [r \in Request |-> "idle"]
        /\ id = [r \in Request |-> Unknown]
        /\ consumed = [r \in Request |-> FALSE]
        /\ at = [r \in Request |-> 0]
        /\ answer = [r \in Request |-> "none"]
        /\ failed = {}

\* A definition named Wrong... is a plausible bug in the definition after it; the
\* properties are tested against it and no action uses it.

Tick == /\ now < MaxTime
        /\ now' = now + 1
        /\ UNCHANGED <<storeVars, pc, id, consumed, at, answer, failed>>

\* create_video_challenge: a fresh random id, pending until now + TTL.
Create(c) ==
    /\ c \notin issued
    /\ status' = [status EXCEPT ![c] = "pending"]
    /\ expires' = [expires EXCEPT ![c] = now + TTL]
    /\ issued' = issued \cup {c}
    /\ UNCHANGED <<now, pc, id, consumed, at, answer, failed>>

\* MongoDB's TTL monitor removes a document some time after expires_at, used or
\* not.
Reap(c) ==
    /\ status[c] # "none"
    /\ now >= expires[c]
    /\ status' = [status EXCEPT ![c] = "none"]
    /\ UNCHANGED <<now, expires, issued, pc, id, consumed, at, answer, failed>>

-----------------------------------------------------------------------------
(* verify_video_liveness. *)

\* A request with an id that was issued, or with one that never was.
Submit(r, c) ==
    /\ pc[r] = "idle"
    /\ c \in issued \cup {Unknown}
    /\ id' = [id EXCEPT ![r] = c]
    /\ pc' = [pc EXCEPT ![r] = "claiming"]
    /\ UNCHANGED <<now, storeVars, consumed, at, answer, failed>>

WrongClaimable(c) == c \in Challenge /\ status[c] # "none"

\* The filter {"challenge_id": ..., "status": "pending"}.
Claimable(c) == c \in Challenge /\ status[c] = "pending"

WrongStatusName == "consumed"

StatusAfterClaim == "used"

\* find_one_and_update takes effect: it finds and marks the document in one step.
Claim(r) ==
    /\ pc[r] = "claiming"
    /\ Claimable(id[r])
    /\ status' = [status EXCEPT ![id[r]] = StatusAfterClaim]
    /\ consumed' = [consumed EXCEPT ![r] = TRUE]
    /\ at' = [at EXCEPT ![r] = now]
    /\ pc' = [pc EXCEPT ![r] = "claimed"]
    /\ UNCHANGED <<now, expires, issued, id, answer, failed>>

\* It matches nothing.
ClaimMisses(r) ==
    /\ pc[r] = "claiming"
    /\ ~Claimable(id[r])
    /\ pc' = [pc EXCEPT ![r] = "missed"]
    /\ UNCHANGED <<now, storeVars, id, consumed, at, answer, failed>>

Finish(r, a) == /\ pc' = [pc EXCEPT ![r] = "done"]
                /\ answer' = [answer EXCEPT ![r] = a]

WrongExists(c) == c # Unknown

\* find_one({"challenge_id": ...}) returns a document.
Exists(c) == c \in Challenge /\ status[c] # "none"

\* find_one tells an id that does not exist from one that was used.
LookUp(r) ==
    /\ pc[r] = "missed"
    /\ Finish(r, IF Exists(id[r]) THEN "used" ELSE "not_found")
    /\ UNCHANGED <<now, storeVars, id, consumed, at, failed>>

WrongNeverExpired(c) == FALSE

\* doc["expires_at"] < datetime.now(timezone.utc)
Expired(c) == now > expires[c]

\* The claim returns and the expiry is checked.  A naive expires_at cannot be
\* compared with an aware datetime: the comparison raises TypeError.
CheckExpiry(r) ==
    /\ pc[r] = "claimed"
    /\ IF ~TzAware THEN Finish(r, "internal")
       ELSE IF Expired(id[r]) THEN Finish(r, "expired")
       ELSE pc' = [pc EXCEPT ![r] = "reading"] /\ UNCHANGED answer
    /\ UNCHANGED <<now, storeVars, id, consumed, at, failed>>

\* A VideoLivenessError becomes a 400 with its reason code.
BadVideo == "bad_video"

\* The upload has been read and is analysed.  Opening the video, its length and
\* its frames may fail with a VideoLivenessError; the model is loaded after the
\* video is opened and before a frame is read, and failing to load it raises
\* another exception, which nothing catches.
Analyse(r) ==
    /\ pc[r] = "reading"
    /\ \/ Finish(r, BadVideo)
       \/ Finish(r, IF ModelPresent THEN "judged" ELSE "internal")
    /\ UNCHANGED <<now, storeVars, id, consumed, at, failed>>

\* A database call of the request raises.  The claim may have taken effect.
DatabaseRaises(r) ==
    /\ pc[r] \in {"claiming", "claimed", "missed"}
    /\ Cardinality(failed) < MaxFails
    /\ failed' = failed \cup {r}
    /\ Finish(r, "internal")
    /\ UNCHANGED <<now, storeVars, id, consumed, at>>

-----------------------------------------------------------------------------
RequestStep(r) == \/ Claim(r) \/ ClaimMisses(r) \/ LookUp(r) \/ CheckExpiry(r)
                  \/ Analyse(r) \/ DatabaseRaises(r)

Next == \/ Tick
        \/ \E c \in Challenge : Create(c) \/ Reap(c)
        \/ \E r \in Request : (\E c \in Id : Submit(r, c)) \/ RequestStep(r)

Spec == Init /\ [][Next]_vars

-----------------------------------------------------------------------------
(* Properties. *)

\* Every variable ranges over the values the code gives it.
TypeOK ==
    /\ now \in Time
    /\ status \in [Challenge -> {"none", "pending", "used"}]
    /\ expires \in [Challenge -> Nat]
    /\ issued \subseteq Challenge
    /\ pc \in [Request -> {"idle", "claiming", "claimed", "missed", "reading", "done"}]
    /\ id \in [Request -> Id]
    /\ consumed \in [Request -> BOOLEAN]
    /\ at \in [Request -> Time]
    /\ answer \in [Request -> Answer \cup {"none"}]
    /\ failed \subseteq Request

\* However many submissions race, at most one gets past the claim of a
\* challenge, so at most one video is analysed for it (face.py:679-683).
SingleUse ==
    \A r, s \in Request : consumed[r] /\ consumed[s] /\ id[r] = id[s] => r = s

\* A video is judged only for a challenge that had not expired when it was
\* consumed, and only by the request that consumed it.
JudgedInTime ==
    \A r \in Request : answer[r] = "judged" =>
        consumed[r] /\ at[r] <= expires[id[r]]

\* challenge_used is the truth: another submission consumed the challenge.
UsedMeansConsumed ==
    \A r \in Request : answer[r] = "used" =>
        \E s \in Request \ {r} : consumed[s] /\ id[s] = id[r]

\* challenge_not_found is the truth: the id was never issued, or its time is
\* over; a live challenge is never denied, whatever else is submitted.
NotFoundMeansGone ==
    \A r \in Request : answer[r] = "not_found" =>
        id[r] = Unknown \/ now >= expires[id[r]]

\* What a refused submission is told is true, although the claim and the lookup
\* are separate calls and the TTL monitor may delete between them (face.py:685).
TrueRefusals == UsedMeansConsumed /\ NotFoundMeansGone

\* The first submission of a challenge, processed within its TTL, is judged or
\* told what is wrong with its video, unless a database call raised
\* (tests/test_video_liveness_api.py:45).
FirstUseIsJudged ==
    \A r \in Request :
        pc[r] = "done" /\ consumed[r] /\ now <= expires[id[r]] /\ r \notin failed =>
            answer[r] \in {"judged", "bad_video"}
=============================================================================
