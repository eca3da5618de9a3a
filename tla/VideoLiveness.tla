---------------------------- MODULE VideoLiveness ----------------------------
(***************************************************************************)
(* app/services/video_liveness.py: one analysis of an uploaded video       *)
(* (analyze_bytes, _analyze_path) and the scores it is judged by           *)
(* (score_turn, score_blink, combine_scores).                              *)
(*                                                                         *)
(* An action is one turn of the decoding loop.  The networks are replaced  *)
(* by what they return of a frame: a yaw or an eye aspect ratio, and a     *)
(* passive score.  Ratios are percentages, so that every comparison of the *)
(* code is one between integers.                                           *)
(***************************************************************************)
EXTENDS Integers, Sequences, FiniteSets

CONSTANTS Yaw,         \* head poses, in degrees
          Ear,         \* eye aspect ratios, times 100
          Score,       \* passive liveness scores, times 100
          Turn,        \* settings.VIDEO_LIVENESS_TURN_DEGREES
          Neutral,     \* settings.VIDEO_LIVENESS_NEUTRAL_DEGREES
          Closed,      \* settings.VIDEO_LIVENESS_BLINK_CLOSED_RATIO, times 100
          Open,        \* settings.VIDEO_LIVENESS_BLINK_OPEN_RATIO, times 100
          Live,        \* settings.LIVENESS_THRESHOLD, times 100
          Moved,       \* settings.VIDEO_LIVENESS_MOTION_THRESHOLD, times 100
          MinFrames,   \* settings.VIDEO_LIVENESS_MIN_FRAMES
          MaxFrames,   \* settings.VIDEO_LIVENESS_MAX_SECONDS, times the frame rate
          SampleEvery  \* the local sample_every

ASSUME VideoAssumption ==
    /\ Yaw \subseteq Int /\ Ear \subseteq Nat /\ Score \subseteq 0 .. 100
    /\ Neutral \in Nat /\ Turn \in Nat \ {0}
    /\ Closed \in 0 .. 99 /\ Open \in 0 .. 100 /\ Live \in 0 .. 100 /\ Moved \in 1 .. 100
    /\ MinFrames \in Nat \ {0} /\ MaxFrames \in Nat /\ SampleEvery \in Nat \ {0}

VARIABLES action,   \* what the challenge asks for
          decoded,  \* frames decoded so far
          motion,   \* the local motion_values
          passive,  \* the local passive_scores
          outcome   \* where the analysis is, or the reason code it ends with

vars == <<action, decoded, motion, passive, outcome>>

Init == /\ action \in {"turn_left", "turn_right", "blink"}
        /\ decoded = 0
        /\ motion = <<>> /\ passive = <<>>
        /\ outcome = "opening"

\* A definition named Wrong... is a plausible bug in the definition after it; the
\* properties are tested against it and no action uses it.

-----------------------------------------------------------------------------
(* Scores, times 100. *)

LesserOf(a, b) == IF a < b THEN a ELSE b
Magnitude(a) == IF a < 0 THEN -a ELSE a

\* The k-th smallest element of s.
Ranked(s, k) ==
    CHOOSE v \in {s[i] : i \in DOMAIN s} :
        /\ Cardinality({i \in DOMAIN s : s[i] < v}) < k
        /\ Cardinality({i \in DOMAIN s : s[i] <= v}) >= k

\* np.median(s[:3])
Baseline(s) == Ranked(SubSeq(s, 1, 3), 2)

\* The indices of s[3:].
Later(s) == 4 .. Len(s)

WrongAfter(s, i) == Later(s)

\* The indices after i.
After(s, i) == i + 1 .. Len(s)

\* direction * (yaw - baseline)
Delta(s, i, act) == IF act = "turn_right" THEN s[i] - Baseline(s)
                                          ELSE Baseline(s) - s[i]

\* The first of the largest deltas.
Peak(s, act) ==
    CHOOSE i \in Later(s) : \A j \in Later(s) :
        Delta(s, j, act) < Delta(s, i, act) \/ (Delta(s, j, act) = Delta(s, i, act) /\ i <= j)

\* score_turn
ScoreTurn(s, act) ==
    IF Len(s) < 5 THEN 0
    ELSE LET peak == Peak(s, act)
             delta == Delta(s, peak, act)
             returned == \E j \in After(s, peak) : Magnitude(s[j] - Baseline(s)) <= Neutral
         IN IF delta >= Turn /\ returned THEN LesserOf(100, (100 * delta) \div Turn) ELSE 0

IsClosed(s, i) == 100 * s[i] <= Closed * Baseline(s)
IsReopened(s, i) == 100 * s[i] >= Open * Baseline(s)

\* score_blink: from the first closed frame on, the eyes must reopen.
ScoreBlink(s) ==
    IF Len(s) < 5 \/ Baseline(s) <= 0 \/ ~(\E i \in Later(s) : IsClosed(s, i)) THEN 0
    ELSE LET first == CHOOSE i \in Later(s) :
                          IsClosed(s, i) /\ \A j \in 4 .. i - 1 : ~IsClosed(s, j)
             least == Ranked(SubSeq(s, first, Len(s)), 1)
             depth == 10000 * (Baseline(s) - least)
         IN IF \E j \in After(s, first) : IsReopened(s, j)
            THEN LesserOf(100, depth \div (Baseline(s) * (100 - Closed)))
            ELSE 0

WrongPercentile(s) == 10 * Ranked(s, (Len(s) + 1) \div 2)

\* Ten times np.percentile(s, 10), which interpolates between two elements.
Percentile(s) ==
    LET below == (Len(s) - 1) \div 10
        part == (Len(s) - 1) % 10
    IN (10 - part) * Ranked(s, below + 1) + part * Ranked(s, LesserOf(below + 2, Len(s)))

ScoreMotion == IF action = "blink" THEN ScoreBlink(motion) ELSE ScoreTurn(motion, action)

\* The reason code of a video with enough frames.
Verdict ==
    IF Percentile(passive) < 10 * Live THEN "spoof_detected"
    ELSE IF ScoreMotion >= Moved THEN "verified" ELSE "challenge_failed"

-----------------------------------------------------------------------------
(* The analysis. *)

\* A VideoLivenessError, or another exception: the locals are gone.
Raise(codes) == /\ outcome' \in codes
                /\ decoded' = 0 /\ motion' = <<>> /\ passive' = <<>>
                /\ UNCHANGED action

\* A file that is too large, no video, or too long by its own header.
Reject == /\ outcome = "opening"
          /\ Raise({"video_too_large", "invalid_video", "video_too_long"})

\* The passive model is loaded.  If its file is missing, an exception that is
\* no VideoLivenessError leaves analyze_bytes.
OpenVideo == /\ outcome = "opening"
             /\ \/ outcome' = "reading" /\ UNCHANGED <<action, decoded, motion, passive>>
                \/ Raise({"internal"})

\* A frame is decoded and the video is not too long yet.
Readable == outcome = "reading" /\ decoded <= MaxFrames

Sampled == decoded % SampleEvery = 0

Skip == /\ Readable /\ ~Sampled
        /\ decoded' = decoded + 1
        /\ UNCHANGED <<action, motion, passive, outcome>>

\* A sampled frame shows one face.
Sample(m, p) == /\ Readable /\ Sampled
                /\ decoded' = decoded + 1
                /\ motion' = Append(motion, m)
                /\ passive' = Append(passive, p)
                /\ UNCHANGED <<action, outcome>>

\* The reason codes of a sampled frame that cannot be used: no face, several,
\* a passive model that fails, or a face without a pose or landmarks.
BadFrame == {IF passive = <<>> THEN "no_face" ELSE "face_lost",
             "multiple_faces", "model_unavailable", "challenge_failed"}

RefuseFrame == Readable /\ Sampled /\ Raise(BadFrame)

\* A frame is decoded beyond the limit, whatever the header said.
TooLong == outcome = "reading" /\ decoded > MaxFrames /\ Raise({"video_too_long"})

\* The video ends.  From here on `decoded` is only a record of its length.
Judge == /\ outcome = "reading"
         /\ \/ Len(passive) < MinFrames /\ Raise({"video_too_short"})
            \/ /\ Len(passive) >= MinFrames
               /\ outcome' = Verdict
               /\ UNCHANGED <<action, decoded, motion, passive>>

Values == IF action = "blink" THEN Ear ELSE Yaw

Next == \/ Reject \/ OpenVideo \/ Skip \/ RefuseFrame \/ TooLong \/ Judge
        \/ \E m \in Values, p \in Score : Sample(m, p)

Spec == Init /\ [][Next]_vars

-----------------------------------------------------------------------------
(* Properties. *)

Judged == passive # <<>> /\ outcome \in {"verified", "spoof_detected", "challenge_failed"}

\* The largest turn, wherever it is reached, is large enough and is followed by
\* a frame near the baseline.
Turned(s, act) ==
    \E i \in Later(s), j \in DOMAIN s :
        /\ i < j
        /\ Delta(s, i, act) >= Turn
        /\ \A k \in Later(s) : Delta(s, k, act) <= Delta(s, i, act)
        /\ Magnitude(s[j] - Baseline(s)) <= Neutral

\* The eyes were open, are closed in some frame and open again in a later one.
Blinked(s) ==
    /\ Baseline(s) > 0
    /\ \E i \in Later(s), j \in DOMAIN s : i < j /\ IsClosed(s, i) /\ IsReopened(s, j)

\* The motion score decides as the design says: an ordered neutral-turn-neutral
\* or open-closed-open sequence is necessary
\* (docs/superpowers/specs/2026-07-20-video-liveness-challenge-design.md:61-63),
\* and with a sufficient passive score it is also enough.  Taking the first
\* peak and the first closed frame, the cap of the score and the threshold of
\* the motion lose nothing.
VerdictIsRight ==
    Judged => (outcome = "verified" <=>
                  /\ Percentile(passive) >= 10 * Live
                  /\ Len(motion) >= 5
                  /\ IF action = "blink" THEN Blinked(motion) ELSE Turned(motion, action))

\* The lower percentile is conservative: of n frames of a verified video at most
\* one, and one more per ten frames, look like a spoof.
FewSpoofedFrames ==
    outcome = "verified" =>
        Cardinality({i \in DOMAIN passive : passive[i] < Live}) <= 1 + (Len(passive) - 1) \div 10
=============================================================================
