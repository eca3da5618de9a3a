----------------------------- MODULE Verification -----------------------------
(***************************************************************************)
(* What the service says of one photo: extract_enrollment_face,            *)
(* verify_employee and verify_employee_secure of app/routers/face.py, with *)
(* the passive liveness of app/services/liveness.py and the quality gate   *)
(* of app/services/face_quality.py, over the registrations of              *)
(* Enrollment.tla.                                                         *)
(*                                                                         *)
(* A verification reads the document once, awaits the upload and then      *)
(* decides without another await, from its own copy: whatever happens to   *)
(* the registry meanwhile, its answer is a function of one document, the   *)
(* photo and the model of the process.  So it needs no state of its own,   *)
(* and the properties speak of every photo that might be sent in a state.  *)
(***************************************************************************)
EXTENDS Enrollment, Integers, Sequences

CONSTANTS GateEnabled, \* settings.QUALITY_GATE_ENABLED
          LiveFrom,    \* settings.LIVENESS_THRESHOLD
          MaxScore,    \* bound: scores of the passive model
          NoScore      \* the passive model returned no finite score

ASSUME VerificationAssumption ==
    /\ GateEnabled \in BOOLEAN
    /\ LiveFrom \in Nat /\ MaxScore \in Nat /\ NoScore \notin 0 .. MaxScore

\* The checks of assess(), in their order.
Checks == <<"face_outside_image", "low_detection_confidence", "face_too_small",
            "image_too_blurry", "bad_lighting", "face_not_frontal", "face_tilted">>

Photo == [readable : BOOLEAN,                    \* cv2.imdecode
          faces : 0 .. 2,                        \* two stand for several
          flaws : SUBSET (1 .. Len(Checks)),     \* checks it fails
          bounds : BOOLEAN,                      \* a box liveness can crop
          score : 0 .. MaxScore \cup {NoScore}]  \* probability of a live face

\* A definition named Wrong... is a plausible bug in the definition after it; the
\* properties are tested against it and no action uses it.

-----------------------------------------------------------------------------
(* Services. *)

\* analyze(): `ready` is whether the LivenessService could be constructed.
Passive(ready, p) ==
    IF ~ready \/ ~p.bounds \/ p.score = NoScore THEN "model_unavailable"
    ELSE IF p.score >= LiveFrom THEN "live" ELSE "spoof_detected"

\* assess(): the first failing check wins.
ReasonCode(p) ==
    Checks[CHOOSE i \in p.flaws : \A j \in p.flaws : i <= j]

\* compute_similarity() >= threshold, as far as it is determined: the embedding of
\* a picture is similar to itself, in the vector space of one model pack.  Between
\* packs, and between pictures, the networks decide.
Similar(d, shown) ==
    IF d.pack = model /\ d.vectors = {shown} THEN {TRUE} ELSE BOOLEAN

-----------------------------------------------------------------------------
(* Endpoints. *)

\* What is wrong with the faces of a photo that must show exactly one.
Faces(p) == IF ~p.readable THEN "invalid_image"
            ELSE IF p.faces = 0 THEN "no_face"
            ELSE IF p.faces > 1 THEN "multiple_faces" ELSE "one"

\* extract_enrollment_face()
Enrol(ready, p) ==
    IF Faces(p) # "one" THEN Faces(p)
    ELSE IF GateEnabled /\ p.flaws # {} THEN ReasonCode(p)
    ELSE IF Passive(ready, p) # "live" THEN Passive(ready, p) ELSE "accepted"

WrongSecure(ready, p, similar) ==
    IF Faces(p) # "one" THEN Faces(p)
    ELSE IF Passive(ready, p) = "spoof_detected" THEN "spoof_detected"
    ELSE IF similar THEN "verified" ELSE "face_mismatch"

\* verify_employee_secure() of a registered employee.
Secure(ready, p, similar) ==
    IF Faces(p) # "one" THEN Faces(p)
    ELSE IF Passive(ready, p) # "live" THEN Passive(ready, p)
    ELSE IF similar THEN "verified" ELSE "face_mismatch"

\* verify_employee() of a registered employee, which judges the largest face;
\* `require` is settings.REQUIRE_LIVENESS_ON_VERIFY.
Plain(require, ready, p, similar) ==
    IF \/ ~p.readable \/ p.faces = 0
       \/ require /\ Passive(ready, p) # "live"
      THEN "refused"
      ELSE IF similar THEN "verified" ELSE "refused"

-----------------------------------------------------------------------------
(* Properties. *)

\* A photo that passes the secure endpoint passes the plain one, asked without a
\* threshold of its own, whatever its setting, and only with a live verdict.
SecureIsStrictest ==
    \A p \in Photo : \A ready, similar, require \in BOOLEAN :
       Secure(ready, p, similar) = "verified"
         => Plain(require, ready, p, similar) = "verified" /\ Passive(ready, p) = "live"

\* A photo good enough to enrol is good enough to verify with, if it matches.
AcceptedVerifies ==
    \A p \in Photo : Enrol(TRUE, p) = "accepted" =>
       /\ Secure(TRUE, p, TRUE) = "verified"
       /\ \A require \in BOOLEAN : Plain(require, TRUE, p, TRUE) = "verified"

\* A registration that names the running model matches the picture it was made of.
LabelledMatches ==
    \A shown \in Image : doc # NoDoc =>
       (doc.model = model /\ doc.vectors = {shown} => Similar(doc, shown) = {TRUE})

\* The three endpoints agree about a photo: no failure of the liveness service
\* opens one that another keeps shut (face.py:603-622, liveness.py:53-83), and the
\* photo of a registration that names the running model verifies its employee at
\* each, whatever restart, script or second registration came between
\* (face.py:319-321).
EndpointsAgree == SecureIsStrictest /\ AcceptedVerifies /\ LabelledMatches
=============================================================================
