----------------------------- MODULE Enrollment -----------------------------
(***************************************************************************)
(* The registration of one employee: _store_templates() and                *)
(* _store_enrollment_images() of app/routers/face.py, delete_registration  *)
(* and scripts/reembed_registry.py.                                        *)
(*                                                                         *)
(* Registrations of different employees touch different documents and      *)
(* files, so one employee is enough; several requests may register her at  *)
(* once.  An action is the effect of one database call, with the code that *)
(* runs until the next one.                                                *)
(***************************************************************************)
EXTENDS Naturals, FiniteSets

CONSTANTS Req,         \* requests that register the employee
          Shots,       \* images of one registration
          StoreImages, \* settings.STORE_ENROLLMENT_IMAGES
          NoDoc,       \* no document in face_registry
          MaxDeletes,  \* bound: deletions of the registration
          MaxRuns,     \* bound: times the re-embedding script comes to her
          MaxFails     \* bound: database calls that raise

Image == [req : Req, index : 1 .. Shots]
ImagesOf(r) == {i \in Image : i.req = r}
Model == {"old", "new"}

\* The document: the images its embedding averages and the model pack that
\* computed it, model_name, image_ids, and the request that last registered it.
Doc == [vectors : SUBSET Image, pack : Model, model : Model,
        imageIds : SUBSET Image, by : Req]

ASSUME EnrollmentAssumption ==
    /\ Shots \in Nat \ {0} /\ StoreImages \in BOOLEAN /\ NoDoc \notin Doc
    /\ MaxDeletes \in Nat /\ MaxFails \in Nat /\ MaxRuns \in Nat

VARIABLES doc,      \* face_registry
          files,    \* GridFS bucket enrollment_images
          model,    \* settings.MODEL_NAME of the running service
          pc,       \* where each request is
          todo,     \* previous images each request has still to delete
          stored,   \* local `stored` of each request, then image_ids
          answer,   \* what each request returned
          script,   \* where the re-embedding script is
          pending,  \* images it has still to read
          rebuilt,  \* local `vectors` of the script
          deletes, fails, runs,
          solo,     \* history: no other registration or failure met this one
          dirty,    \* history: the files may not be those of the document
          calm,     \* history: nothing was registered since the script began
          tainted,  \* history: the embedding was rebuilt without calm
          switched  \* history: the script found her up to date, or made her so,
                    \* after the service had changed its model

storeVars == <<doc, files, model>>
reqVars == <<pc, todo, stored, answer>>
scriptVars == <<script, pending, rebuilt>>
boundVars == <<deletes, fails, runs>>
histVars == <<solo, dirty, calm, tainted, switched>>
vars == <<storeVars, reqVars, scriptVars, boundVars, histVars>>

Init == /\ doc = NoDoc /\ files = {} /\ model = "old"
        /\ pc = [r \in Req |-> "idle"]
        /\ todo = [r \in Req |-> {}] /\ stored = [r \in Req |-> {}]
        /\ answer = [r \in Req |-> "none"]
        /\ script = "idle" /\ pending = {} /\ rebuilt = {}
        /\ deletes = 0 /\ fails = 0 /\ runs = 0
        /\ solo = [r \in Req |-> FALSE]
        /\ dirty = FALSE /\ calm = FALSE /\ tainted = FALSE /\ switched = FALSE

\* Requests between their checks and the effect of their upsert.
Storing(r) == pc[r] \in {"listing", "clearing", "uploading", "upserting"}

Goto(r, place) == pc' = [pc EXCEPT ![r] = place]

\* Request r returns, or raises, and its locals are gone.
Reply(r, a) == /\ Goto(r, "done")
               /\ answer' = [answer EXCEPT ![r] = a]
               /\ todo' = [todo EXCEPT ![r] = {}]
               /\ stored' = [stored EXCEPT ![r] = {}]

\* One more database call that raises.
Fails == fails < MaxFails /\ fails' = fails + 1

\* A definition named Wrong... is a plausible bug in the definition after it; the
\* properties are tested against it and no action uses it.

-----------------------------------------------------------------------------
(* Registration. *)

\* Every image passed the checks and is embedded with the model of the service.  A
\* registration with an image that fails one stores nothing and is not a step.
Begin(r) ==
    /\ pc[r] = "idle"
    /\ Goto(r, IF StoreImages THEN "listing" ELSE "upserting")
    /\ solo' = [s \in Req |-> s = r /\ \A o \in Req : ~Storing(o)]
    /\ calm' = FALSE
    /\ UNCHANGED <<storeVars, todo, stored, answer, scriptVars,
                   boundVars, dirty, tainted, switched>>

WrongPrevious == {}

\* bucket.find(): one batch holds all the images of an employee.
Previous == files

List(r) ==
    /\ pc[r] = "listing"
    /\ todo' = [todo EXCEPT ![r] = Previous]
    /\ Goto(r, IF Previous = {} THEN "uploading" ELSE "clearing")
    /\ UNCHANGED <<storeVars, stored, answer, scriptVars, boundVars,
                   histVars>>

\* bucket.delete() of one previous image.
Clear(r) ==
    /\ pc[r] = "clearing"
    /\ \E i \in todo[r] \cap files :
          /\ files' = files \ {i}
          /\ todo' = [todo EXCEPT ![r] = @ \ {i}]
          /\ Goto(r, IF todo[r] = {i} THEN "uploading" ELSE "clearing")
    /\ UNCHANGED <<doc, model, stored, answer, scriptVars, boundVars,
                   histVars>>

WrongNextImage(r) == [req |-> r, index |-> Cardinality(stored[r])]

NextImage(r) == [req |-> r, index |-> Cardinality(stored[r]) + 1]

\* bucket.upload_from_stream() of the next image.
Upload(r) ==
    /\ pc[r] = "uploading"
    /\ files' = files \cup {NextImage(r)}
    /\ stored' = [stored EXCEPT ![r] = @ \cup {NextImage(r)}]
    /\ Goto(r, IF NextImage(r).index = Shots THEN "upserting" ELSE "uploading")
    /\ UNCHANGED <<doc, model, todo, answer, scriptVars, boundVars,
                   histVars>>

\* The except clause returns [] and the registration goes on without images.
AfterImages(r) == /\ Goto(r, "upserting")
                  /\ todo' = [todo EXCEPT ![r] = {}]
                  /\ stored' = [stored EXCEPT ![r] = {}]
                  /\ UNCHANGED answer

GiveUpImages(r) == AfterImages(r) /\ solo' = [solo EXCEPT ![r] = FALSE]

\* GridFS refuses to delete a file that another registration has deleted.
ClearTwice(r) ==
    /\ pc[r] = "clearing"
    /\ ~(todo[r] \subseteq files)
    /\ GiveUpImages(r)
    /\ UNCHANGED <<storeVars, scriptVars, boundVars, dirty, calm, tainted,
                   switched>>

\* A GridFS call raises; an upload may have taken effect.
ImagesFail(r) ==
    /\ pc[r] \in {"listing", "clearing", "uploading"}
    /\ Fails
    /\ GiveUpImages(r)
    /\ \/ UNCHANGED files
       \/ pc[r] = "uploading" /\ files' = files \cup {NextImage(r)}
    /\ UNCHANGED <<doc, model, scriptVars, deletes, runs, dirty, calm, tainted,
                   switched>>

\* The document after update_one(..., upsert=True) of request r.
Upserted(r) == [vectors |-> ImagesOf(r), pack |-> model, model |-> model,
                imageIds |-> stored[r], by |-> r]

Upsert(r) ==
    /\ pc[r] = "upserting"
    /\ doc' = Upserted(r)
    /\ Goto(r, "reading")
    /\ dirty' = ~solo[r]
    /\ tainted' = FALSE
    /\ stored' = [stored EXCEPT ![r] = {}]
    /\ UNCHANGED <<files, model, todo, answer, scriptVars, boundVars, solo, calm,
                   switched>>

\* update_one() raises, with or without effect.
UpsertFails(r) ==
    /\ pc[r] = "upserting"
    /\ Fails
    /\ Reply(r, "error")
    /\ \/ doc' = Upserted(r) /\ tainted' = FALSE
       \/ UNCHANGED <<doc, tainted>>
    /\ dirty' = TRUE
    /\ UNCHANGED <<files, model, scriptVars, deletes, runs, solo, calm, switched>>

\* find_one() returns the document, or None, which cannot be subscripted.
ReadBack(r) ==
    /\ pc[r] = "reading"
    /\ Reply(r, IF doc = NoDoc THEN "error" ELSE "registered")
    /\ UNCHANGED <<storeVars, scriptVars, boundVars, histVars>>

ReadBackFails(r) ==
    /\ pc[r] = "reading"
    /\ Fails
    /\ Reply(r, "error")
    /\ UNCHANGED <<storeVars, scriptVars, deletes, runs, histVars>>

\* delete_one(); the images stay in GridFS.
Delete ==
    /\ deletes < MaxDeletes
    /\ deletes' = deletes + 1
    /\ doc' = NoDoc
    /\ UNCHANGED <<files, model, reqVars, scriptVars, fails, runs, histVars>>

\* The service dies and comes back with another MODEL_NAME.
Restart ==
    /\ model = "old"
    /\ model' = "new"
    /\ pc' = [r \in Req |-> IF pc[r] = "idle" THEN "idle" ELSE "done"]
    /\ answer' = [r \in Req |-> IF pc[r] \in {"idle", "done"} THEN answer[r]
                                ELSE "lost"]
    /\ todo' = [r \in Req |-> {}] /\ stored' = [r \in Req |-> {}]
    /\ dirty' = (dirty \/ \E r \in Req : Storing(r))
    /\ UNCHANGED <<doc, files, scriptVars, boundVars, solo, calm, tainted, switched>>

-----------------------------------------------------------------------------
(* scripts/reembed_registry.py --apply, configured with the new model. *)

WrongUpToDate == doc.model \in Model

\* The document names the model the script is configured with.
UpToDate == doc.model = "new"

\* A run of the script finds the employee's document.
Found == /\ script = "idle"
         /\ doc # NoDoc
         /\ runs < MaxRuns
         /\ runs' = runs + 1

\* It is passed over, unless --user-id names the employee.
ScriptPass ==
    /\ Found
    /\ UpToDate
    /\ switched' = (model = "new")
    /\ UNCHANGED <<storeVars, reqVars, scriptVars, deletes, fails, solo, dirty,
                   calm, tainted>>

\* The document is read and the employee is to be rebuilt.
ScriptBegin ==
    /\ Found
    /\ \E userId \in BOOLEAN : userId \/ ~UpToDate
    /\ script' = "listing"
    /\ calm' = (~dirty /\ \A r \in Req : ~Storing(r))
    /\ UNCHANGED <<storeVars, reqVars, pending, rebuilt, deletes, fails, solo,
                   dirty, tainted, switched>>

ScriptList ==
    /\ script = "listing"
    /\ pending' = files
    /\ script' = "reading"
    /\ UNCHANGED <<storeVars, reqVars, rebuilt, boundVars, histVars>>

\* One image is read: it gives a vector unless it cannot be decoded or shows no
\* face to the new model.
ScriptRead ==
    /\ script = "reading"
    /\ \E i \in pending \cap files :
          /\ pending' = pending \ {i}
          /\ rebuilt' \in {rebuilt, rebuilt \cup {i}}
    /\ UNCHANGED <<storeVars, reqVars, script, boundVars, histVars>>

ScriptEnds == script' = "idle" /\ pending' = {} /\ rebuilt' = {} /\ calm' = FALSE

\* The file is gone, or a call raises: nothing catches it, except around the
\* update, where this employee is listed as failed.
ScriptDies ==
    /\ script \in {"listing", "reading"}
    /\ ~(pending \subseteq files) \/ fails < MaxFails
    /\ ScriptEnds
    /\ fails' = IF pending \subseteq files THEN fails + 1 ELSE fails
    /\ UNCHANGED <<storeVars, reqVars, deletes, runs, solo, dirty, tainted, switched>>

\* update_one() of the script, which is not an upsert.
Rebuilt == [doc EXCEPT !.vectors = rebuilt, !.pack = "new", !.model = "new"]

\* All images are read.  Without a vector the employee is listed as orphaned.
ScriptWrite ==
    /\ script = "reading"
    /\ pending = {}
    /\ ScriptEnds
    /\ IF doc = NoDoc \/ rebuilt = {}
         THEN UNCHANGED <<doc, tainted, switched>>
         ELSE doc' = Rebuilt /\ tainted' = ~calm /\ switched' = (model = "new")
    /\ UNCHANGED <<files, model, reqVars, boundVars, solo, dirty>>

-----------------------------------------------------------------------------
RequestStep(r) == \/ Begin(r) \/ List(r) \/ Clear(r) \/ ClearTwice(r) \/ Upload(r)
                  \/ ImagesFail(r) \/ Upsert(r) \/ UpsertFails(r)
                  \/ ReadBack(r) \/ ReadBackFails(r)

ScriptStep == ScriptPass \/ ScriptBegin \/ ScriptList \/ ScriptRead \/ ScriptDies
              \/ ScriptWrite

Next == \/ Delete \/ Restart \/ ScriptStep
        \/ \E r \in Req : RequestStep(r)

Spec == Init /\ [][Next]_vars

-----------------------------------------------------------------------------
(* Properties. *)

\* Every variable ranges over the values the code gives it.
TypeOK ==
    /\ doc \in Doc \cup {NoDoc} /\ files \subseteq Image /\ model \in Model
    /\ pc \in [Req -> {"idle", "listing", "clearing", "uploading", "upserting",
                       "reading", "done"}]
    /\ todo \in [Req -> SUBSET Image] /\ stored \in [Req -> SUBSET Image]
    /\ answer \in [Req -> {"none", "registered", "error", "lost"}]
    /\ script \in {"idle", "listing", "reading"} /\ runs \in 0 .. MaxRuns
    /\ pending \subseteq Image /\ rebuilt \subseteq Image
    /\ deletes \in 0 .. MaxDeletes /\ fails \in 0 .. MaxFails
    /\ solo \in [Req -> BOOLEAN] /\ dirty \in BOOLEAN /\ calm \in BOOLEAN
    /\ tainted \in BOOLEAN /\ switched \in BOOLEAN

\* "Only the current enrollment matters" (face.py:272): between registrations
\* GridFS holds exactly the images the document lists, unless the registration
\* that wrote it overlapped another, lost its images to an error or was cut off.
\* One undisturbed registration puts everything right again.
ImagesAreCurrent ==
    doc # NoDoc /\ ~dirty /\ (\A r \in Req : ~Storing(r)) => files = doc.imageIds

\* An embedding averages images of the latest registration only, also after the
\* script rebuilt it, unless a registration overlapped the script or had left
\* foreign images behind (reembed_registry.py:63-97).
VectorsAreOwn ==
    doc # NoDoc /\ ~tainted => doc.vectors \subseteq ImagesOf(doc.by)

\* Changing the model (README.md:158): once the service runs the new model and
\* the script has dealt with an employee, her embedding is of the service's
\* model, whatever the old process stored before it died, whenever the script
\* was started and however registrations and deletions fell between its reads.
OnePackAfterSwitch == switched /\ doc # NoDoc => doc.pack = model
=============================================================================
