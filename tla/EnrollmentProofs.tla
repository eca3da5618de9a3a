--------------------------- MODULE EnrollmentProofs ---------------------------
(***************************************************************************)
(* Proofs about Enrollment and Verification: for any number of requests    *)
(* that register one employee at once, of images, failures, deletions and  *)
(* runs of the re-embedding script.                                        *)
(***************************************************************************)
EXTENDS Verification, FiniteSetTheorems, TLAPS

-----------------------------------------------------------------------------
(* What is invariant. *)

\* The first n images of request r.
FirstImages(r, n) == {i \in ImagesOf(r) : i.index <= n}

\* A request uploads its images one after the other, and only while it stores.
Uploading ==
    \A r \in Req :
        /\ pc[r] \notin {"uploading", "upserting"} => stored[r] = {}
        /\ pc[r] = "uploading" =>
              /\ IsFiniteSet(stored[r]) /\ Cardinality(stored[r]) < Shots
              /\ stored[r] = FirstImages(r, Cardinality(stored[r]))
        /\ stored[r] \subseteq ImagesOf(r)
        /\ pc[r] # "clearing" => todo[r] = {}

\* A request that nobody has met has the bucket to itself: what it has still to
\* delete is all there is, then what it has stored is.
Alone ==
    /\ \A r \in Req : solo[r] =>
          /\ \A o \in Req : Storing(o) => o = r
          /\ pc[r] = "clearing" => todo[r] = files
          /\ pc[r] \in {"uploading", "upserting"} => stored[r] = files
    /\ ~StoreImages => /\ files = {}
                       /\ \A r \in Req : pc[r] \notin {"listing", "clearing", "uploading"}

\* The document names the pack that computed its embedding, and lists images of the
\* registration that wrote it.
Labelled ==
    doc # NoDoc => /\ doc.pack = doc.model
                   /\ doc.imageIds \subseteq ImagesOf(doc.by)

\* What the script rebuilds from, unless a registration meets it, is of the
\* registration it found.
Rebuilding ==
    /\ script # "reading" => pending = {} /\ rebuilt = {}
    /\ script = "idle" => calm = FALSE
    /\ calm => /\ \A r \in Req : ~Storing(r)
               /\ doc # NoDoc => files \cup pending \cup rebuilt \subseteq ImagesOf(doc.by)

SwitchedModel == switched => model = "new"

IInv == /\ TypeOK /\ Uploading /\ Alone /\ Labelled /\ Rebuilding /\ SwitchedModel
        /\ ImagesAreCurrent /\ VectorsAreOwn /\ OnePackAfterSwitch

-----------------------------------------------------------------------------
LEMMA InitIInv == Init => IInv
<1> SUFFICES ASSUME Init PROVE IInv
  OBVIOUS
<1> USE EnrollmentAssumption DEF Init
<1>1. TypeOK
  <2>1. /\ doc \in Doc \cup {NoDoc} /\ files \subseteq Image /\ model \in Model
        /\ script \in {"idle", "listing", "reading"} /\ runs \in 0 .. MaxRuns
        /\ pending \subseteq Image /\ rebuilt \subseteq Image
        /\ deletes \in 0 .. MaxDeletes /\ fails \in 0 .. MaxFails
    BY DEF Model
  <2>2. /\ todo \in [Req -> SUBSET Image] /\ stored \in [Req -> SUBSET Image]
        /\ solo \in [Req -> BOOLEAN]
    OBVIOUS
  <2> QED
    BY <2>1, <2>2 DEF TypeOK
<1>2. Uploading /\ Alone /\ Labelled /\ Rebuilding /\ SwitchedModel
  BY DEF Uploading, Alone, Labelled, Rebuilding, SwitchedModel, Storing
<1>3. ImagesAreCurrent /\ VectorsAreOwn /\ OnePackAfterSwitch
  BY DEF ImagesAreCurrent, VectorsAreOwn, OnePackAfterSwitch
<1> QED
  BY <1>1, <1>2, <1>3 DEF IInv

\* The next image of a request is one of its own, and was not stored before.
LEMMA NextImageIsOwn ==
  ASSUME TypeOK, Uploading, NEW r \in Req, pc[r] = "uploading"
  PROVE  /\ NextImage(r) \in ImagesOf(r) /\ NextImage(r) \notin stored[r]
         /\ IsFiniteSet(stored[r] \cup {NextImage(r)})
         /\ Cardinality(stored[r] \cup {NextImage(r)}) = NextImage(r).index
         /\ stored[r] \cup {NextImage(r)} = FirstImages(r, NextImage(r).index)
<1> USE EnrollmentAssumption
<1> DEFINE n == Cardinality(stored[r])
<1>1. n \in Nat /\ n < Shots /\ stored[r] = FirstImages(r, n) /\ IsFiniteSet(stored[r])
  BY FS_CardinalityType DEF Uploading
<1> HIDE DEF n
<1>2. NextImage(r) = [req |-> r, index |-> n + 1]
  BY DEF NextImage, n
<1>3. NextImage(r) \in ImagesOf(r) /\ NextImage(r).index = n + 1
  BY <1>1, <1>2 DEF ImagesOf, Image
<1>4. NextImage(r) \notin stored[r]
  BY <1>1, <1>3 DEF FirstImages
<1>5. \A i \in ImagesOf(r) : i.index = n + 1 => i = NextImage(r)
  BY <1>2 DEF ImagesOf, Image
<1>6. \A i \in ImagesOf(r) : i.index \in Nat
  BY DEF ImagesOf, Image
<1>7. stored[r] \cup {NextImage(r)} = FirstImages(r, n + 1)
  BY <1>1, <1>3, <1>5, <1>6 DEF FirstImages
<1>8. IsFiniteSet(stored[r] \cup {NextImage(r)})
      /\ Cardinality(stored[r] \cup {NextImage(r)}) = n + 1
  BY <1>1, <1>4, FS_AddElement DEF n
<1> QED
  BY <1>3, <1>4, <1>7, <1>8

LEMMA NextTypeOK == TypeOK /\ Uploading /\ [Next]_vars => TypeOK'
<1> SUFFICES ASSUME TypeOK, Uploading, [Next]_vars PROVE TypeOK'
  OBVIOUS
<1> USE EnrollmentAssumption
    DEF TypeOK, Model, Goto, Reply, Fails, GiveUpImages, AfterImages, storeVars, reqVars,
        scriptVars, boundVars, histVars
<1>1. ASSUME NEW r \in Req, Begin(r) PROVE TypeOK'
  BY <1>1 DEF Begin
<1>2. ASSUME NEW r \in Req, List(r) PROVE TypeOK'
  BY <1>2 DEF List, Previous
<1>3. ASSUME NEW r \in Req, Clear(r) PROVE TypeOK'
  BY <1>3 DEF Clear
<1>4. ASSUME NEW r \in Req, ClearTwice(r) PROVE TypeOK'
  BY <1>4 DEF ClearTwice
<1>5. ASSUME NEW r \in Req, Upload(r) PROVE TypeOK'
  <2>1. NextImage(r) \in Image
    BY <1>5, NextImageIsOwn DEF Upload, ImagesOf
  <2> QED
    BY <1>5, <2>1 DEF Upload
<1>6. ASSUME NEW r \in Req, ImagesFail(r) PROVE TypeOK'
  <2>1. files' \subseteq Image
    <3>1. CASE files' = files
      BY <3>1
    <3>2. CASE pc[r] = "uploading" /\ files' = files \cup {NextImage(r)}
      BY <3>2, NextImageIsOwn DEF ImagesOf
    <3> QED
      BY <1>6, <3>1, <3>2 DEF ImagesFail
  <2> QED
    BY <1>6, <2>1 DEF ImagesFail
<1>a. ASSUME NEW r \in Req PROVE Upserted(r) \in Doc
  BY DEF Upserted, Doc, ImagesOf
<1>7. ASSUME NEW r \in Req, Upsert(r) PROVE TypeOK'
  BY <1>7, <1>a DEF Upsert
<1>8. ASSUME NEW r \in Req, UpsertFails(r) PROVE TypeOK'
  <2>1. doc' \in Doc \cup {NoDoc} /\ tainted' \in BOOLEAN
    BY <1>8, <1>a DEF UpsertFails
  <2>2. /\ pc' = [pc EXCEPT ![r] = "done"] /\ answer' = [answer EXCEPT ![r] = "error"]
        /\ todo' = [todo EXCEPT ![r] = {}] /\ stored' = [stored EXCEPT ![r] = {}]
        /\ fails' \in 0 .. MaxFails /\ dirty' = TRUE
        /\ UNCHANGED <<files, model, scriptVars, deletes, runs, solo, calm, switched>>
    BY <1>8 DEF UpsertFails
  <2> QED
    BY <2>1, <2>2
<1>9. ASSUME NEW r \in Req, ReadBack(r) PROVE TypeOK'
  BY <1>9 DEF ReadBack
<1>10. ASSUME NEW r \in Req, ReadBackFails(r) PROVE TypeOK'
  BY <1>10 DEF ReadBackFails
<1>11. CASE Delete
  BY <1>11 DEF Delete
<1>12. CASE Restart
  BY <1>12 DEF Restart
<1>13. CASE ScriptPass
  BY <1>13 DEF ScriptPass, Found
<1>14. CASE ScriptBegin
  BY <1>14 DEF ScriptBegin, Found
<1>15. CASE ScriptList
  BY <1>15 DEF ScriptList
<1>16. CASE ScriptRead
  BY <1>16 DEF ScriptRead
<1>17. CASE ScriptDies
  <2>1. fails' \in 0 .. MaxFails
    BY <1>17 DEF ScriptDies
  <2> QED
    BY <1>17, <2>1 DEF ScriptDies, ScriptEnds
<1>18. CASE ScriptWrite
  <2>1. doc # NoDoc => Rebuilt \in Doc
    BY DEF Rebuilt, Doc
  <2> QED
    BY <1>18, <2>1 DEF ScriptWrite, ScriptEnds
<1>19. CASE UNCHANGED vars
  BY <1>19 DEF vars
<1> QED
  BY <1>1, <1>2, <1>3, <1>4, <1>5, <1>6, <1>7, <1>8, <1>9, <1>10, <1>11, <1>12, <1>13,
     <1>14, <1>15, <1>16, <1>17, <1>18, <1>19
  DEF Next, RequestStep, ScriptStep

LEMMA NoImages == \A r \in Req : FirstImages(r, 0) = {} /\ Cardinality({}) = 0 /\ IsFiniteSet({})
  BY FS_EmptySet DEF FirstImages, ImagesOf, Image

LEMMA NextUploading == TypeOK /\ Uploading /\ [Next]_vars => Uploading'
<1> SUFFICES ASSUME TypeOK, Uploading, [Next]_vars PROVE Uploading'
  OBVIOUS
<1> USE EnrollmentAssumption
    DEF TypeOK, Goto, Reply, GiveUpImages, AfterImages, reqVars
\* One request moves on, its locals with it.
<1>a. ASSUME NEW r \in Req, NEW place \in {"listing", "clearing", "uploading", "upserting",
                                          "reading", "done"},
             pc' = [pc EXCEPT ![r] = place],
             \A s \in Req \ {r} : stored'[s] = stored[s] /\ todo'[s] = todo[s],
             stored'[r] \subseteq ImagesOf(r),
             place \notin {"uploading", "upserting"} => stored'[r] = {},
             place = "uploading" =>
                /\ IsFiniteSet(stored'[r]) /\ Cardinality(stored'[r]) < Shots
                /\ stored'[r] = FirstImages(r, Cardinality(stored'[r])),
             place # "clearing" => todo'[r] = {}
      PROVE  Uploading'
  <2>1. \A s \in Req : \A n : FirstImages(s, n)' = FirstImages(s, n) /\ ImagesOf(s)' = ImagesOf(s)
    BY DEF FirstImages, ImagesOf
  <2>2. ASSUME NEW s \in Req \ {r}
        PROVE  pc'[s] = pc[s] /\ stored'[s] = stored[s] /\ todo'[s] = todo[s]
    BY <1>a
  <2>3. pc'[r] = place
    BY <1>a
  <2> QED
    BY <1>a, <2>1, <2>2, <2>3 DEF Uploading
<1>b. ASSUME NEW r \in Req, NEW place \in {"listing", "uploading", "upserting", "reading", "done"},
             pc' = [pc EXCEPT ![r] = place],
             \A s \in Req \ {r} : stored'[s] = stored[s] /\ todo'[s] = todo[s],
             stored'[r] = {}, todo'[r] = {}
      PROVE  Uploading'
  <2>1. Cardinality(stored'[r]) < Shots
    BY <1>b, NoImages
  <2> QED
    BY <1>a, <1>b, <2>1, NoImages
<1>1. ASSUME NEW r \in Req, Begin(r) PROVE Uploading'
  <2>1. stored[r] = {} /\ todo[r] = {} /\ UNCHANGED <<stored, todo>>
    BY <1>1 DEF Begin, Uploading
  <2>2. CASE StoreImages
    BY <1>1, <1>b, <2>1, <2>2 DEF Begin
  <2>3. CASE ~StoreImages
    BY <1>1, <1>b, <2>1, <2>3 DEF Begin
  <2> QED
    BY <2>2, <2>3
<1>2. ASSUME NEW r \in Req, List(r) PROVE Uploading'
  <2>1. stored[r] = {} /\ stored' = stored /\ todo' = [todo EXCEPT ![r] = files]
    BY <1>2 DEF List, Uploading, Previous
  <2>2. CASE files = {}
    BY <1>2, <1>b, <2>1, <2>2 DEF List, Previous
  <2>3. CASE files # {}
    <3>1. pc' = [pc EXCEPT ![r] = "clearing"]
      BY <1>2, <2>3 DEF List, Previous
    <3> QED
      BY <1>a, <2>1, <3>1
  <2> QED
    BY <2>2, <2>3
<1>3. ASSUME NEW r \in Req, Clear(r) PROVE Uploading'
  <2>1. PICK i \in todo[r] \cap files :
           /\ todo' = [todo EXCEPT ![r] = @ \ {i}]
           /\ pc' = [pc EXCEPT ![r] = IF todo[r] = {i} THEN "uploading" ELSE "clearing"]
    BY <1>3 DEF Clear
  <2>2. stored[r] = {} /\ stored' = stored
    BY <1>3 DEF Clear, Uploading
  <2>3. CASE todo[r] = {i}
    BY <1>b, <2>1, <2>2, <2>3
  <2>4. CASE todo[r] # {i}
    BY <1>a, <2>1, <2>2, <2>4
  <2> QED
    BY <2>3, <2>4
<1>4. ASSUME NEW r \in Req, Upload(r) PROVE Uploading'
  <2> DEFINE S == stored[r] \cup {NextImage(r)}
  <2>1. /\ S \subseteq ImagesOf(r) /\ IsFiniteSet(S) /\ Cardinality(S) = NextImage(r).index
        /\ S = FirstImages(r, Cardinality(S)) /\ NextImage(r).index \in 1 .. Shots
    <3>1. /\ NextImage(r) \in ImagesOf(r) /\ IsFiniteSet(S)
          /\ Cardinality(S) = NextImage(r).index /\ S = FirstImages(r, NextImage(r).index)
      BY <1>4, NextImageIsOwn DEF Upload
    <3>2. NextImage(r).index \in 1 .. Shots
      BY <3>1 DEF ImagesOf, Image
    <3> QED
      BY <3>1, <3>2 DEF Uploading
  <2>2. stored' = [stored EXCEPT ![r] = S] /\ todo' = todo /\ todo[r] = {}
    BY <1>4 DEF Upload, Uploading
  <2> HIDE DEF S
  <2>3. CASE NextImage(r).index = Shots
    <3>1. pc' = [pc EXCEPT ![r] = "upserting"]
      BY <1>4, <2>3 DEF Upload
    <3> QED
      BY <1>a, <2>1, <2>2, <3>1
  <2>4. CASE NextImage(r).index # Shots
    <3>1. pc' = [pc EXCEPT ![r] = "uploading"]
      BY <1>4, <2>4 DEF Upload
    <3>2. Cardinality(S) < Shots
      BY <2>1, <2>4
    <3> QED
      BY <1>a, <2>1, <2>2, <3>1, <3>2
  <2> QED
    BY <2>3, <2>4
<1>5. ASSUME NEW r \in Req, ClearTwice(r) \/ ImagesFail(r) PROVE Uploading'
  BY <1>5, <1>b DEF ClearTwice, ImagesFail
<1>6. ASSUME NEW r \in Req, Upsert(r) PROVE Uploading'
  BY <1>6, <1>b DEF Upsert, Uploading
<1>7. ASSUME NEW r \in Req, UpsertFails(r) \/ ReadBack(r) \/ ReadBackFails(r) PROVE Uploading'
  BY <1>7, <1>b DEF UpsertFails, ReadBack, ReadBackFails
<1>8. CASE Restart
  BY <1>8 DEF Restart, Uploading
<1>9. ASSUME UNCHANGED <<pc, todo, stored>> PROVE Uploading'
  BY <1>9 DEF Uploading, FirstImages, ImagesOf
<1> QED
  BY <1>1, <1>2, <1>3, <1>4, <1>5, <1>6, <1>7, <1>8, <1>9
  DEF Next, RequestStep, Delete, ScriptStep, ScriptPass, ScriptBegin, ScriptList,
      ScriptRead, ScriptDies, ScriptWrite, vars

LEMMA NextAlone == TypeOK /\ Uploading /\ Alone /\ [Next]_vars => Alone'
<1> SUFFICES ASSUME TypeOK, Uploading, Alone, [Next]_vars PROVE Alone'
  OBVIOUS
<1> USE EnrollmentAssumption
    DEF TypeOK, Goto, Reply, GiveUpImages, AfterImages, Storing, storeVars, reqVars, histVars
<1>1. ASSUME NEW r \in Req, Begin(r) PROVE Alone'
  <2>1. /\ solo' = [s \in Req |-> s = r /\ \A o \in Req : ~Storing(o)]
        /\ UNCHANGED <<files, todo, stored>>
        /\ pc' = [pc EXCEPT ![r] = IF StoreImages THEN "listing" ELSE "upserting"]
        /\ pc[r] = "idle" /\ stored[r] = {}
    BY <1>1 DEF Begin, Uploading
  <2>2. ASSUME NEW s \in Req, solo'[s]
        PROVE  s = r /\ \A o \in Req : ~Storing(o)
    BY <2>1, <2>2
  <2>3. ASSUME NEW s \in Req, solo'[s], NEW o \in Req, Storing(o)' PROVE o = s
    BY <2>1, <2>2, <2>3
  <2>4. ASSUME NEW s \in Req, solo'[s] PROVE pc'[s] \in {"listing", "upserting"}
    BY <2>1, <2>2, <2>4
  <2>5. ASSUME NEW s \in Req, solo'[s], pc'[s] \in {"uploading", "upserting"}
        PROVE  stored'[s] = files'
    <3>1. s = r
      BY <2>2, <2>5
    <3>2. ~StoreImages
      BY <2>1, <2>5, <3>1
    <3> QED
      BY <2>1, <3>1, <3>2 DEF Alone
  <2> QED
    BY <2>1, <2>3, <2>4, <2>5 DEF Alone
<1>2. ASSUME NEW r \in Req, List(r) PROVE Alone'
  <2>1. /\ pc[r] = "listing" /\ UNCHANGED <<files, stored, solo>> /\ stored[r] = {}
        /\ todo' = [todo EXCEPT ![r] = files]
        /\ pc' = [pc EXCEPT ![r] = IF files = {} THEN "uploading" ELSE "clearing"]
    BY <1>2 DEF List, Previous, Uploading
  <2> QED
    BY <2>1 DEF Alone
<1>3. ASSUME NEW r \in Req, Clear(r) PROVE Alone'
  <2>1. PICK i \in todo[r] \cap files :
           /\ files' = files \ {i} /\ todo' = [todo EXCEPT ![r] = @ \ {i}]
           /\ pc' = [pc EXCEPT ![r] = IF todo[r] = {i} THEN "uploading" ELSE "clearing"]
    BY <1>3 DEF Clear
  <2>2. pc[r] = "clearing" /\ UNCHANGED <<stored, solo>> /\ stored[r] = {}
    BY <1>3 DEF Clear, Uploading
  <2> QED
    BY <2>1, <2>2 DEF Alone
<1>4. ASSUME NEW r \in Req, Upload(r) PROVE Alone'
  <2>1. /\ pc[r] = "uploading" /\ UNCHANGED <<todo, solo>>
        /\ files' = files \cup {NextImage(r)}
        /\ stored' = [stored EXCEPT ![r] = @ \cup {NextImage(r)}]
        /\ \E place \in {"uploading", "upserting"} : pc' = [pc EXCEPT ![r] = place]
    BY <1>4 DEF Upload
  <2>2. ~solo[r] => \A s \in Req : ~solo[s]
    BY <2>1 DEF Alone
  <2>3. StoreImages
    BY <2>1 DEF Alone
  <2> QED
    BY <2>1, <2>2, <2>3 DEF Alone
<1>5. ASSUME NEW r \in Req, ClearTwice(r) \/ ImagesFail(r) PROVE Alone'
  <2>1. /\ pc[r] \in {"listing", "clearing", "uploading"} /\ solo' = [solo EXCEPT ![r] = FALSE]
        /\ pc' = [pc EXCEPT ![r] = "upserting"]
        /\ todo' = [todo EXCEPT ![r] = {}] /\ stored' = [stored EXCEPT ![r] = {}]
    BY <1>5 DEF ClearTwice, ImagesFail
  <2>2. \A s \in Req : ~solo'[s]
    BY <2>1 DEF Alone
  <2>3. StoreImages
    BY <2>1 DEF Alone
  <2> QED
    BY <2>2, <2>3 DEF Alone
<1>6. ASSUME NEW r \in Req, Upsert(r) PROVE Alone'
  BY <1>6 DEF Upsert, Alone
<1>7. ASSUME NEW r \in Req, UpsertFails(r) \/ ReadBack(r) \/ ReadBackFails(r) PROVE Alone'
  BY <1>7 DEF UpsertFails, ReadBack, ReadBackFails, Alone
<1>8. CASE Restart
  <2>1. \A s \in Req : pc'[s] \in {"idle", "done"}
    BY <1>8 DEF Restart
  <2> QED
    BY <1>8, <2>1 DEF Restart, Alone
<1>9. ASSUME UNCHANGED <<pc, todo, stored, files, solo>> PROVE Alone'
  BY <1>9 DEF Alone
<1> QED
  BY <1>1, <1>2, <1>3, <1>4, <1>5, <1>6, <1>7, <1>8, <1>9
  DEF Next, RequestStep, Delete, ScriptStep, ScriptPass, ScriptBegin, ScriptList,
      ScriptRead, ScriptDies, ScriptWrite, vars

\* Only four steps write the document, or what is known of its embedding.
LEMMA DocWrites ==
  ASSUME [Next]_vars
  PROVE  \/ UNCHANGED <<doc, tainted>>
         \/ \E r \in Req : doc' = Upserted(r)
         \/ doc' = NoDoc
         \/ doc # NoDoc /\ doc' = Rebuilt /\ tainted' = ~calm
<1> DEFINE Writes == \/ UNCHANGED <<doc, tainted>>
                     \/ \E r \in Req : doc' = Upserted(r)
                     \/ doc' = NoDoc
                     \/ doc # NoDoc /\ doc' = Rebuilt /\ tainted' = ~calm
<1>1. ASSUME NEW r \in Req, RequestStep(r) PROVE Writes
  BY <1>1
  DEF RequestStep, Begin, List, Clear, ClearTwice, Upload, ImagesFail, Upsert, UpsertFails,
      ReadBack, ReadBackFails, storeVars, histVars
<1>2. CASE ScriptStep
  BY <1>2
  DEF ScriptStep, ScriptPass, ScriptBegin, ScriptList, ScriptRead, ScriptDies, ScriptWrite,
      storeVars, histVars
<1>3. CASE Delete \/ Restart
  BY <1>3 DEF Delete, Restart
<1>4. CASE UNCHANGED vars
  BY <1>4 DEF vars, storeVars, histVars
<1> QED
  BY <1>1, <1>2, <1>3, <1>4 DEF Next

LEMMA NextLabelled == TypeOK /\ Uploading /\ Labelled /\ [Next]_vars => Labelled'
<1> SUFFICES ASSUME TypeOK, Uploading, Labelled, [Next]_vars PROVE Labelled'
  OBVIOUS
<1>a. \A r : ImagesOf(r)' = ImagesOf(r)
  BY DEF ImagesOf
<1>1. CASE doc' = doc
  BY <1>1, <1>a DEF Labelled
<1>2. ASSUME NEW r \in Req, doc' = Upserted(r) PROVE Labelled'
  BY <1>2, <1>a DEF Labelled, Upserted, Uploading
<1>3. CASE doc' = NoDoc
  BY <1>3 DEF Labelled
<1>4. CASE doc # NoDoc /\ doc' = Rebuilt
  <2>1. doc \in Doc
    BY <1>4 DEF TypeOK
  <2>2. /\ Rebuilt.pack = "new" /\ Rebuilt.model = "new" /\ Rebuilt.imageIds = doc.imageIds
        /\ Rebuilt.by = doc.by
    BY <2>1 DEF Rebuilt, Doc
  <2> QED
    BY <1>4, <1>a, <2>2 DEF Labelled
<1> QED
  BY <1>1, <1>2, <1>3, <1>4, DocWrites

LEMMA NextSwitched ==
  TypeOK /\ Labelled /\ SwitchedModel /\ OnePackAfterSwitch /\ [Next]_vars
    => SwitchedModel' /\ OnePackAfterSwitch'
<1> SUFFICES ASSUME TypeOK, Labelled, SwitchedModel, OnePackAfterSwitch, [Next]_vars
             PROVE  SwitchedModel' /\ OnePackAfterSwitch'
  OBVIOUS
<1> USE DEF SwitchedModel, OnePackAfterSwitch, TypeOK
<1>1. CASE Restart
  BY <1>1 DEF Restart
<1>2. CASE ScriptPass
  <2>1. doc.pack = "new" /\ doc' = doc /\ model' = model /\ switched' = (model = "new")
    BY <1>2 DEF ScriptPass, Found, UpToDate, Labelled, storeVars
  <2> QED
    BY <2>1
<1>3. CASE ScriptWrite
  <2>1. CASE UNCHANGED <<doc, switched>>
    BY <1>3, <2>1 DEF ScriptWrite
  <2>2. CASE doc # NoDoc /\ doc' = Rebuilt /\ switched' = (model = "new")
    <3>1. Rebuilt.pack = "new"
      BY <2>2 DEF Rebuilt, Doc
    <3> QED
      BY <1>3, <2>2, <3>1 DEF ScriptWrite
  <2> QED
    BY <1>3, <2>1, <2>2 DEF ScriptWrite
<1>4. ASSUME NEW r \in Req, Upsert(r) \/ UpsertFails(r) PROVE SwitchedModel' /\ OnePackAfterSwitch'
  <2>1. UNCHANGED <<model, switched>> /\ (doc' = doc \/ doc' = Upserted(r))
    BY <1>4 DEF Upsert, UpsertFails
  <2>2. Upserted(r).pack = model
    BY DEF Upserted
  <2> QED
    BY <2>1, <2>2
<1>5. CASE Delete
  BY <1>5 DEF Delete, histVars
<1>6. ASSUME UNCHANGED <<doc, model, switched>> PROVE SwitchedModel' /\ OnePackAfterSwitch'
  BY <1>6
<1> QED
  BY <1>1, <1>2, <1>3, <1>4, <1>5, <1>6
  DEF Next, RequestStep, Begin, List, Clear, ClearTwice, Upload, ImagesFail, ReadBack,
      ReadBackFails, ScriptStep, ScriptBegin, ScriptList, ScriptRead, ScriptDies, vars,
      storeVars, histVars, GiveUpImages

\* When the last registration ends, the files are those of its document, or it is
\* known that they may not be.
LEMMA NextCurrent ==
  TypeOK /\ Uploading /\ Alone /\ ImagesAreCurrent /\ [Next]_vars => ImagesAreCurrent'
<1> SUFFICES ASSUME TypeOK, Uploading, Alone, ImagesAreCurrent, [Next]_vars,
                    doc' # NoDoc, ~dirty', \A r \in Req : ~Storing(r)'
             PROVE  files' = doc'.imageIds
  BY DEF ImagesAreCurrent
<1> USE DEF TypeOK, Storing, Goto, Reply
<1>1. ASSUME NEW r \in Req, Begin(r) PROVE FALSE
  BY <1>1 DEF Begin
<1>2. ASSUME NEW r \in Req, List(r) \/ Clear(r) \/ Upload(r) PROVE FALSE
  BY <1>2 DEF List, Clear, Upload
<1>3. ASSUME NEW r \in Req, ClearTwice(r) \/ ImagesFail(r) PROVE FALSE
  BY <1>3 DEF ClearTwice, ImagesFail, GiveUpImages, AfterImages
<1>4. ASSUME NEW r \in Req, Upsert(r) PROVE files' = doc'.imageIds
  <2>1. solo[r] /\ stored[r] = files
    BY <1>4 DEF Upsert, Alone
  <2> QED
    BY <1>4, <2>1 DEF Upsert, Upserted
<1>5. ASSUME NEW r \in Req, UpsertFails(r) PROVE FALSE
  BY <1>5 DEF UpsertFails
<1>6. ASSUME NEW r \in Req, ReadBack(r) \/ ReadBackFails(r) PROVE files' = doc'.imageIds
  <2>1. UNCHANGED <<doc, files, dirty>> /\ \A s \in Req : ~Storing(s)
    BY <1>6 DEF ReadBack, ReadBackFails, storeVars, histVars
  <2> QED
    BY <2>1 DEF ImagesAreCurrent
<1>7. CASE Delete
  BY <1>7 DEF Delete
<1>8. CASE Restart
  <2>1. UNCHANGED <<doc, files>> /\ ~dirty /\ \A s \in Req : ~Storing(s)
    BY <1>8 DEF Restart
  <2> QED
    BY <2>1 DEF ImagesAreCurrent
<1>9. CASE ScriptWrite
  <2>1. UNCHANGED <<files, dirty, pc>> /\ doc # NoDoc /\ doc'.imageIds = doc.imageIds
    BY <1>9 DEF ScriptWrite, Rebuilt, Doc, reqVars
  <2> QED
    BY <2>1 DEF ImagesAreCurrent
<1>10. ASSUME UNCHANGED <<doc, files, dirty, pc>> PROVE files' = doc'.imageIds
  BY <1>10 DEF ImagesAreCurrent
<1> QED
  BY <1>1, <1>2, <1>3, <1>4, <1>5, <1>6, <1>7, <1>8, <1>9, <1>10
  DEF Next, RequestStep, ScriptStep, ScriptPass, ScriptBegin, ScriptList, ScriptRead,
      ScriptDies, vars, storeVars, reqVars, histVars

LEMMA NextRebuilding ==
  TypeOK /\ Labelled /\ ImagesAreCurrent /\ Rebuilding /\ [Next]_vars => Rebuilding'
<1> SUFFICES ASSUME TypeOK, Labelled, ImagesAreCurrent, Rebuilding, [Next]_vars
             PROVE  Rebuilding'
  OBVIOUS
<1> USE DEF TypeOK, Storing, Goto, Reply, storeVars, reqVars, scriptVars, boundVars, histVars
<1>a. \A r : ImagesOf(r)' = ImagesOf(r)
  BY DEF ImagesOf
\* A step that moves neither the script nor the document brings no registration
\* while the script is calm.
<1>b. ASSUME UNCHANGED scriptVars, UNCHANGED calm,
             calm => /\ files' = files /\ (doc' = doc \/ doc' = NoDoc)
                     /\ \A r \in Req : ~Storing(r)'
      PROVE  Rebuilding'
  BY <1>a, <1>b DEF Rebuilding
<1>1. ASSUME NEW r \in Req, Begin(r) PROVE Rebuilding'
  BY <1>1 DEF Begin, Rebuilding
<1>2. ASSUME NEW r \in Req, List(r) \/ Clear(r) \/ Upload(r) \/ ClearTwice(r) \/ ImagesFail(r)
                              \/ Upsert(r) \/ UpsertFails(r)
      PROVE  Rebuilding'
  <2>1. ~calm
    BY <1>2
    DEF Rebuilding, List, Clear, Upload, ClearTwice, ImagesFail, Upsert, UpsertFails
  <2>2. UNCHANGED scriptVars /\ UNCHANGED calm
    BY <1>2
    DEF List, Clear, Upload, ClearTwice, ImagesFail, Upsert, UpsertFails
  <2> QED
    BY <1>b, <2>1, <2>2
<1>3. ASSUME NEW r \in Req, ReadBack(r) \/ ReadBackFails(r) PROVE Rebuilding'
  BY <1>3, <1>b DEF ReadBack, ReadBackFails, Rebuilding
<1>4. CASE Delete
  BY <1>4, <1>b DEF Delete, Rebuilding
<1>5. CASE Restart
  BY <1>5, <1>b DEF Restart, Rebuilding
<1>6. CASE ScriptPass
  BY <1>6, <1>b DEF ScriptPass, Rebuilding
<1>7. CASE ScriptBegin
  <2>1. /\ doc # NoDoc /\ UNCHANGED <<doc, files, pc, pending, rebuilt>>
        /\ script' = "listing" /\ pending = {} /\ rebuilt = {}
        /\ calm' = (~dirty /\ \A r \in Req : ~Storing(r))
    BY <1>7 DEF ScriptBegin, Found, Rebuilding
  <2>2. calm' => files \subseteq ImagesOf(doc.by)
    BY <2>1 DEF ImagesAreCurrent, Labelled
  <2> QED
    BY <1>a, <2>1, <2>2 DEF Rebuilding
<1>8. CASE ScriptList
  BY <1>8, <1>a DEF ScriptList, Rebuilding
<1>9. CASE ScriptRead
  <2>1. PICK i \in pending \cap files : /\ pending' = pending \ {i}
                                        /\ rebuilt' \in {rebuilt, rebuilt \cup {i}}
    BY <1>9 DEF ScriptRead
  <2>2. script = "reading" /\ UNCHANGED <<doc, files, pc, script, calm>>
    BY <1>9 DEF ScriptRead
  <2> QED
    BY <1>a, <2>1, <2>2 DEF Rebuilding
<1>10. CASE ScriptDies \/ ScriptWrite
  BY <1>10 DEF ScriptDies, ScriptWrite, ScriptEnds, Rebuilding
<1>11. CASE UNCHANGED vars
  BY <1>11, <1>b DEF vars, Rebuilding
<1> QED
  BY <1>1, <1>2, <1>3, <1>4, <1>5, <1>6, <1>7, <1>8, <1>9, <1>10, <1>11
  DEF Next, RequestStep, ScriptStep

LEMMA NextOwn ==
  TypeOK /\ Rebuilding /\ VectorsAreOwn /\ [Next]_vars => VectorsAreOwn'
<1> SUFFICES ASSUME TypeOK, Rebuilding, VectorsAreOwn, [Next]_vars PROVE VectorsAreOwn'
  OBVIOUS
<1>a. \A r : ImagesOf(r)' = ImagesOf(r)
  BY DEF ImagesOf
<1>1. CASE UNCHANGED <<doc, tainted>>
  BY <1>1, <1>a DEF VectorsAreOwn
<1>2. ASSUME NEW r \in Req, doc' = Upserted(r) PROVE VectorsAreOwn'
  BY <1>2, <1>a DEF VectorsAreOwn, Upserted
<1>3. CASE doc' = NoDoc
  BY <1>3 DEF VectorsAreOwn
<1>4. CASE doc # NoDoc /\ doc' = Rebuilt /\ tainted' = ~calm
  <2>1. doc'.vectors = rebuilt /\ doc'.by = doc.by
    BY <1>4 DEF Rebuilt, TypeOK, Doc
  <2> QED
    BY <1>a, <1>4, <2>1 DEF VectorsAreOwn, Rebuilding, TypeOK
<1> QED
  BY <1>1, <1>2, <1>3, <1>4, DocWrites

THEOREM AlwaysIInv == Spec => []IInv
<1>1. IInv /\ [Next]_vars => IInv'
  BY NextTypeOK, NextUploading, NextAlone, NextLabelled, NextSwitched, NextCurrent,
     NextRebuilding, NextOwn
  DEF IInv
<1> QED
  BY InitIInv, <1>1, PTL DEF Spec

\* Every variable keeps its type.
THEOREM TypeCorrect == Spec => []TypeOK
<1>1. IInv => TypeOK
  BY DEF IInv
<1> QED
  BY <1>1, AlwaysIInv, PTL

\* Between registrations the bucket holds exactly the images of the document, unless
\* the registration that wrote it met another one, an error or a restart.
THEOREM FilesAreCurrent == Spec => []ImagesAreCurrent
<1>1. IInv => ImagesAreCurrent
  BY DEF IInv
<1> QED
  BY <1>1, AlwaysIInv, PTL

\* An embedding averages images of the latest registration only, also after the
\* script rebuilt it, if no registration disturbed the rebuilding.
THEOREM EmbeddingsAreOwn == Spec => []VectorsAreOwn
<1>1. IInv => VectorsAreOwn
  BY DEF IInv
<1> QED
  BY <1>1, AlwaysIInv, PTL

\* Once the service runs the new model and the script has dealt with the employee,
\* her embedding is of that model for good.
THEOREM ModelsAgree == Spec => []OnePackAfterSwitch
<1>1. IInv => OnePackAfterSwitch
  BY DEF IInv
<1> QED
  BY <1>1, AlwaysIInv, PTL

-----------------------------------------------------------------------------
(* The endpoints. *)

LEMMA FirstFlaw ==
  ASSUME NEW p \in Photo, p.flaws # {}
  PROVE  ReasonCode(p) \notin {"accepted", "live"}
<1>1. Len(Checks) = 7
  BY DEF Checks
<1>2. p.flaws \subseteq 1 .. 7
  BY <1>1 DEF Photo
<1>3. \E i \in p.flaws : \A j \in p.flaws : i <= j
  <2>1. CASE 1 \in p.flaws
    BY <1>2, <2>1
  <2>2. CASE 1 \notin p.flaws /\ 2 \in p.flaws
    BY <1>2, <2>2
  <2>3. CASE p.flaws \subseteq 3 .. 7 /\ 3 \in p.flaws
    BY <2>3
  <2>4. CASE p.flaws \subseteq 4 .. 7 /\ 4 \in p.flaws
    BY <2>4
  <2>5. CASE p.flaws \subseteq 5 .. 7 /\ 5 \in p.flaws
    BY <2>5
  <2>6. CASE p.flaws \subseteq 6 .. 7
    BY <2>6
  <2> QED
    BY <1>2, <2>1, <2>2, <2>3, <2>4, <2>5, <2>6
<1>4. \E i \in 1 .. 7 : ReasonCode(p) = Checks[i]
  BY <1>2, <1>3 DEF ReasonCode
<1> QED
  BY <1>4 DEF Checks

\* Exactly one face is a photo that can be read and shows one.
LEMMA OneFace ==
  ASSUME NEW p \in Photo
  PROVE  /\ Faces(p) \in {"invalid_image", "no_face", "multiple_faces", "one"}
         /\ Faces(p) = "one" => p.readable /\ p.faces # 0
<1>1. CASE ~p.readable
  BY <1>1 DEF Faces
<1>2. CASE p.readable /\ p.faces = 0
  BY <1>2 DEF Faces
<1>3. CASE p.readable /\ p.faces # 0 /\ p.faces > 1
  BY <1>3 DEF Faces
<1>4. CASE p.readable /\ p.faces # 0 /\ ~(p.faces > 1)
  BY <1>4 DEF Faces
<1> QED
  BY <1>1, <1>2, <1>3, <1>4

LEMMA Strictest == SecureIsStrictest
<1> SUFFICES ASSUME NEW p \in Photo, NEW ready \in BOOLEAN, NEW similar \in BOOLEAN,
                    NEW require \in BOOLEAN, Secure(ready, p, similar) = "verified"
             PROVE  Plain(require, ready, p, similar) = "verified" /\ Passive(ready, p) = "live"
  BY DEF SecureIsStrictest
<1>1. Faces(p) = "one" /\ p.readable /\ p.faces # 0
  <2>1. Faces(p) # "one" => Secure(ready, p, similar) = Faces(p)
    BY DEF Secure
  <2>2. Faces(p) \in {"invalid_image", "no_face", "multiple_faces", "one"}
    BY OneFace
  <2>3. Faces(p) = "one"
    BY <2>1, <2>2
  <2> QED
    BY <2>3, OneFace
<1>2. Passive(ready, p) = "live" /\ similar
  BY <1>1 DEF Secure, Passive
<1> QED
  BY <1>1, <1>2 DEF Plain

LEMMA Accepted == AcceptedVerifies
<1> SUFFICES ASSUME NEW p \in Photo, Enrol(TRUE, p) = "accepted"
             PROVE  /\ Secure(TRUE, p, TRUE) = "verified"
                    /\ \A require \in BOOLEAN : Plain(require, TRUE, p, TRUE) = "verified"
  BY DEF AcceptedVerifies
<1>1. Faces(p) = "one" /\ p.readable /\ p.faces # 0
  <2>1. Faces(p) # "one" => Enrol(TRUE, p) = Faces(p)
    BY DEF Enrol
  <2>2. Faces(p) \in {"invalid_image", "no_face", "multiple_faces", "one"}
    BY OneFace
  <2>3. Faces(p) = "one"
    BY <2>1, <2>2
  <2> QED
    BY <2>3, OneFace
<1>2. Passive(TRUE, p) = "live"
  BY <1>1, FirstFlaw DEF Enrol, Passive
<1> QED
  BY <1>1, <1>2 DEF Secure, Plain

\* The endpoints agree about a photo in every state: nothing the liveness service
\* does opens one that another keeps shut, and a registration of the running model
\* matches the picture it was made of.
THEOREM EndpointsAlwaysAgree == Spec => []EndpointsAgree
<1>1. IInv => EndpointsAgree
  <2>1. IInv => LabelledMatches
    BY DEF IInv, Labelled, LabelledMatches, Similar
  <2> QED
    BY <2>1, Strictest, Accepted DEF EndpointsAgree
<1> QED
  BY <1>1, AlwaysIInv, PTL
=============================================================================
