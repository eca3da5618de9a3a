------------------------------ MODULE FaceIndex ------------------------------
(***************************************************************************)
(* app/services/face_index.py, the process-wide cache of the face registry *)
(* (invalidate, ensure_loaded, refresh), with the requests that change the *)
(* registry under it: _store_templates and delete_registration of          *)
(* app/routers/face.py, and scripts/reembed_registry.py, which runs in     *)
(* another process.                                                        *)
(*                                                                         *)
(* An action is the code between two awaits.  A write to MongoDB takes     *)
(* effect in one step and its coroutine resumes in a later one; a scan of  *)
(* the collection reads its documents one after the other.                 *)
(***************************************************************************)
EXTENDS Naturals, FiniteSets

CONSTANTS User,      \* employees
          Task,      \* coroutines that read the index: streams, searches, the
                     \* startup warm-up and the ERP's refresh_registry command
          Writer,    \* requests that enrol or delete
          NoTask,    \* the lock is free
          NoUser,    \* the request awaits no write
          MaxWrites, \* bound: writes to the registry
          MaxFails   \* bound: scans and writes that raise

ASSUME IndexAssumption == /\ NoTask \notin Task /\ NoUser \notin User
                          /\ MaxWrites \in Nat /\ MaxFails \in Nat

\* A registry document.  Writes are numbered: doc is the write that inserted
\* the document, ver the one that last set its embedding.
Absent == [doc |-> 0, ver |-> 0]
Document == [doc : 0 .. MaxWrites, ver : 0 .. MaxWrites]

VARIABLES registry,  \* face_registry: the document of each user
          writes,    \* number of writes so far
          snapshot,  \* self._snapshot: pairs <<user_id, ver of the embedding>>
          loaded,    \* self._loaded
          lock,      \* the task that holds self._lock, or NoTask
          pc,        \* where each task is
          got,       \* locals user_ids and vectors of a scanning task
          visited,   \* documents the cursor of a scanning task has returned
          from,      \* number of writes when that cursor was opened
          writer,    \* the user whose write each request awaits, or NoUser
          fails,     \* number of failures so far
          missed,    \* history: changes the snapshot may lack without the
          missedNow  \* index knowing, and those of the scan in progress

dbVars == <<registry, writes>>
cacheVars == <<snapshot, loaded, lock>>
scanVars == <<got, visited, from>>
missVars == <<missed, missedNow>>
vars == <<dbVars, cacheVars, pc, scanVars, writer, fails, missVars>>

\* The two ways a change goes unnoticed: the process is never told, or it is
\* told while a scan is in progress.
Reason == {"silent", "overlapped"}

\* The changes the scan in progress may miss, once u's is one of them.
MissedNowWith(u, reason) ==
    IF lock = NoTask THEN missedNow ELSE missedNow \cup {<<u, reason>>}

Init == /\ registry = [u \in User |-> Absent] /\ writes = 0
        /\ snapshot = {} /\ loaded = FALSE /\ lock = NoTask
        /\ pc = [t \in Task |-> "idle"]
        /\ got = [t \in Task |-> {}]
        /\ visited = [t \in Task |-> {}]
        /\ from = [t \in Task |-> 0]
        /\ writer = [w \in Writer |-> NoUser]
        /\ fails = 0
        /\ missed = {} /\ missedNow = {}

\* A definition named Wrong... is a plausible bug in the definition after it; the
\* properties are tested against it and no action uses it.

-----------------------------------------------------------------------------
(* Requests that change the registry. *)

WrongUpserted(u) == [doc |-> IF registry[u] = Absent THEN writes + 1
                                                    ELSE registry[u].doc,
                     ver |-> registry[u].ver]

\* The document update_one(..., upsert=True) leaves: a new one, or the user's
\* own with a new embedding.
Upserted(u) == [doc |-> IF registry[u] = Absent THEN writes + 1
                                               ELSE registry[u].doc,
                ver |-> writes + 1]

\* _store_templates: the upsert takes effect.
EnrolApply(w, u) ==
    /\ writer[w] = NoUser
    /\ writes < MaxWrites
    /\ registry' = [registry EXCEPT ![u] = Upserted(u)]
    /\ writes' = writes + 1
    /\ writer' = [writer EXCEPT ![w] = u]
    /\ UNCHANGED <<cacheVars, pc, scanVars, fails, missVars>>

\* delete_registration: delete_one takes effect, whether or not it finds u.
DeleteApply(w, u) ==
    /\ writer[w] = NoUser
    /\ writes < MaxWrites
    /\ registry' = [registry EXCEPT ![u] = Absent]
    /\ writes' = writes + 1
    /\ writer' = [writer EXCEPT ![w] = u]
    /\ UNCHANGED <<cacheVars, pc, scanVars, fails, missVars>>

WrongLoadedAfterWrite == loaded

\* invalidate()
LoadedAfterWrite == FALSE

\* The write returns to its coroutine, which invalidates the index.
Announce(w) ==
    /\ writer[w] # NoUser
    /\ loaded' = LoadedAfterWrite
    /\ writer' = [writer EXCEPT ![w] = NoUser]
    /\ missedNow' = MissedNowWith(writer[w], "overlapped")
    /\ UNCHANGED <<dbVars, snapshot, lock, pc, scanVars, fails, missed>>

\* The write took effect but raises (its reply is lost), or its request is
\* cancelled: invalidate() is skipped.
WriteRaises(w) ==
    /\ writer[w] # NoUser
    /\ fails < MaxFails
    /\ fails' = fails + 1
    /\ writer' = [writer EXCEPT ![w] = NoUser]
    /\ missed' = missed \cup {<<writer[w], "silent">>}
    /\ missedNow' = MissedNowWith(writer[w], "silent")
    /\ UNCHANGED <<dbVars, cacheVars, pc, scanVars>>

\* scripts/reembed_registry.py --apply: update_one without upsert, in a process
\* of its own, so this process's index is not invalidated.
Reembed(u) ==
    /\ registry[u] # Absent
    /\ writes < MaxWrites
    /\ registry' = [registry EXCEPT ![u].ver = writes + 1]
    /\ writes' = writes + 1
    /\ missed' = missed \cup {<<u, "silent">>}
    /\ missedNow' = MissedNowWith(u, "silent")
    /\ UNCHANGED <<cacheVars, pc, scanVars, writer, fails>>

-----------------------------------------------------------------------------
(* Readers. *)

\* ensure_loaded() of a loaded index returns at once; otherwise it refreshes.
\* Its caller then reads the snapshot, for a stream in a worker thread.
EnsureLoaded(t) ==
    /\ pc[t] = "idle"
    /\ pc' = [pc EXCEPT ![t] = IF loaded THEN "ready" ELSE "waiting"]
    /\ UNCHANGED <<dbVars, cacheVars, scanVars, writer, fails, missVars>>

\* refresh() called outright: at startup, or by the ERP's command.
Refresh(t) ==
    /\ pc[t] = "idle"
    /\ pc' = [pc EXCEPT ![t] = "waiting"]
    /\ UNCHANGED <<dbVars, cacheVars, scanVars, writer, fails, missVars>>

WrongLockFree == TRUE

LockFree == lock = NoTask

\* The locals of a refresh are gone when it ends.
ScanForgotten(t) == /\ got' = [got EXCEPT ![t] = {}]
                    /\ visited' = [visited EXCEPT ![t] = {}]
                    /\ from' = [from EXCEPT ![t] = 0]
                    /\ missedNow' = {}

\* The lock is acquired and the cursor opened.  `loaded` is not read again: a
\* task that waited behind another refresh scans once more.
ScanBegin(t) ==
    /\ pc[t] = "waiting"
    /\ LockFree
    /\ lock' = t
    /\ pc' = [pc EXCEPT ![t] = "scanning"]
    /\ from' = [from EXCEPT ![t] = writes]
    /\ UNCHANGED <<dbVars, snapshot, loaded, got, visited, writer, fails, missVars>>

\* The cursor returns a document it has not returned yet.  A user deleted and
\* enrolled again during the scan has two documents and may be read twice.
ScanRead(t, u) ==
    /\ pc[t] = "scanning"
    /\ registry[u] # Absent
    /\ registry[u].doc \notin visited[t]
    /\ got' = [got EXCEPT ![t] = @ \cup {<<u, registry[u].ver>>}]
    /\ visited' = [visited EXCEPT ![t] = @ \cup {registry[u].doc}]
    /\ UNCHANGED <<dbVars, cacheVars, pc, from, writer, fails, missVars>>

\* The cursor ends: every document that exists and was there when it was opened
\* has been returned; one inserted since may or may not have been.
CursorDone(t) ==
    \A u \in User : registry[u].doc \in 1 .. from[t] => registry[u].doc \in visited[t]

\* The snapshot is replaced as one tuple and the lock is released.
ScanEnd(t) ==
    /\ pc[t] = "scanning"
    /\ CursorDone(t)
    /\ snapshot' = got[t]
    /\ loaded' = TRUE
    /\ lock' = NoTask
    /\ pc' = [pc EXCEPT ![t] = "ready"]
    /\ missed' = missedNow
    /\ ScanForgotten(t)
    /\ UNCHANGED <<dbVars, writer, fails>>

WrongLockAfterFail == lock

\* `async with self._lock` releases the lock on every exit.
LockAfterFail == NoTask

\* The scan raises, or is cancelled with the bridge's receiver: the snapshot
\* and the flag are left as they were.
ScanFail(t) ==
    /\ pc[t] = "scanning"
    /\ fails < MaxFails
    /\ fails' = fails + 1
    /\ lock' = LockAfterFail
    /\ pc' = [pc EXCEPT ![t] = "idle"]
    /\ ScanForgotten(t)
    /\ UNCHANGED <<dbVars, snapshot, loaded, writer, missed>>

\* The caller has read the snapshot (identify, search), or needs it no more.
Use(t) ==
    /\ pc[t] = "ready"
    /\ pc' = [pc EXCEPT ![t] = "idle"]
    /\ UNCHANGED <<dbVars, cacheVars, scanVars, writer, fails, missVars>>

-----------------------------------------------------------------------------
WriterStep(w) == Announce(w) \/ WriteRaises(w)

ScanStep(t) == (\E u \in User : ScanRead(t, u)) \/ ScanEnd(t) \/ ScanFail(t)

Next == \/ \E w \in Writer : \/ \E u \in User : EnrolApply(w, u) \/ DeleteApply(w, u)
                             \/ WriterStep(w)
        \/ \E u \in User : Reembed(u)
        \/ \E t \in Task : \/ EnsureLoaded(t) \/ Refresh(t)
                           \/ ScanBegin(t) \/ ScanStep(t) \/ Use(t)

Spec == Init /\ [][Next]_vars

\* MongoDB answers or raises within its timeouts, so a scan and a write end;
\* asyncio.Lock wakes its waiters in order, so a waiting task gets the lock if it
\* becomes free again and again.  Nobody is obliged to write, ask or refresh.
Fairness == /\ \A w \in Writer : WF_vars(WriterStep(w))
            /\ \A t \in Task : /\ SF_vars(ScanBegin(t))
                               /\ WF_vars(ScanStep(t))
                               /\ WF_vars(Use(t))

FairSpec == Spec /\ Fairness

-----------------------------------------------------------------------------
(* Properties. *)

\* Every variable ranges over the values the code gives it.
TypeOK ==
    /\ registry \in [User -> Document]
    /\ writes \in 0 .. MaxWrites
    /\ snapshot \subseteq User \X (1 .. MaxWrites)
    /\ loaded \in BOOLEAN
    /\ lock \in Task \cup {NoTask}
    /\ pc \in [Task -> {"idle", "waiting", "scanning", "ready"}]
    /\ got \in [Task -> SUBSET (User \X (1 .. MaxWrites))]
    /\ visited \in [Task -> SUBSET (1 .. MaxWrites)]
    /\ from \in [Task -> 0 .. MaxWrites]
    /\ writer \in [Writer -> User \cup {NoUser}]
    /\ fails \in 0 .. MaxFails
    /\ missed \subseteq User \X Reason /\ missedNow \subseteq User \X Reason

\* What the registry and a scan say of user u.
InRegistry(u) == IF registry[u] = Absent THEN {} ELSE {<<u, registry[u].ver>>}
Of(u, entries) == {e \in entries : e[1] = u}
Fresh(u) == Of(u, snapshot) = InRegistry(u)

InFlight(u) == \E w \in Writer : writer[w] = u

\* A snapshot that counts as loaded agrees with the registry on every user,
\* except while the user's write has not returned, or after a change that was
\* announced during the scan or never announced.  This bounds how stale the
\* cache can be: no other interleaving of scans, writes, failures and
\* invalidations serves an old embedding, omits an employee or names one twice.
StaleOnlyIfMissed ==
    loaded => \A u \in User :
                 Fresh(u) \/ InFlight(u) \/ \E r \in Reason : <<u, r>> \in missed

\* A refresh never brings in an embedding older than one of the same user that it
\* replaces: scans that waited for the lock do not publish out of order
\* (face_index.py:113).
NeverOlder ==
    [][snapshot' # snapshot =>
          \A e \in snapshot, f \in snapshot' : e[1] = f[1] => e[2] <= f[2]]_vars

\* Whoever asks for the index gets an answer or an error: scans that raise or
\* are cancelled never leave the lock held (face_index.py:113).
RefreshReturns == \A t \in Task : pc[t] = "waiting" ~> pc[t] \in {"ready", "idle"}

\* face_index.py:97: invalidate() marks the cache stale and the next
\* ensure_loaded() reloads, so a cache that counts as loaded lacks no change
\* whose request has called invalidate().
InvalidateReloads ==
    loaded => \A u \in User : Fresh(u) \/ InFlight(u) \/ <<u, "silent">> \in missed
=============================================================================
