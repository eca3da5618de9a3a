-------------------------- MODULE RecognitionProofs --------------------------
(***************************************************************************)
(* Proofs about FaceIndex and Recognition: how stale the cache can be, and *)
(* whom it names, for any number of employees, readers, requests, writes   *)
(* and failures, and any scores, threshold and margin.                     *)
(***************************************************************************)
EXTENDS Recognition, FiniteSetTheorems, WellFoundedInduction, TLAPS

-----------------------------------------------------------------------------
(* What is invariant. *)

\* The lock is held by the one task that scans; the others have no locals.
Locked ==
    /\ \A t \in Task : lock = t <=> pc[t] = "scanning"
    /\ \A t \in Task : pc[t] # "scanning" => got[t] = {} /\ visited[t] = {}
    /\ lock = NoTask => missedNow = {}

\* Documents are numbered by the write that inserted them, and their embeddings
\* by a later or the same one.
Numbered ==
    /\ \A u \in User : registry[u] # Absent =>
          /\ registry[u].doc \in 1 .. writes /\ registry[u].ver \in 1 .. writes
    /\ \A u, v \in User : u # v /\ registry[u] # Absent => registry[u].doc # registry[v].doc

\* What is cached, or read, is no newer than the registry, and what a scan reads
\* is no older than what is cached.
Ordered ==
    /\ \A e \in snapshot : e[2] <= writes
    /\ \A e \in snapshot : registry[e[1]] # Absent => e[2] <= registry[e[1]].ver
    /\ \A t \in Task : \A e \in got[t] : e[2] <= writes
    /\ \A t \in Task : \A e \in got[t] :
          registry[e[1]] # Absent => e[2] <= registry[e[1]].ver
    /\ \A t \in Task : \A e \in snapshot, f \in got[t] : e[1] = f[1] => e[2] <= f[2]

\* What a scan in progress has read of u: her document as it is now, if the cursor
\* has passed it, and it will.
ReadRight(t, u) ==
    IF registry[u] = Absent THEN Of(u, got[t]) = {}
    ELSE /\ registry[u].doc <= from[t]
         /\ Of(u, got[t]) = IF registry[u].doc \in visited[t] THEN InRegistry(u) ELSE {}

Scanned ==
    \A t \in Task : pc[t] = "scanning" =>
       \A u \in User : \/ ReadRight(t, u) \/ InFlight(u)
                       \/ \E r \in Reason : <<u, r>> \in missedNow

Finite == IsFiniteSet(snapshot) /\ \A t \in Task : IsFiniteSet(got[t])

IInv == TypeOK /\ Locked /\ Numbered /\ Ordered /\ Scanned /\ Finite /\ StaleOnlyIfMissed

-----------------------------------------------------------------------------
LEMMA InitIInv == Init => IInv
<1> SUFFICES ASSUME Init PROVE IInv
  OBVIOUS
<1> USE IndexAssumption DEF Init
<1>1. TypeOK
  <2>1. registry \in [User -> Document] /\ writes \in 0 .. MaxWrites /\ fails \in 0 .. MaxFails
    BY DEF Absent, Document
  <2>2. /\ snapshot \subseteq User \X (1 .. MaxWrites)
        /\ missed \subseteq User \X Reason /\ missedNow \subseteq User \X Reason
    OBVIOUS
  <2>3. /\ got \in [Task -> SUBSET (User \X (1 .. MaxWrites))]
        /\ visited \in [Task -> SUBSET (1 .. MaxWrites)] /\ from \in [Task -> 0 .. MaxWrites]
    OBVIOUS
  <2> QED
    BY <2>1, <2>2, <2>3 DEF TypeOK
<1>2. Locked /\ Numbered /\ Ordered /\ Scanned /\ StaleOnlyIfMissed
  BY DEF Locked, Numbered, Ordered, Scanned, StaleOnlyIfMissed
<1>3. Finite
  BY FS_EmptySet DEF Finite
<1> QED
  BY <1>1, <1>2, <1>3 DEF IInv

LEMMA NextTypeOK == TypeOK /\ Numbered /\ [Next]_vars => TypeOK'
<1> SUFFICES ASSUME TypeOK, Numbered, [Next]_vars PROVE TypeOK'
  OBVIOUS
<1> USE IndexAssumption
    DEF TypeOK, Document, Absent, Reason, dbVars, cacheVars, scanVars, missVars
<1>1. ASSUME NEW w \in Writer, NEW u \in User, EnrolApply(w, u) PROVE TypeOK'
  <2>1. Upserted(u) \in Document
    BY <1>1 DEF EnrolApply, Upserted
  <2> QED
    BY <1>1, <2>1 DEF EnrolApply
<1>2. ASSUME NEW w \in Writer, NEW u \in User, DeleteApply(w, u) PROVE TypeOK'
  BY <1>2 DEF DeleteApply
<1>3. ASSUME NEW w \in Writer, Announce(w) PROVE TypeOK'
  <2>1. writer[w] \in User
    BY <1>3 DEF Announce
  <2>2. missedNow' \subseteq User \X Reason
    BY <1>3, <2>1 DEF Announce, MissedNowWith
  <2> QED
    BY <1>3, <2>2 DEF Announce, LoadedAfterWrite
<1>4. ASSUME NEW w \in Writer, WriteRaises(w) PROVE TypeOK'
  BY <1>4 DEF WriteRaises, MissedNowWith
<1>5. ASSUME NEW u \in User, Reembed(u) PROVE TypeOK'
  BY <1>5 DEF Reembed, MissedNowWith
<1>6. ASSUME NEW t \in Task, EnsureLoaded(t) PROVE TypeOK'
  BY <1>6 DEF EnsureLoaded
<1>7. ASSUME NEW t \in Task, Refresh(t) PROVE TypeOK'
  BY <1>7 DEF Refresh
<1>8. ASSUME NEW t \in Task, ScanBegin(t) PROVE TypeOK'
  BY <1>8 DEF ScanBegin
<1>9. ASSUME NEW t \in Task, NEW u \in User, ScanRead(t, u) PROVE TypeOK'
  BY <1>9 DEF ScanRead, Numbered
<1>10. ASSUME NEW t \in Task, ScanEnd(t) PROVE TypeOK'
  BY <1>10 DEF ScanEnd, ScanForgotten
<1>11. ASSUME NEW t \in Task, ScanFail(t) PROVE TypeOK'
  BY <1>11 DEF ScanFail, ScanForgotten, LockAfterFail
<1>12. ASSUME NEW t \in Task, Use(t) PROVE TypeOK'
  BY <1>12 DEF Use
<1>13. CASE UNCHANGED vars
  BY <1>13 DEF vars
<1> QED
  BY <1>1, <1>2, <1>3, <1>4, <1>5, <1>6, <1>7, <1>8, <1>9, <1>10, <1>11, <1>12, <1>13
  DEF Next, WriterStep, ScanStep

LEMMA NextLocked == TypeOK /\ Locked /\ [Next]_vars => Locked'
<1> SUFFICES ASSUME TypeOK, Locked, [Next]_vars PROVE Locked'
  OBVIOUS
<1> USE IndexAssumption DEF TypeOK, Locked, dbVars, cacheVars, scanVars, missVars
<1>1. ASSUME NEW w \in Writer, \/ \E u \in User : EnrolApply(w, u) \/ DeleteApply(w, u)
                               \/ WriterStep(w)
      PROVE  Locked'
  BY <1>1 DEF EnrolApply, DeleteApply, WriterStep, Announce, WriteRaises, MissedNowWith
<1>2. ASSUME NEW u \in User, Reembed(u) PROVE Locked'
  BY <1>2 DEF Reembed, MissedNowWith
<1>3. ASSUME NEW t \in Task, EnsureLoaded(t) \/ Refresh(t) \/ Use(t) PROVE Locked'
  BY <1>3 DEF EnsureLoaded, Refresh, Use
<1>4. ASSUME NEW t \in Task, ScanBegin(t) PROVE Locked'
  BY <1>4 DEF ScanBegin, LockFree
<1>5. ASSUME NEW t \in Task, NEW u \in User, ScanRead(t, u) PROVE Locked'
  BY <1>5 DEF ScanRead
<1>6. ASSUME NEW t \in Task, ScanEnd(t) \/ ScanFail(t) PROVE Locked'
  BY <1>6 DEF ScanEnd, ScanFail, ScanForgotten, LockAfterFail
<1>7. CASE UNCHANGED vars
  BY <1>7 DEF vars
<1> QED
  BY <1>1, <1>2, <1>3, <1>4, <1>5, <1>6, <1>7 DEF Next, ScanStep

LEMMA NextNumbered == TypeOK /\ Numbered /\ [Next]_vars => Numbered'
<1> SUFFICES ASSUME TypeOK, Numbered, [Next]_vars PROVE Numbered'
  OBVIOUS
<1> USE IndexAssumption DEF TypeOK, Document, Absent, Numbered, dbVars
<1>1. ASSUME NEW w \in Writer, NEW u \in User, EnrolApply(w, u) PROVE Numbered'
  BY <1>1 DEF EnrolApply, Upserted
<1>2. ASSUME NEW w \in Writer, NEW u \in User, DeleteApply(w, u) PROVE Numbered'
  BY <1>2 DEF DeleteApply
<1>3. ASSUME NEW u \in User, Reembed(u) PROVE Numbered'
  BY <1>3 DEF Reembed
<1>4. ASSUME UNCHANGED dbVars PROVE Numbered'
  BY <1>4
<1> QED
  BY <1>1, <1>2, <1>3, <1>4
  DEF Next, WriterStep, Announce, WriteRaises, EnsureLoaded, Refresh, ScanBegin, ScanStep,
      ScanRead, ScanEnd, ScanFail, Use, vars

LEMMA NextFinite == TypeOK /\ Finite /\ [Next]_vars => Finite'
<1> SUFFICES ASSUME TypeOK, Finite, [Next]_vars PROVE Finite'
  OBVIOUS
<1> USE DEF TypeOK, Finite
<1>1. ASSUME NEW t \in Task, NEW u \in User, ScanRead(t, u) PROVE Finite'
  <2>1. IsFiniteSet(got[t] \cup {<<u, registry[u].ver>>})
    BY FS_AddElement
  <2> QED
    BY <1>1, <2>1 DEF ScanRead, cacheVars
<1>2. ASSUME NEW t \in Task, ScanEnd(t) \/ ScanFail(t) PROVE Finite'
  <2>1. snapshot' \in {snapshot, got[t]} /\ got' = [got EXCEPT ![t] = {}]
    BY <1>2 DEF ScanEnd, ScanFail, ScanForgotten
  <2>2. IsFiniteSet({})
    BY FS_EmptySet
  <2> QED
    BY <2>1, <2>2
<1>3. ASSUME UNCHANGED <<snapshot, got>> PROVE Finite'
  BY <1>3
<1> QED
  BY <1>1, <1>2, <1>3
  DEF Next, EnrolApply, DeleteApply, WriterStep, Announce, WriteRaises, Reembed,
      EnsureLoaded, Refresh, ScanBegin, ScanStep, Use, vars, cacheVars, scanVars

\* Versions only grow, so what was read or cached stays behind the registry.
LEMMA NextOrdered == TypeOK /\ Locked /\ Numbered /\ Ordered /\ [Next]_vars => Ordered'
<1> SUFFICES ASSUME TypeOK, Locked, Numbered, Ordered, [Next]_vars PROVE Ordered'
  OBVIOUS
<1> USE IndexAssumption DEF TypeOK, Document, Absent
<1>a. ASSUME NEW u \in User, writes' = writes + 1, UNCHANGED <<snapshot, got>>,
             \A v \in User \ {u} : registry'[v] = registry[v],
             registry'[u] = Absent \/ registry'[u].ver = writes + 1
      PROVE  Ordered'
  <2>1. \A v \in User, n \in 1 .. MaxWrites :
           /\ n <= writes
           /\ registry[v] # Absent => n <= registry[v].ver
           => /\ n <= writes'
              /\ registry'[v] # Absent => n <= registry'[v].ver
    BY <1>a
  <2>2. \A e \in snapshot : e[1] \in User /\ e[2] \in 1 .. MaxWrites
    OBVIOUS
  <2>3. \A t \in Task : \A e \in got[t] : e[1] \in User /\ e[2] \in 1 .. MaxWrites
    OBVIOUS
  <2> QED
    BY <1>a, <2>1, <2>2, <2>3 DEF Ordered
<1>1. ASSUME NEW w \in Writer, NEW u \in User, EnrolApply(w, u) \/ DeleteApply(w, u)
      PROVE  Ordered'
  BY <1>a, <1>1 DEF EnrolApply, DeleteApply, Upserted, cacheVars, scanVars
<1>2. ASSUME NEW u \in User, Reembed(u) PROVE Ordered'
  BY <1>a, <1>2 DEF Reembed, cacheVars, scanVars
<1>3. ASSUME NEW t \in Task, NEW u \in User, ScanRead(t, u) PROVE Ordered'
  <2>1. UNCHANGED <<registry, writes, snapshot>>
    BY <1>3 DEF ScanRead, dbVars, cacheVars
  <2>2. \A e \in got'[t] : e \in got[t] \/ e = <<u, registry[u].ver>>
    BY <1>3 DEF ScanRead
  <2>3. \A i \in Task : i # t => got'[i] = got[i]
    BY <1>3 DEF ScanRead
  <2>4. registry[u].ver <= writes /\ \A e \in snapshot : e[1] = u => e[2] <= registry[u].ver
    BY <1>3 DEF ScanRead, Numbered, Ordered
  <2> QED
    BY <2>1, <2>2, <2>3, <2>4 DEF Ordered
<1>4. ASSUME NEW t \in Task, ScanEnd(t) PROVE Ordered'
  <2>1. snapshot' = got[t] /\ UNCHANGED <<registry, writes>>
    BY <1>4 DEF ScanEnd, dbVars
  <2>2. \A i \in Task : got'[i] = {}
    BY <1>4 DEF ScanEnd, ScanForgotten, Locked
  <2> QED
    BY <2>1, <2>2 DEF Ordered
<1>5. ASSUME NEW t \in Task, ScanFail(t) PROVE Ordered'
  <2>1. UNCHANGED <<registry, writes, snapshot>> /\ \A i \in Task : got'[i] \subseteq got[i]
    BY <1>5 DEF ScanFail, ScanForgotten, dbVars
  <2> QED
    BY <2>1 DEF Ordered
<1>6. ASSUME UNCHANGED <<registry, writes, snapshot, got>> PROVE Ordered'
  BY <1>6 DEF Ordered
<1> QED
  BY <1>1, <1>2, <1>3, <1>4, <1>5, <1>6
  DEF Next, WriterStep, Announce, WriteRaises, EnsureLoaded, Refresh, ScanBegin, ScanStep,
      Use, vars, dbVars, cacheVars, scanVars

\* Every change of the registry is on its way, or noted among what a scan in
\* progress may miss, until the scan has read it.
LEMMA NextScanned == TypeOK /\ Locked /\ Numbered /\ Scanned /\ [Next]_vars => Scanned'
<1> SUFFICES ASSUME TypeOK, Locked, Numbered, Scanned, [Next]_vars PROVE Scanned'
  OBVIOUS
<1> USE IndexAssumption DEF TypeOK, dbVars, cacheVars, scanVars, missVars
\* What is known of u is kept by a step that touches neither her document, nor
\* the scan of it, and takes away no excuse of hers.
<1>a. ASSUME NEW t \in Task, NEW u \in User, pc[t] = "scanning",
             registry'[u] = registry[u], from'[t] = from[t],
             Of(u, got'[t]) = Of(u, got[t]),
             registry[u].doc \in visited'[t] <=> registry[u].doc \in visited[t],
             InFlight(u) => InFlight(u)' \/ \E r \in Reason : <<u, r>> \in missedNow',
             missedNow \subseteq missedNow'
      PROVE  \/ ReadRight(t, u)' \/ InFlight(u)'
             \/ \E r \in Reason : <<u, r>> \in missedNow'
  <2>1. CASE ReadRight(t, u)
    <3>1. ReadRight(t, u)'
      BY <1>a, <2>1 DEF ReadRight, InRegistry, Of
    <3> QED
      BY <3>1
  <2>2. CASE ~ReadRight(t, u)
    BY <1>a, <2>2 DEF Scanned
  <2> QED
    BY <2>1, <2>2
<1>1. ASSUME NEW w \in Writer, NEW v \in User, EnrolApply(w, v) \/ DeleteApply(w, v)
      PROVE  Scanned'
  <2> SUFFICES ASSUME NEW t \in Task, pc'[t] = "scanning", NEW u \in User
               PROVE  \/ ReadRight(t, u)' \/ InFlight(u)'
                      \/ \E r \in Reason : <<u, r>> \in missedNow'
    BY DEF Scanned
  <2>1. CASE u = v
    <3>1. InFlight(u)'
      BY <1>1, <2>1 DEF EnrolApply, DeleteApply, InFlight
    <3> QED
      BY <3>1
  <2>2. CASE u # v
    <3>1. InFlight(u) => InFlight(u)'
      BY <1>1 DEF EnrolApply, DeleteApply, InFlight
    <3> QED
      BY <1>1, <1>a, <2>2, <3>1 DEF EnrolApply, DeleteApply, Of
  <2> QED
    BY <2>1, <2>2
<1>2. ASSUME NEW w \in Writer, WriterStep(w) PROVE Scanned'
  <2> SUFFICES ASSUME NEW t \in Task, pc'[t] = "scanning", NEW u \in User
               PROVE  \/ ReadRight(t, u)' \/ InFlight(u)'
                      \/ \E r \in Reason : <<u, r>> \in missedNow'
    BY DEF Scanned
  <2>1. /\ UNCHANGED <<registry, pc, got, visited, from>>
        /\ writer' = [writer EXCEPT ![w] = NoUser]
        /\ \E r \in Reason : missedNow' = MissedNowWith(writer[w], r)
    BY <1>2 DEF WriterStep, Announce, WriteRaises, Reason
  <2>2. lock # NoTask
    BY <2>1 DEF Locked
  <2>3. PICK r \in Reason : missedNow' = missedNow \cup {<<writer[w], r>>}
    BY <2>1, <2>2 DEF MissedNowWith
  <2>4. InFlight(u) => InFlight(u)' \/ <<u, r>> \in missedNow'
    BY <2>1, <2>3 DEF InFlight
  <2> QED
    BY <1>a, <2>1, <2>3, <2>4
<1>3. ASSUME NEW v \in User, Reembed(v) PROVE Scanned'
  <2> SUFFICES ASSUME NEW t \in Task, pc'[t] = "scanning", NEW u \in User
               PROVE  \/ ReadRight(t, u)' \/ InFlight(u)'
                      \/ \E r \in Reason : <<u, r>> \in missedNow'
    BY DEF Scanned
  <2>1. lock # NoTask
    BY <1>3 DEF Reembed, Locked
  <2>2. missedNow' = missedNow \cup {<<v, "silent">>}
    BY <1>3, <2>1 DEF Reembed, MissedNowWith
  <2>3. CASE u = v
    BY <2>2, <2>3 DEF Reason
  <2>4. CASE u # v
    BY <1>3, <1>a, <2>2, <2>4 DEF Reembed, InFlight
  <2> QED
    BY <2>3, <2>4
<1>4. ASSUME NEW i \in Task, ScanBegin(i) PROVE Scanned'
  <2> SUFFICES ASSUME NEW t \in Task, pc'[t] = "scanning", NEW u \in User
               PROVE  ReadRight(t, u)'
    BY DEF Scanned
  <2>1. t = i
    BY <1>4 DEF ScanBegin, LockFree, Locked
  <2>2. got'[t] = {} /\ visited'[t] = {} /\ from'[t] = writes /\ registry' = registry
    BY <1>4, <2>1 DEF ScanBegin, Locked
  <2> QED
    BY <2>2 DEF ReadRight, Of, Numbered
<1>5. ASSUME NEW i \in Task, NEW v \in User, ScanRead(i, v) PROVE Scanned'
  <2> SUFFICES ASSUME NEW t \in Task, pc'[t] = "scanning", NEW u \in User
               PROVE  \/ ReadRight(t, u)' \/ InFlight(u)'
                      \/ \E r \in Reason : <<u, r>> \in missedNow'
    BY DEF Scanned
  <2>1. /\ UNCHANGED <<registry, pc, from, writer, missedNow>>
        /\ registry[v] # Absent /\ registry[v].doc \notin visited[i]
        /\ got' = [got EXCEPT ![i] = @ \cup {<<v, registry[v].ver>>}]
        /\ visited' = [visited EXCEPT ![i] = @ \cup {registry[v].doc}]
    BY <1>5 DEF ScanRead
  <2>2. CASE t # i
    BY <1>a, <2>1, <2>2 DEF InFlight
  <2>3. CASE t = i /\ u # v
    <3>1. Of(u, got'[t]) = Of(u, got[t])
      BY <2>1, <2>3 DEF Of
    <3>2. registry[u].doc \in visited'[t] <=> registry[u].doc \in visited[t]
      BY <2>1, <2>3 DEF Numbered
    <3> QED
      BY <1>a, <2>1, <3>1, <3>2 DEF InFlight
  <2>4. CASE t = i /\ u = v
    <3>1. ReadRight(t, u) => ReadRight(t, u)'
      <4>1. Of(u, got'[t]) = Of(u, got[t]) \cup {<<u, registry[u].ver>>}
        BY <2>1, <2>4 DEF Of
      <4>2. registry[u].doc \in visited'[t]
        BY <2>1, <2>4
      <4> QED
        BY <2>1, <2>4, <4>1, <4>2 DEF ReadRight, InRegistry
    <3>2. InFlight(u)' <=> InFlight(u)
      BY <2>1 DEF InFlight
    <3> QED
      BY <2>1, <3>1, <3>2 DEF Scanned
  <2> QED
    BY <2>2, <2>3, <2>4
<1>6. ASSUME NEW i \in Task, ScanEnd(i) \/ ScanFail(i) PROVE Scanned'
  <2>1. \A t \in Task : pc'[t] # "scanning"
    BY <1>6 DEF ScanEnd, ScanFail, Locked
  <2> QED
    BY <2>1 DEF Scanned
<1>7. ASSUME UNCHANGED <<registry, got, visited, from, writer, missedNow>>,
             \A t \in Task : pc'[t] = "scanning" => pc[t] = "scanning"
      PROVE  Scanned'
  <2> SUFFICES ASSUME NEW t \in Task, pc'[t] = "scanning", NEW u \in User
               PROVE  \/ ReadRight(t, u)' \/ InFlight(u)'
                      \/ \E r \in Reason : <<u, r>> \in missedNow'
    BY DEF Scanned
  <2> QED
    BY <1>7, <1>a DEF InFlight
<1>8. ASSUME NEW t \in Task, EnsureLoaded(t) \/ Refresh(t) \/ Use(t) PROVE Scanned'
  BY <1>7, <1>8 DEF EnsureLoaded, Refresh, Use
<1>9. CASE UNCHANGED vars
  BY <1>7, <1>9 DEF vars
<1> QED
  BY <1>1, <1>2, <1>3, <1>4, <1>5, <1>6, <1>8, <1>9 DEF Next, ScanStep

LEMMA NextStale ==
  TypeOK /\ Locked /\ Numbered /\ Scanned /\ StaleOnlyIfMissed /\ [Next]_vars
    => StaleOnlyIfMissed'
<1> SUFFICES ASSUME TypeOK, Locked, Numbered, Scanned, StaleOnlyIfMissed, [Next]_vars, loaded',
                    NEW u \in User
             PROVE  \/ Fresh(u)' \/ InFlight(u)' \/ \E r \in Reason : <<u, r>> \in missed'
  BY DEF StaleOnlyIfMissed
<1> USE IndexAssumption DEF TypeOK, dbVars, cacheVars, scanVars, missVars
<1>a. ASSUME loaded, registry'[u] = registry[u], snapshot' = snapshot,
             InFlight(u) => InFlight(u)' \/ \E r \in Reason : <<u, r>> \in missed',
             missed \subseteq missed'
      PROVE  \/ Fresh(u)' \/ InFlight(u)' \/ \E r \in Reason : <<u, r>> \in missed'
  <2>1. Fresh(u) => Fresh(u)'
    BY <1>a DEF Fresh, InRegistry, Of
  <2> QED
    BY <1>a, <2>1 DEF StaleOnlyIfMissed
<1>1. ASSUME NEW w \in Writer, NEW v \in User, EnrolApply(w, v) \/ DeleteApply(w, v)
      PROVE  \/ Fresh(u)' \/ InFlight(u)' \/ \E r \in Reason : <<u, r>> \in missed'
  <2>1. CASE u = v
    BY <1>1, <2>1 DEF EnrolApply, DeleteApply, InFlight
  <2>2. CASE u # v
    <3>1. InFlight(u) => InFlight(u)'
      BY <1>1 DEF EnrolApply, DeleteApply, InFlight
    <3> QED
      BY <1>1, <1>a, <2>2, <3>1 DEF EnrolApply, DeleteApply
  <2> QED
    BY <2>1, <2>2
<1>2. ASSUME NEW w \in Writer, Announce(w) PROVE FALSE
  BY <1>2 DEF Announce, LoadedAfterWrite
<1>3. ASSUME NEW w \in Writer, WriteRaises(w)
      PROVE  \/ Fresh(u)' \/ InFlight(u)' \/ \E r \in Reason : <<u, r>> \in missed'
  <2>1. InFlight(u) => InFlight(u)' \/ <<u, "silent">> \in missed'
    BY <1>3 DEF WriteRaises, InFlight
  <2> QED
    BY <1>3, <1>a, <2>1 DEF WriteRaises, Reason
<1>4. ASSUME NEW v \in User, Reembed(v)
      PROVE  \/ Fresh(u)' \/ InFlight(u)' \/ \E r \in Reason : <<u, r>> \in missed'
  <2>1. CASE u = v
    BY <1>4, <2>1 DEF Reembed, Reason
  <2>2. CASE u # v
    BY <1>4, <1>a, <2>2 DEF Reembed, InFlight
  <2> QED
    BY <2>1, <2>2
<1>5. ASSUME NEW t \in Task, ScanEnd(t)
      PROVE  \/ Fresh(u)' \/ InFlight(u)' \/ \E r \in Reason : <<u, r>> \in missed'
  <2>1. /\ snapshot' = got[t] /\ registry' = registry /\ missed' = missedNow
        /\ writer' = writer /\ pc[t] = "scanning"
    BY <1>5 DEF ScanEnd
  <2>2. ReadRight(t, u) => Fresh(u)'
    <3>1. ReadRight(t, u) => Of(u, got[t]) = InRegistry(u)
      BY <1>5 DEF ScanEnd, CursorDone, ReadRight, InRegistry, Numbered
    <3> QED
      BY <2>1, <3>1 DEF Fresh, InRegistry, Of
  <2> QED
    BY <2>1, <2>2 DEF Scanned, InFlight
<1>6. ASSUME UNCHANGED <<registry, snapshot, loaded, writer, missed>>
      PROVE  \/ Fresh(u)' \/ InFlight(u)' \/ \E r \in Reason : <<u, r>> \in missed'
  BY <1>6, <1>a DEF InFlight
<1> QED
  BY <1>1, <1>2, <1>3, <1>4, <1>5, <1>6
  DEF Next, WriterStep, EnsureLoaded, Refresh, ScanBegin, ScanStep, ScanRead, ScanFail, Use,
      vars

THEOREM AlwaysIInv == Spec => []IInv
<1>1. IInv /\ [Next]_vars => IInv'
  BY NextTypeOK, NextLocked, NextNumbered, NextOrdered, NextScanned, NextFinite, NextStale
  DEF IInv
<1> QED
  BY InitIInv, <1>1, PTL DEF Spec

\* Every variable keeps its type.
THEOREM TypeCorrect == Spec => []TypeOK
<1>1. IInv => TypeOK
  BY DEF IInv
<1> QED
  BY <1>1, AlwaysIInv, PTL

\* A loaded cache agrees with the registry on every employee, except while a write
\* of hers is on its way, or after a change the index was never told of, or was
\* told of during a scan.
THEOREM CacheIsFresh == Spec => []StaleOnlyIfMissed
<1>1. IInv => StaleOnlyIfMissed
  BY DEF IInv
<1> QED
  BY <1>1, AlwaysIInv, PTL

\* No refresh replaces an embedding by an older one of the same user.
THEOREM RefreshesNeverGoBack == Spec => NeverOlder
<1>1. IInv /\ [Next]_vars =>
        [snapshot' # snapshot =>
           \A e \in snapshot, f \in snapshot' : e[1] = f[1] => e[2] <= f[2]]_vars
  <2> SUFFICES ASSUME IInv, [Next]_vars, snapshot' # snapshot
               PROVE  \A e \in snapshot, f \in snapshot' : e[1] = f[1] => e[2] <= f[2]
    OBVIOUS
  <2>1. PICK t \in Task : ScanEnd(t)
    BY DEF Next, EnrolApply, DeleteApply, WriterStep, Announce, WriteRaises, Reembed,
           EnsureLoaded, Refresh, ScanBegin, ScanStep, ScanRead, ScanFail, Use, vars,
           cacheVars
  <2>2. snapshot' = got[t]
    BY <2>1 DEF ScanEnd
  <2> QED
    BY <2>2 DEF IInv, Ordered
<1> QED
  BY <1>1, AlwaysIInv, PTL DEF Spec, NeverOlder

-----------------------------------------------------------------------------
(* Whom the index names. *)

\* A ranking of the top two is empty, or has the one entry there is, or two that
\* are ahead of all others.
LEMMA TopTwo ==
  ASSUME NEW E, IsFiniteSet(E), NEW s \in [E -> Score], NEW r \in Top(E, s, 2)
  PROVE  \/ E = {} /\ Len(r) = 0
         \/ E = {r[1]} /\ Len(r) = 1
         \/ /\ Len(r) = 2 /\ r[1] \in E /\ r[2] \in E /\ r[1] # r[2] /\ s[r[1]] >= s[r[2]]
            /\ \A e \in E \ {r[1]} : s[e] <= s[r[2]]
<1> USE RecognitionAssumption
<1>1. CASE E = {}
  BY <1>1 DEF Top
<1>2. CASE E # {}
  <2>1. r \in [1 .. Places(E, 2) -> E] /\ Ranks(r, E, s)
    BY <1>2 DEF Top
  <2>2. Cardinality(E) \in Nat /\ Cardinality(E) # 0
    BY <1>2, FS_CardinalityType, FS_EmptySet
  <2>3. CASE Cardinality(E) = 1
    <3>1. Places(E, 2) = 1
      BY <2>3 DEF Places, AtLeast, AtMost
    <3>2. r \in [1 .. 1 -> E] /\ Len(r) = 1
      BY <2>1, <3>1
    <3>3. PICK e : E = {e}
      BY <2>3, FS_Singleton
    <3> QED
      BY <3>2, <3>3
  <2>4. CASE Cardinality(E) > 1
    <3>1. Places(E, 2) = 2
      BY <2>2, <2>4 DEF Places, AtLeast, AtMost
    <3>2. r \in [1 .. 2 -> E]
      BY <2>1, <3>1
    <3>3. Len(r) = 2 /\ DOMAIN r = 1 .. 2
      BY <3>2
    <3>4. r[1] \in E /\ r[2] \in E /\ r[1] # r[2] /\ s[r[1]] >= s[r[2]]
      <4>1. 1 \in DOMAIN r /\ 2 \in DOMAIN r /\ 1 < 2
        BY <3>3
      <4> QED
        BY <2>1, <3>2, <4>1 DEF Ranks
    <3>5. ASSUME NEW e \in E \ {r[1]} PROVE s[e] <= s[r[2]]
      <4>1. CASE \E i \in DOMAIN r : r[i] = e
        <5>1. e = r[2]
          BY <3>3, <4>1
        <5> QED
          BY <5>1, <3>4 DEF Score
      <4>2. CASE \A i \in DOMAIN r : s[e] <= s[r[i]]
        BY <3>3, <4>2
      <4> QED
        BY <2>1, <4>1, <4>2 DEF Ranks
    <3> QED
      BY <3>3, <3>4, <3>5
  <2> QED
    BY <2>2, <2>3, <2>4
<1> QED
  BY <1>1, <1>2

\* Scores outside the snapshot do not matter to the ranking.
LEMMA TopOfSnapshot ==
  ASSUME IInv, NEW s \in Probe, NEW r \in Top(snapshot, s, 2)
  PROVE  \/ snapshot = {} /\ Len(r) = 0
         \/ snapshot = {r[1]} /\ Len(r) = 1
         \/ /\ Len(r) = 2 /\ r[1] \in snapshot /\ r[2] \in snapshot /\ r[1] # r[2]
            /\ s[r[1]] >= s[r[2]]
            /\ \A e \in snapshot \ {r[1]} : s[e] <= s[r[2]]
<1> DEFINE z == [e \in snapshot |-> s[e]]
<1>1. z \in [snapshot -> Score]
  BY DEF Probe
<1>2. r \in Top(snapshot, z, 2)
  <2>1. CASE snapshot = {}
    BY <2>1 DEF Top
  <2>2. CASE snapshot # {}
    <3>1. r \in [1 .. Places(snapshot, 2) -> snapshot] /\ Ranks(r, snapshot, s)
      BY <2>2 DEF Top
    <3>2. \A i \in DOMAIN r : r[i] \in snapshot /\ z[r[i]] = s[r[i]]
      BY <3>1
    <3>3. Ranks(r, snapshot, z)
      BY <3>1, <3>2 DEF Ranks
    <3> QED
      BY <2>2, <3>1, <3>3 DEF Top
  <2> QED
    BY <2>1, <2>2
<1>3. IsFiniteSet(snapshot)
  BY DEF IInv, Finite
<1> HIDE DEF z
<1>4. \/ snapshot = {} /\ Len(r) = 0
      \/ snapshot = {r[1]} /\ Len(r) = 1
      \/ /\ Len(r) = 2 /\ r[1] \in snapshot /\ r[2] \in snapshot /\ r[1] # r[2]
         /\ z[r[1]] >= z[r[2]]
         /\ \A e \in snapshot \ {r[1]} : z[e] <= z[r[2]]
  BY <1>1, <1>2, <1>3, TopTwo
<1> QED
  BY <1>4 DEF z

\* A settled employee is in a loaded snapshot as she is in the registry.
LEMMA SettledIsFresh ==
  ASSUME IInv, loaded, NEW u \in User, Settled(u)
  PROVE  Of(u, snapshot) = InRegistry(u)
  BY DEF IInv, StaleOnlyIfMissed, Settled, Fresh

LEMMA NamesOnly == IInv => NamesOnlyTheClear
<1> SUFFICES ASSUME IInv, loaded, NEW s \in Probe, NEW r \in Top(snapshot, s, 2),
                    NEW u \in User, Identify(s, r) = u, Settled(u)
             PROVE  \E e \in InRegistry(u) :
                       /\ s[e] >= Threshold
                       /\ \A v \in User \ {u} : Settled(v) =>
                             \A f \in InRegistry(v) : s[e] - s[f] >= Margin
  BY DEF NamesOnlyTheClear
<1> USE IndexAssumption, RecognitionAssumption
<1>1. \A e \in snapshot : s[e] \in Int
  BY DEF Probe, Score
<1>2. Status(s, r) = "identified" /\ r[1][1] = u
  BY DEF Identify
<1>3. Len(r) # 0 /\ ~(s[r[1]] < Threshold) /\ ClearOfSecond(s, r)
  BY <1>2 DEF Status
<1>4. r[1] \in snapshot /\ s[r[1]] >= Threshold
  BY <1>1, <1>3, TopOfSnapshot
<1>5. r[1] \in InRegistry(u)
  BY <1>2, <1>4, SettledIsFresh DEF Of
<1>6. ASSUME NEW v \in User \ {u}, Settled(v), NEW f \in InRegistry(v)
      PROVE  s[r[1]] - s[f] >= Margin
  <2>1. f \in snapshot /\ f[1] = v
    BY <1>6, SettledIsFresh DEF Of
  <2>2. f # r[1]
    BY <1>2, <2>1
  <2>3. /\ Len(r) = 2 /\ r[2] \in snapshot /\ s[f] <= s[r[2]]
    BY <2>1, <2>2, TopOfSnapshot
  <2>4. s[r[1]] - s[r[2]] >= Margin
    BY <1>3, <2>3 DEF ClearOfSecond
  <2> QED
    BY <1>1, <1>4, <2>1, <2>3, <2>4
<1> QED
  BY <1>4, <1>5, <1>6

LEMMA NamesAll == IInv => NamesTheClear
<1> SUFFICES ASSUME IInv, loaded, \A u \in User : Settled(u), NEW s \in Probe,
                    NEW e \in Enrolled, s[e] >= Threshold,
                    \A f \in Enrolled \ {e} : s[e] > s[f] /\ s[e] - s[f] >= Margin,
                    NEW r \in Top(snapshot, s, 2)
             PROVE  Identify(s, r) = e[1]
  BY DEF NamesTheClear
<1> USE IndexAssumption, RecognitionAssumption
<1>1. snapshot = Enrolled
  <2>1. \A f \in snapshot : f[1] \in User /\ f \in Of(f[1], snapshot)
    BY DEF IInv, TypeOK, Of
  <2>2. \A u \in User : Of(u, snapshot) = InRegistry(u)
    BY SettledIsFresh
  <2>3. \A u \in User : InRegistry(u) \subseteq snapshot
    BY <2>2 DEF Of
  <2> QED
    BY <2>1, <2>2, <2>3 DEF Enrolled
<1>2. \A f \in snapshot : s[f] \in Int
  BY DEF Probe, Score
<1>3. Len(r) # 0 /\ r[1] = e
  BY <1>1, <1>2, TopOfSnapshot
<1>4. ClearOfSecond(s, r)
  BY <1>1, <1>2, <1>3, TopOfSnapshot DEF ClearOfSecond
<1>5. Status(s, r) = "identified"
  BY <1>1, <1>2, <1>3, <1>4 DEF Status
<1> QED
  BY <1>3, <1>5 DEF Identify

\* Whoever is named is enrolled, above the threshold and clear of all others; and
\* whoever is, is named: whatever changes the cache has missed about third persons
\* and however ties are ranked.
THEOREM NamesAreRight == Spec => []NamesExactlyTheClear
<1>1. IInv => NamesExactlyTheClear
  BY NamesOnly, NamesAll DEF NamesExactlyTheClear
<1> QED
  BY <1>1, AlwaysIInv, PTL

-----------------------------------------------------------------------------
(* What a search returns. *)

\* A set of natural numbers has a least element.
LEMMA Least ==
  ASSUME NEW T, T \subseteq Nat, T # {}
  PROVE  \E m \in T : \A k \in T : m <= k
<1>1. PICK m \in T : \A k \in T : ~(<<k, m>> \in OpToRel(<, Nat))
  BY WFMin, NatLessThanWellFounded
<1>2. \A k \in T : ~(k < m)
  BY <1>1 DEF OpToRel
<1>3. m \in Nat /\ \A k \in T : k \in Nat
  OBVIOUS
<1> QED
  BY <1>2, <1>3

\* Places that are kept with all before them are the first ones.
LEMMA Prefix ==
  ASSUME NEW n \in Nat, NEW K \in SUBSET (1 .. n),
         \A i \in K : \A j \in 1 .. n : j < i => j \in K
  PROVE  Cardinality(K) \in 0 .. n /\ K = 1 .. Cardinality(K)
<1> DEFINE T == {m \in Nat : m + 1 \notin K}
<1>1. n \in T
  OBVIOUS
<1>2. PICK m \in T : \A k \in T : m <= k
  BY <1>1, Least
<1>3. m \in Nat /\ m + 1 \notin K /\ m <= n
  BY <1>1, <1>2
<1>4. ASSUME NEW i \in 1 .. m PROVE i \in K
  <2>1. i - 1 \in Nat /\ ~(m <= i - 1) /\ (i - 1) + 1 = i
    BY <1>3
  <2> QED
    BY <1>2, <2>1
<1>5. ASSUME NEW i \in K PROVE i \in 1 .. m
  <2>1. i \in 1 .. n /\ (m + 1 < i => m + 1 \in 1 .. n)
    BY <1>3
  <2>2. ~(m + 1 < i) /\ i # m + 1
    BY <1>3, <2>1
  <2> QED
    BY <1>3, <2>1, <2>2
<1>6. K = 1 .. m
  BY <1>4, <1>5
<1>7. Cardinality(1 .. m) = m
  BY <1>3, FS_Interval
<1> QED
  BY <1>3, <1>6, <1>7

\* Distinct elements are as many as their places.
LEMMA OneEach ==
  ASSUME NEW n \in Nat, NEW E, NEW f \in Injection(1 .. n, E)
  PROVE  Cardinality({f[i] : i \in 1 .. n}) = n
<1> DEFINE R == {f[i] : i \in 1 .. n}
<1>1. IsFiniteSet(1 .. n) /\ Cardinality(1 .. n) = n
  BY FS_Interval
<1>2. f \in Surjection(1 .. n, R) /\ f \in Injection(1 .. n, R)
  BY DEF Surjection, Injection, IsInjective
<1> QED
  BY <1>1, <1>2, FS_Surjection

\* A ranking holds distinct entries, as many as were asked for or all there are.
LEMMA TopIs ==
  ASSUME NEW E, IsFiniteSet(E), NEW s, NEW limit \in Nat, NEW r \in Top(E, s, TopK(limit))
  PROVE  /\ Len(r) \in Nat /\ DOMAIN r = 1 .. Len(r) /\ r \in [1 .. Len(r) -> E]
         /\ Ranks(r, E, s)
         /\ limit <= Len(r) \/ Len(r) = Cardinality(E)
<1>1. CASE E = {}
  <2>1. r = <<>>
    BY <1>1 DEF Top
  <2> QED
    BY <1>1, <2>1, FS_EmptySet DEF Ranks
<1>2. CASE E # {}
  <2> DEFINE n == Places(E, TopK(limit))
  <2>1. r \in [1 .. n -> E] /\ Ranks(r, E, s)
    BY <1>2 DEF Top
  <2>2. Cardinality(E) \in Nat /\ Cardinality(E) # 0
    BY <1>2, FS_CardinalityType, FS_EmptySet
  <2>3. n \in Nat /\ (limit <= n \/ n = Cardinality(E))
    BY <2>2 DEF Places, TopK, AtMost, AtLeast
  <2> HIDE DEF n
  <2>4. Len(r) = n
    BY <2>1, <2>3
  <2> QED
    BY <2>1, <2>3, <2>4
<1> QED
  BY <1>1, <1>2

LEMMA SearchIsRight == IInv => SearchFindsBest
<1> SUFFICES ASSUME IInv, NEW s \in Probe, NEW limit \in 0 .. MaxLimit,
                    NEW r \in Top(snapshot, s, TopK(limit))
             PROVE  LET found == Matches(s, r, limit)
                        good == {e \in snapshot : s[e] >= SearchFrom}
                    IN  /\ Len(found) = AtMost(limit, Cardinality(good))
                        /\ \A e \in good : \A i \in DOMAIN found :
                              s[e] > s[found[i]] => \E j \in 1 .. i : found[j] = e
  BY DEF SearchFindsBest
<1> DEFINE n == Len(r)
           kept == Reaching(s, r)
           k == Cardinality(kept)
           found == Matches(s, r, limit)
           good == {e \in snapshot : s[e] >= SearchFrom}
           g == Cardinality(good)
<1>1. limit \in Nat /\ SearchFrom \in Int /\ IsFiniteSet(snapshot)
  BY RecognitionAssumption DEF IInv, Finite
<1>2. \A e \in snapshot : s[e] \in Int
  BY DEF Probe, Score
<1>3. /\ n \in Nat /\ DOMAIN r = 1 .. n /\ r \in [1 .. n -> snapshot]
      /\ Ranks(r, snapshot, s)
      /\ limit <= n \/ n = Cardinality(snapshot)
  BY <1>1, TopIs
<1> HIDE DEF n
<1>4. \A i, j \in 1 .. n : /\ i < j => r[i] # r[j] /\ s[r[i]] >= s[r[j]]
                           /\ r[i] \in snapshot /\ s[r[i]] \in Int
  BY <1>2, <1>3 DEF Ranks
<1>5. kept = {i \in 1 .. n : s[r[i]] >= SearchFrom}
  BY <1>3 DEF Reaching
<1>6. k \in 0 .. n /\ kept = 1 .. k
  <2>1. kept \in SUBSET (1 .. n)
    BY <1>5
  <2>2. ASSUME NEW i \in kept, NEW j \in 1 .. n, j < i PROVE j \in kept
    BY <1>1, <1>4, <1>5, <2>2
  <2> HIDE DEF kept
  <2> QED
    BY <1>3, <2>1, <2>2, Prefix
<1> HIDE DEF k, kept
\* The m-th entry that is kept is the m-th of the ranking.
<1>7. ASSUME NEW m \in 1 .. k
      PROVE  (CHOOSE i \in kept : Cardinality({j \in kept : j <= i}) = m) = m
  <2>1. ASSUME NEW i \in 1 .. k PROVE Cardinality({j \in kept : j <= i}) = i
    <3>1. {j \in kept : j <= i} = 1 .. i
      BY <1>3, <1>6
    <3>2. Cardinality(1 .. i) = i
      BY <1>6, FS_Interval
    <3> QED
      BY <3>1, <3>2
  <2> QED
    BY <1>6, <2>1
<1>8. found = [m \in 1 .. AtMost(limit, k) |-> r[m]]
  <2>1. \A m \in 1 .. AtMost(limit, k) : m \in 1 .. k
    BY <1>1, <1>6 DEF AtMost
  <2>2. found = [m \in 1 .. AtMost(limit, k) |->
                    r[CHOOSE i \in kept : Cardinality({j \in kept : j <= i}) = m]]
    BY DEF Matches, kept, k
  <2> DEFINE Place(m) == CHOOSE i \in kept : Cardinality({j \in kept : j <= i}) = m
  <2>3. found = [m \in 1 .. AtMost(limit, k) |-> r[Place(m)]]
    BY <2>2
  <2>4. \A m \in 1 .. AtMost(limit, k) : Place(m) = m
    BY <1>7, <2>1
  <2> HIDE DEF found, Place
  <2> QED
    BY <2>3, <2>4
<1> HIDE DEF found
<1>9. AtMost(limit, k) \in Nat /\ AtMost(limit, k) <= k /\ AtMost(limit, k) <= limit
  BY <1>1, <1>6 DEF AtMost
<1>10. Len(found) = AtMost(limit, k) /\ DOMAIN found = 1 .. AtMost(limit, k)
  BY <1>8, <1>9
\* As many are good as are kept, unless the limit is reached.
<1>11. AtMost(limit, k) = AtMost(limit, g)
  <2> DEFINE f == [i \in 1 .. k |-> r[i]]
             R == {f[i] : i \in 1 .. k}
  <2>1. /\ \A i \in 1 .. k : i \in 1 .. n /\ f[i] = r[i] /\ f[i] \in good
        /\ f \in [1 .. k -> good]
    BY <1>3, <1>4, <1>5, <1>6
  <2>2. IsFiniteSet(good) /\ g \in Nat
    BY <1>1, FS_Subset, FS_CardinalityType
  <2> HIDE DEF good, g, f
  <2>3. f \in Injection(1 .. k, good)
    <3>1. \A i, j \in 1 .. k : f[i] = f[j] => i = j
      BY <1>4, <2>1
    <3> QED
      BY <2>1, <3>1 DEF Injection, IsInjective
  <2>4. k \in Nat /\ R \subseteq good
    BY <1>6, <2>1
  <2>5. Cardinality(R) = k
    BY <2>1, <2>2, <2>3, <2>4, OneEach
  <2>6. k <= g
    BY <2>2, <2>4, <2>5, FS_Subset DEF g
  <2>7. CASE limit <= k
    BY <1>1, <2>2, <2>4, <2>6, <2>7 DEF AtMost
  <2>8. CASE k < limit
    <3>1. ASSUME NEW e \in good PROVE e \in R
      <4>1. e \in snapshot /\ s[e] >= SearchFrom /\ s[e] \in Int
        BY <1>2 DEF good
      <4>2. CASE \E i \in 1 .. n : r[i] = e
        <5>1. PICK i \in 1 .. n : r[i] = e
          BY <4>2
        <5>2. i \in 1 .. k
          BY <1>5, <1>6, <4>1, <5>1
        <5> QED
          BY <2>1, <5>1, <5>2
      <4>3. CASE \A i \in 1 .. n : s[e] <= s[r[i]]
        <5>1. \A i \in 1 .. n : i \in kept
          BY <1>1, <1>4, <1>5, <4>1, <4>3
        <5>2. n = k
          BY <1>3, <1>6, <5>1
        <5>3. n = Cardinality(snapshot)
          BY <1>1, <1>3, <2>8, <5>2
        <5>4. \A d \in snapshot : \E i \in 1 .. n : r[i] = d
          <6>1. \A i, j \in 1 .. n : i < j => r[i] # r[j]
            BY <1>4
          <6>2. r \in Injection(1 .. n, snapshot)
            <7>1. \A i, j \in 1 .. n : r[i] = r[j] => i = j
              BY <1>3, <6>1
            <7> QED
              BY <1>3, <7>1 DEF Injection, IsInjective
          <6>3. Cardinality(1 .. n) = Cardinality(snapshot)
            BY <1>3, <5>3, FS_Interval
          <6>4. r \in Surjection(1 .. n, snapshot)
            BY <1>1, <6>2, <6>3, FS_Injection
          <6> QED
            BY <6>4 DEF Surjection
        <5> QED
          BY <4>1, <4>2, <5>4
      <4> QED
        BY <1>3, <4>1, <4>2, <4>3 DEF Ranks
    <3>2. R = good
      BY <2>4, <3>1
    <3> QED
      BY <2>5, <3>2 DEF g
  <2> QED
    BY <1>1, <2>4, <2>7, <2>8
<1>12. ASSUME NEW e \in good, NEW i \in DOMAIN found, s[e] > s[found[i]]
       PROVE  \E j \in 1 .. i : found[j] = e
  <2>1. e \in snapshot /\ s[e] \in Int
    BY <1>2
  <2>2. i \in 1 .. n /\ found[i] = r[i] /\ \A j \in 1 .. i : found[j] = r[j]
    <3> DEFINE a == AtMost(limit, k)
    <3>1. a \in Nat /\ a <= n /\ i \in 1 .. a
      BY <1>3, <1>6, <1>9, <1>10
    <3>2. found = [m \in 1 .. a |-> r[m]]
      BY <1>8
    <3> HIDE DEF a
    <3> QED
      BY <1>3, <3>1, <3>2
  <2>3. s[r[i]] \in Int /\ ~(s[e] <= s[r[i]])
    BY <1>4, <1>12, <2>1, <2>2
  <2>4. PICK j \in 1 .. n : r[j] = e
    BY <1>3, <2>1, <2>2, <2>3 DEF Ranks
  <2>5. ~(i < j)
    BY <1>4, <2>2, <2>3, <2>4
  <2>6. j \in 1 .. i
    BY <1>3, <2>2, <2>5
  <2> QED
    BY <2>2, <2>4, <2>6
<1> QED
  BY <1>10, <1>11, <1>12 DEF found, good, g

\* A search leaves out nothing above its threshold that scores higher than what it
\* returns, and returns as many as there are and its limit allows.
THEOREM SearchesFindTheBest == Spec => []SearchFindsBest
<1> QED
  BY SearchIsRight, AlwaysIInv, PTL
=============================================================================
