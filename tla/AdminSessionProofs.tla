------------------------- MODULE AdminSessionProofs -------------------------
(***************************************************************************)
(* Proofs about AdminSession, for any number of processes, tokens and      *)
(* requests, any lifetime of a session and any bound of the clock.         *)
(***************************************************************************)
EXTENDS AdminSession, TLAPS

\* A login that ended leaves no session, and only a completed one has any.
SessionsOfLogins ==
    \A t \in Token : session[t] => login[t] = "in"

\* A request that began came with the cookie of a completed login, whose expiry is
\* never drawn again; one that began after the logout knows it.
CookiesOfLogins ==
    \A q \in Request :
        /\ since[q] <= now
        /\ pc[q] # "idle" => login[cookie[q]] \in {"in", "out"}
        /\ late[q] => pc[q] # "idle" /\ login[cookie[q]] = "out"

\* Who has got past the session was in time; who has begun has seen the admin
\* active if the admin is.
SessionsInTime ==
    \A q \in Request :
        /\ pc[q] \in {"loading", "authorised"} => SessionAlive(q)
        /\ pc[q] # "idle" /\ admin = "active" => active[q]

IInv == /\ TypeOK
        /\ SessionsOfLogins
        /\ CookiesOfLogins
        /\ SessionsInTime
        /\ RequestsAuthorised

-----------------------------------------------------------------------------
\* Type correctness is inductive on its own.
LEMMA InitTypeOK == Init => TypeOK
  BY SessionAssumption DEF Init, TypeOK, Time

LEMMA NextTypeOK == TypeOK /\ [Next]_vars => TypeOK'
<1> SUFFICES ASSUME TypeOK, [Next]_vars PROVE TypeOK'
  OBVIOUS
<1> USE SessionAssumption
    DEF TypeOK, Time, accountVars, sessionVars, requestVars, NoteActive, Goto
<1>1. CASE Tick
  BY <1>1 DEF Tick
<1>2. CASE Toggle
  BY <1>2 DEF Toggle
<1>3. ASSUME NEW p \in Process, BootCheck(p) PROVE TypeOK'
  BY <1>3 DEF BootCheck
<1>4. ASSUME NEW p \in Process, BootInsert(p) PROVE TypeOK'
  BY <1>4 DEF BootInsert
<1>5. ASSUME NEW p \in Process, BootFails(p) PROVE TypeOK'
  BY <1>5 DEF BootFails
<1>6. ASSUME NEW t \in Token, LoginFind(t) PROVE TypeOK'
  BY <1>6 DEF LoginFind, Expiry
<1>7. ASSUME NEW t \in Token, LoginInsert(t) PROVE TypeOK'
  BY <1>7 DEF LoginInsert
<1>8. ASSUME NEW t \in Token, Logout(t) PROVE TypeOK'
  BY <1>8 DEF Logout, AfterLogout
<1>9. ASSUME NEW t \in Token, Reap(t) PROVE TypeOK'
  BY <1>9 DEF Reap
<1>10. ASSUME NEW q \in Request, Begin(q) PROVE TypeOK'
  BY <1>10 DEF Begin
<1>11. ASSUME NEW q \in Request, FindSession(q) PROVE TypeOK'
  BY <1>11 DEF FindSession
<1>12. ASSUME NEW q \in Request, DropExpired(q) PROVE TypeOK'
  BY <1>12 DEF DropExpired
<1>13. ASSUME NEW q \in Request, FindAdmin(q) PROVE TypeOK'
  BY <1>13 DEF FindAdmin
<1>14. ASSUME NEW q \in Request, RequestFails(q) PROVE TypeOK'
  BY <1>14 DEF RequestFails
<1>15. CASE UNCHANGED vars
  BY <1>15 DEF vars
<1> QED
  BY <1>1, <1>2, <1>3, <1>4, <1>5, <1>6, <1>7, <1>8, <1>9, <1>10, <1>11, <1>12,
     <1>13, <1>14, <1>15
  DEF Next, BootStep, SessionStep, RequestStep

\* The state of AdminSession always has its types, whatever the constants.
THEOREM TypeCorrect == Spec => []TypeOK
<1>1. Init => TypeOK
  BY InitTypeOK
<1>2. TypeOK /\ [Next]_vars => TypeOK'
  BY NextTypeOK
<1> QED
  BY <1>1, <1>2, PTL DEF Spec

-----------------------------------------------------------------------------
LEMMA InitIInv == Init => IInv
  BY InitTypeOK
  DEF Init, IInv, SessionsOfLogins, CookiesOfLogins, SessionsInTime, RequestsAuthorised

LEMMA NextIInv == IInv /\ [Next]_vars => IInv'
<1> SUFFICES ASSUME IInv, [Next]_vars PROVE IInv'
  OBVIOUS
<1> USE SessionAssumption
    DEF IInv, TypeOK, Time, SessionsOfLogins, CookiesOfLogins, SessionsInTime,
        RequestsAuthorised, SessionAlive, accountVars, sessionVars, requestVars,
        NoteActive, Goto
<1>t. TypeOK'
  BY NextTypeOK
<1>1. CASE Tick
  BY <1>t, <1>1 DEF Tick
<1>2. CASE Toggle
  BY <1>t, <1>2 DEF Toggle
<1>3. ASSUME NEW p \in Process, BootCheck(p) PROVE IInv'
  BY <1>t, <1>3 DEF BootCheck
<1>4. ASSUME NEW p \in Process, BootInsert(p) PROVE IInv'
  BY <1>t, <1>4 DEF BootInsert
<1>5. ASSUME NEW p \in Process, BootFails(p) PROVE IInv'
  BY <1>t, <1>5 DEF BootFails
<1>6. ASSUME NEW t \in Token, LoginFind(t) PROVE IInv'
  BY <1>t, <1>6 DEF LoginFind, Expiry
<1>7. ASSUME NEW t \in Token, LoginInsert(t) PROVE IInv'
  BY <1>t, <1>7 DEF LoginInsert
<1>8. ASSUME NEW t \in Token, Logout(t) PROVE IInv'
  BY <1>t, <1>8 DEF Logout, AfterLogout
<1>9. ASSUME NEW t \in Token, Reap(t) PROVE IInv'
  BY <1>t, <1>9 DEF Reap
<1>10. ASSUME NEW q \in Request, Begin(q) PROVE IInv'
  <2>1. /\ pc[q] = "idle" /\ pc'[q] = "finding" /\ since'[q] = now
        /\ login[cookie[q]] \in {"in", "out"}
    BY <1>10 DEF Begin
  <2>2. late'[q] => login[cookie[q]] = "out"
    BY <1>10, Zenon DEF Begin
  <2>3. admin = "active" => active'[q]
    BY <1>10, Zenon DEF Begin
  <2>4. \A r \in Request \ {q} :
            /\ pc'[r] = pc[r] /\ since'[r] = since[r]
            /\ late'[r] = late[r] /\ active'[r] = active[r]
    BY <1>10 DEF Begin
  <2>5. UNCHANGED <<now, admin, login, session, expires, cookie>>
    BY <1>10 DEF Begin
  <2> QED
    BY <1>t, <2>1, <2>2, <2>3, <2>4, <2>5
<1>11. ASSUME NEW q \in Request, FindSession(q) PROVE IInv'
  BY <1>t, <1>11 DEF FindSession, Expired
<1>12. ASSUME NEW q \in Request, DropExpired(q) PROVE IInv'
  BY <1>t, <1>12 DEF DropExpired
<1>13. ASSUME NEW q \in Request, FindAdmin(q) PROVE IInv'
  BY <1>t, <1>13 DEF FindAdmin, MayEnter
<1>14. ASSUME NEW q \in Request, RequestFails(q) PROVE IInv'
  BY <1>t, <1>14 DEF RequestFails
<1>15. CASE UNCHANGED vars
  BY <1>t, <1>15 DEF vars
<1> QED
  BY <1>1, <1>2, <1>3, <1>4, <1>5, <1>6, <1>7, <1>8, <1>9, <1>10, <1>11, <1>12,
     <1>13, <1>14, <1>15
  DEF Next, BootStep, SessionStep, RequestStep

\* A request is authorised only by a session that was alive when it began and while
\* the admin was active, however logout, expiry, the TTL monitor and the operator
\* fall between its reads.
THEOREM OnlyTheAliveEnter == Spec => []RequestsAuthorised
<1>1. Init => IInv
  BY InitIInv
<1>2. IInv /\ [Next]_vars => IInv'
  BY NextIInv
<1>3. IInv => RequestsAuthorised
  BY DEF IInv
<1> QED
  BY <1>1, <1>2, <1>3, PTL DEF Spec

-----------------------------------------------------------------------------
\* A bootstrapping process may insert an absent admin, and never touches another.
LEMMA BootLeavesInactive ==
  ASSUME NEW p \in Process, BootStep(p), admin = "inactive"
  PROVE  admin' = "inactive"
  BY DEF BootStep, BootCheck, BootInsert, BootFails, Insertable

\* No start of any number of processes brings back a deactivated admin.
THEOREM DeactivationIsLasting == Spec => DeactivationLasts
<1>1. [Next]_vars => [admin = "inactive" /\ admin' = "active" => boot' = boot]_vars
  <2> SUFFICES ASSUME Next, admin = "inactive", admin' = "active"
               PROVE  boot' = boot
    BY DEF vars, accountVars
  <2>1. ASSUME NEW p \in Process, BootStep(p) PROVE boot' = boot
    BY <2>1, BootLeavesInactive
  <2>2. ASSUME NEW t \in Token, SessionStep(t) PROVE boot' = boot
    BY <2>2 DEF SessionStep, LoginFind, LoginInsert, Logout, Reap, accountVars
  <2>3. ASSUME NEW q \in Request, Begin(q) \/ RequestStep(q) PROVE boot' = boot
    BY <2>3
    DEF Begin, RequestStep, FindSession, DropExpired, FindAdmin, RequestFails,
        accountVars
  <2> QED
    BY <2>1, <2>2, <2>3 DEF Next, Tick, Toggle, accountVars
<1> QED
  BY <1>1, PTL DEF Spec, DeactivationLasts
=============================================================================
