---------------------------- MODULE AdminSession ----------------------------
(***************************************************************************)
(* app/services/admin_auth.py with login and logout of                     *)
(* app/routers/admin.py and the bootstrap of app/database.py: the admin    *)
(* account, its sessions and the requests they authorise.                  *)
(*                                                                         *)
(* There is one account, settings.ADMIN_USERNAME.  A token is drawn by one *)
(* login and names one session.  An action is the effect of one database   *)
(* call with the code that runs until the next one.                        *)
(***************************************************************************)
EXTENDS Naturals, FiniteSets

CONSTANTS Process,  \* service processes that start on one database
          Token,    \* tokens drawn by logins
          Request,  \* requests that carry a session cookie
          TTL,      \* settings.ADMIN_SESSION_TTL_SECONDS
          MaxTime   \* bound: clock

ASSUME SessionAssumption == TTL \in Nat /\ MaxTime \in Nat

Time == 0 .. MaxTime
NoSession == "none"

VARIABLES now,       \* clock of the service and of MongoDB
          admin,     \* the document in admins, by its `active`
          boot,      \* where each process is in initialize_database()
          login,     \* where the login of each token is
          session,   \* whether admin_sessions holds the token
          expires,   \* expires_at of each token
          pc,        \* where each request is
          cookie,    \* its token
          since,     \* history: when the request began
          late,      \* history: it began after its session was logged out
          active     \* history: the admin was active while it ran

accountVars == <<admin, boot>>
sessionVars == <<login, session, expires>>
requestVars == <<pc, cookie, since, late, active>>
vars == <<now, accountVars, sessionVars, requestVars>>

Init == /\ now = 0
        /\ admin = "absent"
        /\ boot = [p \in Process |-> "checking"]
        /\ login = [t \in Token |-> "idle"]
        /\ session = [t \in Token |-> FALSE]
        /\ expires = [t \in Token |-> 0]
        /\ pc = [q \in Request |-> "idle"]
        /\ cookie \in [Request -> Token]
        /\ since = [q \in Request |-> 0]
        /\ late = [q \in Request |-> FALSE]
        /\ active = [q \in Request |-> FALSE]

Tick == /\ now < MaxTime
        /\ now' = now + 1
        /\ UNCHANGED <<accountVars, sessionVars, requestVars>>

\* The requests that run note that the admin is active now.
NoteActive == active' = [q \in Request |-> active[q] \/ admin' = "active"]

\* A definition named Wrong... is a plausible bug in the definition after it; the
\* properties are tested against it and no action uses it.

-----------------------------------------------------------------------------
(* The account. *)

\* An existing admin is left alone.
BootCheck(p) ==
    /\ boot[p] = "checking"
    /\ boot' = [boot EXCEPT ![p] = IF admin = "absent" THEN "inserting" ELSE "ready"]
    /\ UNCHANGED <<now, admin, sessionVars, requestVars>>

WrongInsertable == TRUE

\* The unique index on username lets one insert through.
Insertable == admin = "absent"

BootInsert(p) ==
    /\ boot[p] = "inserting"
    /\ IF Insertable
         THEN /\ admin' = "active"
              /\ boot' = [boot EXCEPT ![p] = "ready"]
         ELSE /\ boot' = [boot EXCEPT ![p] = "failed"]
              /\ UNCHANGED admin
    /\ NoteActive
    /\ UNCHANGED <<now, sessionVars, pc, cookie, since, late>>

\* The database raises during initialize_database(), before or after the insert
\* took effect: the process runs on, not ready.
BootFails(p) ==
    /\ boot[p] \in {"checking", "inserting"}
    /\ boot' = [boot EXCEPT ![p] = "failed"]
    /\ \/ UNCHANGED admin
       \/ /\ boot[p] = "inserting" /\ Insertable
          /\ admin' = "active"
    /\ NoteActive
    /\ UNCHANGED <<now, sessionVars, pc, cookie, since, late>>

\* An operator edits `active` in the database.
Toggle ==
    /\ admin # "absent"
    /\ admin' = IF admin = "active" THEN "inactive" ELSE "active"
    /\ NoteActive
    /\ UNCHANGED <<now, boot, sessionVars, pc, cookie, since, late>>

-----------------------------------------------------------------------------
(* Sessions. *)

\* The number of seconds taken for minutes.
WrongExpiry == now + 60 * TTL

\* When a session that is created now ends.
Expiry == now + TTL

\* The admin is read and the password fits: a token and its expiry are drawn.  A
\* refused login changes nothing.
LoginFind(t) ==
    /\ login[t] = "idle"
    /\ admin = "active"
    /\ login' = [login EXCEPT ![t] = "creating"]
    /\ expires' = [expires EXCEPT ![t] = Expiry]
    /\ UNCHANGED <<now, accountVars, session, requestVars>>

\* admin_sessions.insert_one(), then the cookie is sent.
LoginInsert(t) ==
    /\ login[t] = "creating"
    /\ login' = [login EXCEPT ![t] = "in"]
    /\ session' = [session EXCEPT ![t] = TRUE]
    /\ UNCHANGED <<now, accountVars, expires, requestVars>>

\* delete_session() removes the document, wherever the cookie goes.
AfterLogout(t) == [session EXCEPT ![t] = FALSE]

Logout(t) ==
    /\ login[t] = "in"
    /\ login' = [login EXCEPT ![t] = "out"]
    /\ session' = AfterLogout(t)
    /\ UNCHANGED <<now, accountVars, expires, requestVars>>

\* The TTL monitor deletes an expired session, at its own pace.
Reap(t) ==
    /\ session[t] /\ expires[t] <= now
    /\ session' = [session EXCEPT ![t] = FALSE]
    /\ UNCHANGED <<now, accountVars, login, expires, requestVars>>

-----------------------------------------------------------------------------
(* get_current_admin() of request q. *)

Goto(q, place) == pc' = [pc EXCEPT ![q] = place]

\* A request arrives with the cookie of a completed login.
Begin(q) ==
    /\ pc[q] = "idle"
    /\ login[cookie[q]] \in {"in", "out"}
    /\ Goto(q, "finding")
    /\ since' = [since EXCEPT ![q] = now]
    /\ late' = [late EXCEPT ![q] = login[cookie[q]] = "out"]
    /\ active' = [active EXCEPT ![q] = admin = "active"]
    /\ UNCHANGED <<now, accountVars, sessionVars, cookie>>

WrongExpired(q) == expires[cookie[q]] < now

\* An expired session is refused whether or not the TTL monitor has seen it.
Expired(q) == expires[cookie[q]] <= now

\* The session is read.
FindSession(q) ==
    /\ pc[q] = "finding"
    /\ Goto(q, IF ~session[cookie[q]] THEN "refused"
               ELSE IF Expired(q) THEN "dropping" ELSE "loading")
    /\ UNCHANGED <<now, accountVars, sessionVars, cookie, since, late, active>>

\* The expired session is deleted by its token hash.
DropExpired(q) ==
    /\ pc[q] = "dropping"
    /\ session' = [session EXCEPT ![cookie[q]] = FALSE]
    /\ Goto(q, "refused")
    /\ UNCHANGED <<now, accountVars, login, expires, cookie, since, late, active>>

MayEnter == admin = "active"

\* The admin is read again: a session outlives a deactivation but is worth
\* nothing while it lasts.
FindAdmin(q) ==
    /\ pc[q] = "loading"
    /\ Goto(q, IF MayEnter THEN "authorised" ELSE "refused")
    /\ UNCHANGED <<now, accountVars, sessionVars, cookie, since, late, active>>

\* A database call raises.
RequestFails(q) ==
    /\ pc[q] \in {"finding", "dropping", "loading"}
    /\ Goto(q, "refused")
    /\ UNCHANGED <<now, accountVars, sessionVars, cookie, since, late, active>>

-----------------------------------------------------------------------------
BootStep(p) == BootCheck(p) \/ BootInsert(p) \/ BootFails(p)
SessionStep(t) == LoginFind(t) \/ LoginInsert(t) \/ Logout(t) \/ Reap(t)
RequestStep(q) == \/ FindSession(q) \/ DropExpired(q) \/ FindAdmin(q)
                  \/ RequestFails(q)

Next == \/ Tick \/ Toggle
        \/ \E p \in Process : BootStep(p)
        \/ \E t \in Token : SessionStep(t)
        \/ \E q \in Request : Begin(q) \/ RequestStep(q)

Spec == Init /\ [][Next]_vars

-----------------------------------------------------------------------------
(* Properties. *)

\* Every variable ranges over the values the code gives it; no session lasts longer
\* than TTL from now.
TypeOK ==
    /\ now \in Time
    /\ admin \in {"absent", "active", "inactive"}
    /\ boot \in [Process -> {"checking", "inserting", "ready", "failed"}]
    /\ login \in [Token -> {"idle", "creating", "in", "out"}]
    /\ session \in [Token -> BOOLEAN]
    /\ expires \in [Token -> 0 .. now + TTL]
    /\ pc \in [Request -> {"idle", "finding", "dropping", "loading", "refused",
                           "authorised"}]
    /\ cookie \in [Request -> Token]
    /\ since \in [Request -> Time]
    /\ late \in [Request -> BOOLEAN] /\ active \in [Request -> BOOLEAN]

\* "Existing admin documents are never overwritten" (admin_auth.py:81): no start
\* of a process brings back an admin that an operator has deactivated.
DeactivationLasts ==
    [][admin = "inactive" /\ admin' = "active" => boot' = boot]_vars

\* The session was alive when the request began: neither expired nor logged out,
\* even before the TTL monitor removes it.
SessionAlive(q) == since[q] < expires[cookie[q]] /\ ~late[q]

\* A request is authorised only by a session that was alive when it began, and
\* only if the admin was active at some moment while it ran: a deactivation ends
\* every session at once, without deleting any (admin_auth.py:140-142).
RequestsAuthorised ==
    \A q \in Request : pc[q] = "authorised" => SessionAlive(q) /\ active[q]
=============================================================================
